---------------------------- MODULE EasyFlashEnv ----------------------------
(***************************************************************************)
(* The environment store of libraries/DFRobot_EasyFlash/src/ef_env.c: keys  *)
(* and values as records appended to flash sectors, garbage collection, the *)
(* address cache, and recovery after a power failure.                       *)
(*                                                                         *)
(* The store runs with interrupts off, so its steps are cut where the power *)
(* can fail: one step per flash write.  Pure computation between two writes *)
(* is a step of its own only where the code branches.  Flash is counted in  *)
(* units, the size of a record header, and a record stands for its bytes.   *)
(***************************************************************************)
EXTENDS Integers, Sequences, FiniteSets, FiniteSetsExt

CONSTANTS
    Keys, Vals, NoKey, NoVal,
    NS,             \* SECTOR_NUM
    Cap,            \* SECTOR_SIZE - SECTOR_HDR_DATA_SIZE, in units
    Size,           \* value -> length of its record, in units
    Threshold,      \* EF_SEC_REMAIN_THRESHOLD, in units
    CacheSize,      \* EF_ENV_CACHE_TABLE_SIZE
    DefaultKey, DefaultVal,     \* default_env_set
    MayReset,       \* the sketch may call ef_env_set_default
    MaxCrashes      \* bound: power failures

HdrSize == 1        \* ENV_HDR_DATA_SIZE
EmptyThreshold == 1 \* EF_GC_EMPTY_SEC_THRESHOLD

ASSUME EnvAssumption ==
    /\ NS \in Nat /\ NS >= 2 /\ EmptyThreshold < NS
    /\ Cap \in Nat /\ Threshold \in Nat /\ MaxCrashes \in Nat
    /\ Size \in [Vals -> 1 .. Cap]
    /\ CacheSize \in Nat \ {0} /\ MayReset \in BOOLEAN
    /\ DefaultKey \in Keys /\ DefaultVal \in Vals
    /\ NoKey \notin Keys /\ NoVal \notin Vals

Sectors == 1 .. NS
NoAddr == <<0, 0>>  \* FAILED_ADDR

VARIABLES
    sec,            \* the flash: every sector's header and records
    cache,          \* env_cache_table: key -> <<sector, offset>> or NoAddr
    gcRequest,      \* gc_request
    lastComplete,   \* last_is_complete_del of del_env
    booting,        \* in_recovery_check
    pc,             \* the next flash write, or branch
    op,             \* the call in progress
    job,            \* whose record is written: "call", "gc" or "recover"
    tried,          \* already_gc of new_env
    target,         \* the sector alloc_env chose for the new record
    old,            \* <<sector, record>> of the value replaced, or NoAddr
    cur,            \* <<sector, record>> under collection or recovery
    gcRet,          \* where gc_collect returns to
    isFull,         \* is_full of create_env_blob
    failed,         \* check_failed_count of ef_load_env
    crashes,        \* power failures so far
    stopped         \* history: the recovery of this boot stopped before a
                    \* PRE_DELETE record, or could not move one

ram == <<cache, gcRequest, lastComplete>>
place == <<target, old, cur>>
call == <<booting, op, tried, gcRet, failed, crashes, stopped>>
vars == <<sec, ram, place, call, pc, job, isFull>>

-----------------------------------------------------------------------------
(* Records.  One without a key has no readable header: the power failed in  *)
(* it.  Status bytes are only ever cleared, so a status never goes back.    *)
EnvStatus == <<"PRE_WRITE", "WRITE", "PRE_DELETE", "DELETED", "ERR_HDR">>
Rank(st) == CHOOSE i \in DOMAIN EnvStatus : EnvStatus[i] = st
Later(a, b) == IF Rank(a) < Rank(b) THEN b ELSE a

Started(at) == [start |-> at, key |-> NoKey, val |-> NoVal, st |-> "PRE_WRITE", crcOk |-> FALSE]
Torn(r) == [r EXCEPT !.st = "ERR_HDR"]

Blank == [magic |-> FALSE, store |-> "UNUSED", dirty |-> "UNUSED", recs |-> <<>>]
Formatted == [magic |-> TRUE, store |-> "EMPTY", dirty |-> "FALSE", recs |-> <<>>]

(* A lone status byte is skipped by the search for the magic word.          *)
RecSize(r) == IF r.key # NoKey THEN Size[r.val]
              ELSE IF r.st = "ERR_HDR" THEN HdrSize ELSE 0

EndOf(recs) ==      \* empty_env: where the search for records ends
    IF recs = <<>> THEN 0 ELSE recs[Len(recs)].start + RecSize(recs[Len(recs)])
Remain(s) == Cap - EndOf(sec[s].recs)

At(a) == sec[a[1]].recs[a[2]]
FlashAddr(a) == <<a[1], At(a).start>>

(* The records env_iterator visits, and its order.                          *)
InUse == {s \in Sectors : sec[s].magic /\ sec[s].store \in {"USING", "FULL"}}
AllRecs == UNION {{<<s, i>> : i \in DOMAIN sec[s].recs} : s \in InUse}
Before(a, b) == a[1] < b[1] \/ (a[1] = b[1] /\ a[2] < b[2])
First(A) == CHOOSE a \in A : \A b \in A \ {a} : Before(a, b)

-----------------------------------------------------------------------------
(* The value the flash still holds for k: a written record's, or else that  *)
(* of the record a set or a move was about to replace, which get does not   *)
(* return: it is there for recovery, and Get says what can be read.         *)
Live(k, st) == {a \in AllRecs : At(a).key = k /\ At(a).crcOk /\ At(a).st = st}
Retained(k) ==
    IF Live(k, "WRITE") # {} THEN At(First(Live(k, "WRITE"))).val
    ELSE IF Live(k, "PRE_DELETE") # {} THEN At(First(Live(k, "PRE_DELETE"))).val
    ELSE NoVal

NoReq == [kind |-> "none"]
Old == IF job = "call" THEN old ELSE cur   \* the record being replaced

Applied ==
    /\ op # NoReq
    /\ \/ gcRet = "return"
       \/ job = "call" /\ pc \in {"dirty", "finish", "return"} /\ Old # NoAddr
       \/ job = "call" /\ pc \in {"delete", "finish"} /\ op.kind # "del"

Map == INSTANCE EnvStore WITH
    kv <- [k \in Keys |-> Retained(k)], req <- op, applied <- Applied
-----------------------------------------------------------------------------
(* Looking a key up.                                                        *)
Found(k) == {a \in AllRecs : At(a).key = k /\ At(a).crcOk /\ At(a).st = "WRITE"}
FindNoCache(k) == IF Found(k) = {} THEN NoAddr ELSE First(Found(k))

(* The cache is believed when the name stored at its address is the key's,  *)
(* whatever the status of that record.                                      *)
CacheHits(k) == {a \in AllRecs : At(a).key = k /\ FlashAddr(a) = cache[k]}
FindEnv(k) == IF CacheHits(k) # {} THEN First(CacheHits(k)) ELSE FindNoCache(k)

(* update_env_cache: a full table gives up some other entry.                *)
CacheWith(k, addr) ==
    LET cached == {j \in Keys : cache[j] # NoAddr}
    IN  IF cache[k] # NoAddr \/ Cardinality(cached) < CacheSize
        THEN {[cache EXCEPT ![k] = addr]}
        ELSE {[cache EXCEPT ![j] = NoAddr, ![k] = addr] : j \in cached}

CacheAfterFind(k) ==
    IF FindEnv(k) = NoAddr THEN {cache} ELSE CacheWith(k, FlashAddr(FindEnv(k)))

(* What ef_get_env_blob returns for k now.                                  *)
Get(k) == IF FindEnv(k) = NoAddr THEN NoVal ELSE At(FindEnv(k)).val

-----------------------------------------------------------------------------
(* alloc_env: sectors in use first; an empty one only while another remains *)
(* or a collection was asked for; otherwise it asks for a collection.       *)
Empties == {s \in Sectors : sec[s].magic /\ sec[s].store = "EMPTY"}

Fits(s, size) ==
    /\ Remain(s) > size
    /\ sec[s].dirty = "FALSE" \/ (sec[s].dirty = "TRUE" /\ ~gcRequest)

FitUsing(size) ==
    {s \in Sectors : sec[s].magic /\ sec[s].store = "USING" /\ Fits(s, size)}

MayTakeEmpty == Cardinality(Empties) > EmptyThreshold \/ gcRequest

Alloc(size) ==
    LET fit == IF FitUsing(size) # {} THEN FitUsing(size)
               ELSE IF MayTakeEmpty THEN {s \in Empties : Fits(s, size)} ELSE {}
    IN  IF fit = {} THEN 0 ELSE Min(fit)

AllocRequestsGc(size) == FitUsing(size) = {} /\ Empties # {} /\ ~MayTakeEmpty

-----------------------------------------------------------------------------
Reset ==    \* the RAM of the program after power-up
    /\ cache' = [k \in Keys |-> NoAddr]
    /\ gcRequest' = FALSE /\ lastComplete' = FALSE
    /\ target' = 0 /\ old' = NoAddr /\ cur' = NoAddr
    /\ booting' = TRUE /\ op' = NoReq /\ tried' = FALSE
    /\ gcRet' = "idle" /\ failed' = 0 /\ stopped' = FALSE
    /\ pc' = "checkHdr" /\ job' = "call" /\ isFull' = FALSE

Init ==
    /\ sec = [s \in Sectors |-> Blank]
    /\ cache = [k \in Keys |-> NoAddr]
    /\ gcRequest = FALSE /\ lastComplete = FALSE
    /\ target = 0 /\ old = NoAddr /\ cur = NoAddr
    /\ booting = TRUE /\ op = NoReq /\ tried = FALSE
    /\ gcRet = "idle" /\ failed = 0 /\ crashes = 0 /\ stopped = FALSE
    /\ pc = "checkHdr" /\ job = "call" /\ isFull = FALSE

Go(from, to) == pc = from /\ pc' = to
SetStatus(a, st) ==
    sec' = [sec EXCEPT ![a[1]].recs[a[2]].st = Later(@, st)]

-----------------------------------------------------------------------------
(* The calls of a sketch.                                                   *)
Begin(r, to) ==
    /\ Go("idle", to)
    /\ op' = r /\ tried' = FALSE /\ job' = "call" /\ old' = NoAddr
    /\ isFull' = FALSE
    /\ UNCHANGED <<sec, ram, target, cur, booting, gcRet, failed, crashes,
                   stopped>>

CallSet(k, v) == Begin([kind |-> "set", key |-> k, val |-> v], "alloc")
CallDel(k) == Begin([kind |-> "del", key |-> k, val |-> NoVal], "find")
CallDefault == MayReset /\ Begin(Map!SetDefault, "wipe")

GetEnv(k) ==
    /\ pc = "idle" /\ cache' \in CacheAfterFind(k)
    /\ UNCHANGED <<sec, gcRequest, lastComplete, place, call, pc, job, isFull>>

(* new_env: a failed allocation that asked for a collection is tried once   *)
(* more after it.                                                           *)
NewEnvMutant ==          \* a bug: already_gc never set
    LET size == Size[op.val]
    IN  /\ pc = "alloc" /\ job = "call"
        /\ target' = Alloc(size)
        /\ gcRequest' = (gcRequest \/ AllocRequestsGc(size))
        /\ pc' = IF target' # 0 THEN IF op.kind = "set" THEN "find" ELSE "status"
                 ELSE IF gcRequest' THEN "gc" ELSE "return"
        /\ gcRet' = IF pc' = "gc" THEN "alloc" ELSE gcRet
        /\ UNCHANGED <<sec, cache, lastComplete, old, cur, booting, op, tried,
                       failed, crashes, stopped, job, isFull>>

NewEnv ==
    LET size == Size[op.val]
    IN  /\ pc = "alloc" /\ job = "call"
        /\ target' = Alloc(size)
        /\ gcRequest' = (gcRequest \/ AllocRequestsGc(size))
        /\ IF target' # 0
           THEN /\ pc' = IF op.kind = "set" THEN "find" ELSE "status"
                /\ UNCHANGED <<op, tried, gcRet>>
           ELSE IF gcRequest' /\ ~tried
           THEN /\ pc' = "gc" /\ tried' = TRUE /\ gcRet' = "alloc"
                /\ UNCHANGED op
           ELSE /\ pc' = "return"       \* EF_ENV_FULL
                /\ UNCHANGED <<op, tried, gcRet>>
        /\ UNCHANGED <<sec, cache, lastComplete, old, cur, booting, failed,
                       crashes, stopped, job, isFull>>

FindOld ==
    /\ pc = "find"
    /\ old' = FindEnv(op.key)
    /\ cache' \in CacheAfterFind(op.key)
    /\ pc' = IF op.kind = "set"
             THEN IF old' = NoAddr THEN "status" ELSE "preDelete"
             ELSE IF old' = NoAddr THEN "return" ELSE "delete"
    /\ UNCHANGED <<sec, gcRequest, lastComplete, target, cur, call, job, isFull>>

-----------------------------------------------------------------------------
(* Writing a record, for create_env_blob and for move_env.                  *)
NewKey == IF job = "call" THEN op.key ELSE At(cur).key
NewVal == IF job = "call" THEN op.val ELSE At(cur).val
LastOf(s) == <<s, Len(sec[s].recs)>>

PreDelete ==
    /\ Go("preDelete", "preDirty")
    /\ SetStatus(Old, "PRE_DELETE") /\ lastComplete' = TRUE
    /\ UNCHANGED <<cache, gcRequest, place, call, job, isFull>>

MarkDirty ==
    sec' = [sec EXCEPT ![Old[1]].dirty = IF @ = "FALSE" THEN "TRUE" ELSE @]

PreDirty ==
    /\ Go("preDirty", IF job = "call" THEN "status" ELSE "alloc")
    /\ MarkDirty
    /\ UNCHANGED <<ram, place, call, job, isFull>>

UpdateSecStatus ==
    LET s == target
        full == /\ sec[s].store = "USING"
                /\ Remain(s) - Size[NewVal] < Threshold
    IN  /\ Go("status", "preWrite")
        /\ sec' = [sec EXCEPT ![s].store = IF full THEN "FULL" ELSE "USING"]
        /\ isFull' = (full /\ job = "call")
        /\ UNCHANGED <<ram, place, call, job>>

PreWrite ==
    /\ Go("preWrite", "header")
    /\ sec' = [sec EXCEPT ![target].recs = Append(@, Started(EndOf(@)))]
    /\ UNCHANGED <<ram, place, call, job, isFull>>

WriteHeader ==
    /\ Go("header", "body")
    /\ sec' = [sec EXCEPT ![target].recs[Len(sec[target].recs)] =
                   [@ EXCEPT !.key = NewKey, !.val = NewVal]]
    /\ UNCHANGED <<ram, place, call, job, isFull>>

WriteBody ==
    /\ Go("body", "commit")
    /\ sec' = [sec EXCEPT ![target].recs[Len(sec[target].recs)].crcOk = TRUE]
    /\ UNCHANGED <<ram, place, call, job, isFull>>

(* The cache, changed a little earlier by create_env_blob, goes along.      *)
Commit ==
    /\ Go("commit", IF Old = NoAddr THEN "finish" ELSE "delete")
    /\ SetStatus(LastOf(target), "WRITE")
    /\ cache' \in CacheWith(NewKey, FlashAddr(LastOf(target)))
    /\ gcRequest' = (gcRequest \/ isFull)
    /\ UNCHANGED <<lastComplete, place, call, job, isFull>>

DeleteMutant ==          \* a bug: the test of last_is_complete_del inverted
    /\ Go("delete", "dirty")
    /\ SetStatus(Old, "DELETED") /\ lastComplete' = FALSE
    /\ cache' = IF job = "call" /\ lastComplete
                THEN [cache EXCEPT ![op.key] = NoAddr] ELSE cache
    /\ UNCHANGED <<gcRequest, place, call, job, isFull>>

(* del_env(.., complete_del): only a delete that follows no PRE_DELETE      *)
(* takes the key out of the cache; move_env passes no key to take out.      *)
Delete ==
    /\ Go("delete", "dirty")
    /\ SetStatus(Old, "DELETED") /\ lastComplete' = FALSE
    /\ cache' = IF job = "call" /\ ~lastComplete
                THEN [cache EXCEPT ![op.key] = NoAddr] ELSE cache
    /\ UNCHANGED <<gcRequest, place, call, job, isFull>>

DirtyAfter == CASE job = "gc" -> "gcNext" [] job = "recover" -> "recNext"
                [] OTHER -> IF op.kind = "set" THEN "finish" ELSE "return"

Dirty ==
    /\ Go("dirty", DirtyAfter)
    /\ MarkDirty
    /\ UNCHANGED <<ram, place, call, job, isFull>>

(* set_env collects before it returns; ef_env_set_default does not.         *)
Finish ==
    /\ Go("finish", IF gcRequest /\ op.kind = "set" THEN "gc" ELSE "return")
    /\ gcRet' = "return"
    /\ UNCHANGED <<sec, ram, place, booting, op, tried, failed, crashes, stopped,
                   job, isFull>>

Return ==
    /\ Go("return", IF booting THEN "recGc" ELSE "idle")
    /\ op' = NoReq /\ gcRet' = "idle" /\ tried' = FALSE
    /\ target' = 0 /\ old' = NoAddr /\ cur' = NoAddr /\ isFull' = FALSE
    /\ UNCHANGED <<sec, ram, booting, failed, crashes, stopped, job>>

SetStep ==
    \/ NewEnv \/ FindOld \/ PreDelete \/ PreDirty \/ UpdateSecStatus
    \/ PreWrite \/ WriteHeader \/ WriteBody \/ Commit \/ Delete \/ Dirty
    \/ Finish \/ Return

-----------------------------------------------------------------------------
MoveAllocMutant ==       \* a bug: no test whether the copy was finished
    LET size == Size[NewVal]
    IN  /\ pc = "alloc" /\ job # "call"
        /\ target' = Alloc(size)
        /\ gcRequest' = (gcRequest \/ AllocRequestsGc(size))
        /\ pc' = IF target' # 0 THEN "status"
                 ELSE IF job = "gc" THEN "gcNext" ELSE "recEnd"
        /\ stopped' = (stopped \/ (pc' = "recEnd" /\ ~gcRequest'))
        /\ UNCHANGED <<sec, cache, lastComplete, old, cur, booting, op, tried,
                       gcRet, failed, crashes, job, isFull>>

(* move_env, after its PRE_DELETE: during recovery a key that already has a *)
(* written record needs no copy.                                            *)
MoveAlloc ==
    LET size == Size[NewVal]
        copied == booting /\ FindNoCache(NewKey) # NoAddr
    IN  /\ pc = "alloc" /\ job # "call"
        /\ target' = Alloc(size)
        /\ gcRequest' = (gcRequest \/ AllocRequestsGc(size))
        /\ pc' = IF target' = 0 THEN IF job = "gc" THEN "gcNext" ELSE "recEnd"
                 ELSE IF copied THEN "delete" ELSE "status"
        /\ stopped' = (stopped \/ (pc' = "recEnd" /\ ~gcRequest'))
        /\ UNCHANGED <<sec, cache, lastComplete, old, cur, booting, op, tried,
                       gcRet, failed, crashes, job, isFull>>

(* gc_collect and do_gc.                                                    *)
Garbage == {s \in Sectors : sec[s].magic /\ sec[s].dirty \in {"TRUE", "GC"}}
ToMoveSkips(s) ==        \* a bug: the iterator steps over a record
    {a \in AllRecs : /\ a[1] = s /\ a[2] > cur[2] + 1 /\ At(a).crcOk
                     /\ At(a).st \in {"WRITE", "PRE_DELETE"}}
ToMoveWritten(s) ==      \* a bug: PRE_DELETE taken for garbage
    {a \in AllRecs : /\ a[1] = s /\ a[2] > cur[2] /\ At(a).crcOk
                     /\ At(a).st = "WRITE"}
ToMove(s) ==
    {a \in AllRecs : /\ a[1] = s /\ a[2] > cur[2] /\ At(a).crcOk
                     /\ At(a).st \in {"WRITE", "PRE_DELETE"}}

GcCollect ==
    /\ Go("gc", IF Cardinality(Empties) <= EmptyThreshold THEN "gcPick" ELSE "gcDone")
    /\ job' = "gc"
    /\ UNCHANGED <<sec, ram, place, call, isFull>>

GcPick ==
    LET s == Min(Garbage)
    IN  /\ pc = "gcPick"
        /\ IF Garbage = {}
           THEN pc' = "gcDone" /\ UNCHANGED <<sec, cur>>
           ELSE /\ pc' = "gcNext"
                /\ sec' = [sec EXCEPT ![s].dirty = "GC"]
                /\ cur' = <<s, 0>>
        /\ UNCHANGED <<ram, target, old, call, job, isFull>>

(* The next record to move; a move that fails is only logged.               *)
GcNext ==
    LET todo == ToMove(cur[1])
    IN  /\ pc = "gcNext"
        /\ IF todo = {}
           THEN pc' = "erase" /\ UNCHANGED cur
           ELSE /\ cur' = First(todo)
                /\ pc' = IF At(cur').st = "WRITE" THEN "preDelete" ELSE "alloc"
        /\ UNCHANGED <<sec, ram, target, old, call, job, isFull>>

Erase ==
    /\ Go("erase", "format")
    /\ sec' = [sec EXCEPT ![cur[1]] = Blank]
    /\ UNCHANGED <<ram, place, call, job, isFull>>

FormatNext == IF job = "gc" THEN "gcPick"
              ELSE IF cur[1] = NS THEN "alloc" ELSE "wipe"

Format ==
    /\ Go("format", FormatNext)
    /\ sec' = [sec EXCEPT ![cur[1]] = Formatted]
    /\ UNCHANGED <<ram, place, call, job, isFull>>

GcDone ==
    /\ Go("gcDone", gcRet)
    /\ gcRequest' = FALSE /\ job' = "call" /\ cur' = NoAddr /\ target' = 0
    /\ UNCHANGED <<sec, cache, lastComplete, old, call, isFull>>

GcStep == MoveAlloc \/ GcCollect \/ GcPick \/ GcNext \/ Erase \/ Format \/ GcDone

-----------------------------------------------------------------------------
(* ef_env_set_default: one sector after the other, then the default key.    *)
Wipe ==
    /\ Go("wipe", "erase")
    /\ cur' = <<cur[1] + 1, 0>>
    /\ UNCHANGED <<sec, ram, target, old, call, job, isFull>>

(* ef_load_env.  Sector headers first,                                      *)
CheckHdr ==
    LET bad == {s \in Sectors : ~sec[s].magic}
    IN  /\ pc = "checkHdr"
        /\ IF bad # {}
           THEN /\ sec' = [sec EXCEPT ![Min(bad)] = Formatted]
                /\ failed' = failed + 1
                /\ UNCHANGED <<pc, op>>
           ELSE /\ pc' = IF failed = NS THEN "wipe" ELSE "recGc"
                /\ op' = IF failed = NS THEN Map!SetDefault ELSE NoReq
                /\ UNCHANGED <<sec, failed>>
        /\ UNCHANGED <<ram, place, booting, tried, gcRet, crashes, stopped, job,
                       isFull>>

(* then a collection the power failure interrupted,                         *)
RecoverGc ==
    LET resume == \E s \in Sectors : sec[s].magic /\ sec[s].dirty = "GC"
    IN  /\ Go("recGc", IF resume THEN "gc" ELSE "recNext")
        /\ gcRequest' = (gcRequest \/ resume)
        /\ gcRet' = "recNext"
        /\ UNCHANGED <<sec, cache, lastComplete, place, booting, op, tried,
                       failed, crashes, stopped, job, isFull>>

(* then every record of an interrupted set: a PRE_DELETE is moved to a      *)
(* fresh record, a PRE_WRITE is given up and ends the search, whatever is   *)
(* behind it.                                                               *)
PreDeleted(a) == At(a).crcOk /\ At(a).st = "PRE_DELETE"
Unfinished(a) == PreDeleted(a) \/ (At(a).st = "PRE_WRITE" /\ At(a).key # NoKey)

RecoverNext ==
    LET todo == {a \in AllRecs : Unfinished(a) /\ Before(cur, a)}
        a == First(todo)
    IN  /\ pc = "recNext"
        /\ job' = "recover"
        /\ IF todo = {} THEN pc' = "recEnd" /\ UNCHANGED <<sec, cur>>
           ELSE IF PreDeleted(a) THEN pc' = "alloc" /\ cur' = a /\ UNCHANGED sec
           ELSE pc' = "recEnd" /\ SetStatus(a, "ERR_HDR") /\ UNCHANGED cur
        /\ stopped' = (stopped \/ (/\ pc' = "recEnd" /\ ~gcRequest
                                   /\ \E b \in todo : PreDeleted(b)))
        /\ UNCHANGED <<ram, target, old, booting, op, tried, gcRet, failed, crashes,
                       isFull>>

RecoverEnd ==
    /\ Go("recEnd", IF gcRequest THEN "gc" ELSE "idle")
    /\ booting' = gcRequest
    /\ gcRet' = IF gcRequest THEN "recNext" ELSE "idle"
    /\ job' = "call" /\ cur' = NoAddr /\ target' = 0
    /\ failed' = IF gcRequest THEN failed ELSE 0
    /\ UNCHANGED <<sec, ram, old, op, tried, crashes, stopped, isFull>>

BootStep == Wipe \/ CheckHdr \/ RecoverGc \/ RecoverNext \/ RecoverEnd

-----------------------------------------------------------------------------
(* The power fails.  A record whose header was being written may be left    *)
(* with a length of all ones; the first record of a sector is read even     *)
(* without a header.  Boot marks both ERR_HDR when it first reads them.     *)
Reread(f) ==
    [s \in Sectors |->
        IF f[s].magic /\ f[s].store = "USING" /\ f[s].recs \in {<<>>, <<Started(0)>>}
        THEN [f[s] EXCEPT !.recs = <<Torn(Started(0))>>] ELSE f[s]]

Crash ==
    /\ crashes < MaxCrashes /\ crashes' = crashes + 1
    /\ \E torn \in IF pc = "header" THEN BOOLEAN ELSE {FALSE} :
           sec' = Reread(IF ~torn THEN sec
                         ELSE [sec EXCEPT ![target].recs[Len(sec[target].recs)] = Torn(@)])
    /\ Reset

-----------------------------------------------------------------------------
CallStep ==
    \/ \E k \in Keys : CallDel(k) \/ GetEnv(k)
    \/ \E k \in Keys, v \in Vals : CallSet(k, v)
    \/ CallDefault

Next == CallStep \/ SetStep \/ GcStep \/ BootStep \/ Crash

Spec == Init /\ [][Next]_vars
FairSpec == Spec /\ WF_vars(SetStep \/ GcStep \/ BootStep)

-----------------------------------------------------------------------------
(* set and del take effect at one flash write and collection changes no     *)
(* key, although both are many writes long and share the cache.             *)
IsMap == Map!Spec

(* No record runs into the next one or over the end of its sector,          *)
InSector ==
    \A s \in Sectors : \A i \in DOMAIN sec[s].recs :
        sec[s].recs[i].start + RecSize(sec[s].recs[i])
            <= IF i = Len(sec[s].recs) THEN Cap ELSE sec[s].recs[i + 1].start

(* and between calls the cache and the flash agree: get returns what is     *)
(* stored.                                                                  *)
ReadBack ==
    /\ InSector
    /\ pc = "idle" => \A k \in Keys : Get(k) = Retained(k)

(* A boot does not copy a value whose copy the failure let finish: it       *)
(* leaves a key at most one written record (ef_env.c 1137).                 *)
OneWritten ==
    [][booting /\ ~booting'
       => \A k \in Keys : Cardinality(Live(k, "WRITE")') <= 1]_vars

(* Neither a failure nor the boot after it changes what the flash holds for *)
(* a key, and after the boot get returns it: recovery has made written      *)
(* records of the marked ones, unless it stopped before one (the search     *)
(* ends at the first PRE_WRITE, ef_env.c 1716-1721) or found no room for it *)
(* and no reason to collect (1714): then the value is there, but not read.  *)
BootKeeps ==
    [][/\ (booting /\ op = NoReq) \/ crashes' # crashes
             => \A k \in Keys : Retained(k)' = Retained(k)
       /\ booting /\ ~booting' /\ ~stopped'
             => \A k \in Keys : Get(k)' = Retained(k)']_vars

(* Every call returns and every boot ends, with all the collection and      *)
(* retrying they do.                                                        *)
EndsInIdle == []<>(pc = "idle")

=============================================================================
