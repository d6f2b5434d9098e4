------------------------- MODULE EasyFlashEnv_proofs -------------------------
(***************************************************************************)
(* Proofs about EasyFlashEnv, for any number of sectors and keys, any       *)
(* sector, record and cache sizes.                                          *)
(*                                                                         *)
(* With power failures anywhere: types, and no record runs into the next    *)
(* one or over the end of its sector (invariant CInv).                      *)
(*                                                                         *)
(* Until the first power failure, and while every collection finds room for *)
(* the records it moves (Quiet): between calls get returns what is stored   *)
(* (ReadBack), and the store implements the map of EnvStore (IsMap).  The   *)
(* invariant is Steady: which records are written, marked or deleted at     *)
(* each step, that a key has one written record, that the cache leads to no *)
(* deleted one, and that collection has emptied what it is about to erase.  *)
(*                                                                         *)
(* Through one power failure, and while no value is lost for want of room   *)
(* (Mendable): the failure and the boot after it change no key, get reads   *)
(* each afterwards unless recovery was stopped (BootKeeps), and a key is    *)
(* left one written record (OneWritten).  The invariant is Mend: Steady     *)
(* until the failure, then Repair until the boot has ended, with how far    *)
(* the search is and where the cache leads (Restoring), or Wiping where     *)
(* boot starts the store afresh.                                            *)
(***************************************************************************)
EXTENDS EasyFlashEnv, FiniteSetTheorems, WellFoundedInduction, TLAPS

(* Types, with those of every record: one without a key has no valid data.  *)
Statuses == {"PRE_WRITE", "WRITE", "PRE_DELETE", "DELETED", "ERR_HDR"}
Records ==
    [start : Nat, key : Keys, val : Vals, st : Statuses, crcOk : BOOLEAN]
        \cup [start : Nat, key : {NoKey}, val : {NoVal}, st : Statuses, crcOk : {FALSE}]
SectorStates ==
    [magic : BOOLEAN, store : {"UNUSED", "EMPTY", "USING", "FULL"},
     dirty : {"UNUSED", "FALSE", "TRUE", "GC"}, recs : Seq(Records)]
Addrs == (0..NS) \X Nat

(* The steps that write a record.                                           *)
Writing == {"status", "preWrite", "header", "body", "commit"}
Replacing == {"preDelete", "preDirty", "delete", "dirty"}
Loading == {"checkHdr", "recGc", "recNext", "recEnd"}
Collecting == {"gcPick", "gcNext", "gcDone"}

(* The flash, and the RAM with what it may be pointing at.                  *)
FlashOK == sec \in [Sectors -> SectorStates]

Types ==
    /\ cache \in [Keys -> Addrs]
    /\ gcRequest \in BOOLEAN /\ lastComplete \in BOOLEAN
    /\ booting \in BOOLEAN /\ tried \in BOOLEAN /\ isFull \in BOOLEAN
    /\ pc \in {"idle", "alloc", "find", "finish", "return", "gc", "erase", "format", "wipe"}
             \cup Writing \cup Replacing \cup Loading \cup Collecting
    /\ op \in Map!Requests \cup {NoReq}
    /\ job \in {"call", "gc", "recover"}
    /\ gcRet \in {"idle", "alloc", "return", "recNext"}
    /\ target \in 0..NS /\ old \in Addrs /\ cur \in Addrs
    /\ failed \in Nat /\ crashes \in Nat /\ stopped \in BOOLEAN

TypeOK == FlashOK /\ Types

(* Which job, request and way back go with which step.                      *)
Jobs ==
    /\ pc \in {"idle", "checkHdr", "recGc", "find", "finish", "return", "gc", "wipe"}
          => job = "call"
    /\ pc \in Collecting => job = "gc"
    /\ pc = "recNext" => job # "gc"
    /\ pc = "recEnd" => job = "recover"
    /\ pc \in {"preDelete", "preDirty", "erase", "format"} => job # "recover"

Returns ==
    /\ pc \in {"idle", "checkHdr", "recGc", "wipe"} => gcRet = "idle"
    /\ pc = "gc" \/ job = "gc" => gcRet # "idle"
    /\ pc \in {"recNext", "recEnd"} \/ job = "recover" => gcRet = "recNext"
    /\ gcRet = "recNext" => pc \in {"gc", "recNext", "recEnd"} \/ job # "call"
    /\ gcRet = "return" => pc \in {"gc", "return"} \/ job = "gc"
    /\ gcRet = "alloc" => op.kind \in {"set", "default"}

Requested ==
    /\ op = NoReq <=> pc \in {"idle", "checkHdr", "recGc"} \/ gcRet = "recNext"
    /\ pc = "find" => op.kind \in {"set", "del"}
    /\ pc \in {"wipe", "erase", "format"} /\ job = "call" => op.kind = "default" /\ gcRet = "idle"
    /\ pc \in Replacing /\ job = "call" => op.kind \in {"set", "del"}
    /\ pc \in {"preDelete", "preDirty"} /\ job = "call" => op.kind = "set"
    /\ pc \in Writing \cup {"alloc", "finish"} /\ job = "call" => op.kind \in {"set", "default"}
    /\ pc \in Loading \/ gcRet = "recNext" => booting
    /\ pc = "idle" \/ op.kind \in {"set", "del"} => ~booting

(* The records and sectors a step is about.                                 *)
Valid(a) == a \in AllRecs /\ At(a).key # NoKey
Making == pc \in {"header", "body", "commit"}
New == LastOf(target)

Pointers ==
    /\ old # NoAddr => \/ gcRet = "return"
                       \/ /\ job = "call" /\ op.kind # "default"
                          /\ pc \in Writing \cup Replacing \cup {"finish", "return"}
    /\ pc \in Replacing => Valid(Old)
    /\ pc \in Writing => Old = NoAddr \/ Valid(Old)
    /\ job # "call" /\ pc \in Writing \cup {"alloc"} => Valid(cur)
    /\ job = "call" /\ pc \in Writing \cup Replacing /\ old # NoAddr => At(old).key = op.key
    /\ Making => Old # New
    /\ job = "gc" /\ pc \notin {"gcPick", "gcDone"} => cur[1] \in Sectors
    /\ job = "call" /\ pc \in {"erase", "format"} => cur[1] \in Sectors
    /\ pc \in {"idle", "checkHdr"} => cur = NoAddr
    /\ pc = "wipe" => cur[1] \in 0..(NS - 1)

(* A sector that is not in use is empty, and the one a record goes to has   *)
(* room for it.                                                             *)
Allocated ==
    \/ pc \in {"status", "preWrite", "header"}
    \/ pc \in {"find", "preDelete", "preDirty"} /\ job = "call" /\ op.kind = "set"

Flash ==
    /\ \A s \in Sectors : sec[s].recs # <<>> => s \in InUse
    /\ pc = "preWrite" \/ Making => target \in InUse
    /\ Allocated =>
          target \in Sectors /\ sec[target].magic /\ Remain(target) > Size[NewVal]
    /\ Making => sec[target].recs # <<>>
    /\ pc = "header" => At(New).key = NoKey /\ At(New).st = "PRE_WRITE"
    /\ pc \in {"body", "commit"} => At(New).key # NoKey

Control == Jobs /\ Returns /\ Requested

CInv == TypeOK /\ Control /\ Pointers /\ Flash /\ InSector

-----------------------------------------------------------------------------
(* A collection that finds no room for a record it has already marked.      *)
Stuck == pc = "alloc" /\ job = "gc" /\ Alloc(Size[NewVal]) = 0
Quiet == crashes = 0 /\ ~Stuck

(* From the PRE_DELETE of the old record to the WRITE of the new one no     *)
(* record of the key is written; from then to DELETED the new one is.       *)
Window == pc \in Writing \cup {"preDirty"} \/ (pc = "alloc" /\ job = "gc")
Removing == job = "call" /\ op.kind = "del"
Replaced == pc = "delete" /\ ~Removing

Clean ==
    /\ \A a \in AllRecs : Making /\ a = New =>
          /\ At(a).st = "PRE_WRITE" /\ (At(a).crcOk <=> pc = "commit")
          /\ pc # "header" => At(a).key = NewKey /\ At(a).val = NewVal
    /\ \A a \in AllRecs : ~(Making /\ a = New) =>
          At(a).crcOk /\ At(a).st \in {"WRITE", "PRE_DELETE", "DELETED"}
    /\ \A a \in AllRecs : At(a).st = "PRE_DELETE" => a = Old /\ (Window \/ Replaced)

OldState ==
    /\ \A a \in AllRecs : a = Old =>
          /\ pc = "preDelete" \/ (pc = "delete" /\ Removing) => At(a).st = "WRITE"
          /\ Window \/ Replaced => At(a).st = "PRE_DELETE"
          /\ pc = "dirty" => At(a).st = "DELETED"
    /\ Replaced => /\ New \in AllRecs
                   /\ \A a \in AllRecs : a = New =>
                         /\ At(a).st = "WRITE" /\ At(a).key = NewKey /\ At(a).val = NewVal
                         /\ cache[NewKey] = FlashAddr(a)

Unique ==
    /\ \A a, b \in AllRecs :
          At(a).st = "WRITE" /\ At(b).st = "WRITE" /\ At(a).key = At(b).key => a = b
    /\ Window => \A a \in AllRecs : At(a).st = "WRITE" => At(a).key # NewKey

Cached ==
    /\ \A k \in Keys : \A a \in CacheHits(k) : At(a).st # "DELETED"
    /\ lastComplete => (Window /\ Old \in AllRecs) \/ Replaced

(* Everything before the record under collection has been moved.            *)
Moved(a) == a[2] < cur[2] \/ (a[2] = cur[2] /\ pc = "gcNext") \/ pc = "erase"
Collected ==
    job = "gc" /\ pc \notin {"gcPick", "gcDone"} =>
        /\ pc # "format" => sec[cur[1]].dirty = "GC"
        /\ \A a \in AllRecs : a[1] = cur[1] /\ Moved(a) => At(a).st = "DELETED"
        /\ pc \in Writing \cup {"delete", "dirty"} => target # cur[1]

Wiped ==
    /\ pc = "format" => \A a \in AllRecs : a[1] # cur[1]
    /\ pc \in {"wipe", "erase", "format"} /\ job = "call" =>
          \A a \in AllRecs : a[1] > cur[1] \/ (a[1] = cur[1] /\ pc = "erase")
    /\ op.kind = "default" /\ gcRet = "return" => pc = "return"
    /\ op.kind = "default" /\ pc \notin {"finish", "return"}
          /\ (gcRet = "alloc" \/ pc \in Writing \cup {"alloc"}) =>
              \A a \in AllRecs : Making /\ a = New

Still == job = "recover" => pc = "recEnd"

Steady == Clean /\ OldState /\ Unique /\ Cached /\ Collected /\ Wiped /\ Still

-----------------------------------------------------------------------------
Committing == pc = "commit" =>
    /\ job # "call" => Old # NoAddr
    /\ job = "call" /\ op.kind = "default" => Old = NoAddr

(* The requests.                                                            *)
LEMMA Kinds ==
    ASSUME op \in Map!Requests \cup {NoReq}
    PROVE /\ op = NoReq <=> op.kind = "none"
          /\ op.kind \in {"none", "set", "del", "default"}
          /\ op # NoReq => op.key \in Keys
          /\ op.kind \in {"set", "default"} => op.val \in Vals
          /\ op.kind = "default" => op = Map!SetDefault
BY EnvAssumption DEF Map!Requests, Map!SetDefault, NoReq

(* Control is preserved.                                                    *)
LEMMA ControlInit == Init => Control
BY DEF Init, Control, Jobs, Returns, Requested, NoReq, Loading, Writing, Replacing, Collecting

LEMMA ControlCalls ==
    ASSUME TypeOK, Control, CallStep
    PROVE Control'
<1> USE DEF Control, Jobs, Returns, Requested, Loading, Writing, Replacing, Collecting
<1>1. ASSUME NEW k \in Keys, CallDel(k) PROVE Control'
  BY <1>1 DEF CallDel, Begin, Go, NoReq
<1>2. ASSUME NEW k \in Keys, GetEnv(k) PROVE Control'
  BY <1>2 DEF GetEnv, call
<1>3. ASSUME NEW k \in Keys, NEW v \in Vals, CallSet(k, v) PROVE Control'
  BY <1>3 DEF CallSet, Begin, Go, NoReq
<1>4. CASE CallDefault
  BY <1>4 DEF CallDefault, Begin, Go, NoReq, Map!SetDefault
<1> QED
  BY <1>1, <1>2, <1>3, <1>4 DEF CallStep

LEMMA ControlSet ==
    ASSUME TypeOK, Control, Committing, SetStep
    PROVE Control'
<1> USE DEF Control, Jobs, Returns, Requested, Loading, Writing, Replacing, Collecting
<1>0. (op = NoReq <=> op.kind = "none") /\ op.kind \in {"none", "set", "del", "default"}
  BY Kinds DEF TypeOK, Types
<1>1. CASE NewEnv
  BY <1>0, <1>1 DEF NewEnv
<1>2. CASE FindOld
  BY <1>0, <1>2 DEF FindOld, call
<1>3. CASE PreDelete
  BY <1>0, <1>3 DEF PreDelete, Go, call
<1>4. CASE PreDirty
  BY <1>0, <1>4 DEF PreDirty, Go, call
<1>5. CASE UpdateSecStatus
  BY <1>0, <1>5 DEF UpdateSecStatus, Go, call
<1>6. CASE PreWrite
  BY <1>0, <1>6 DEF PreWrite, Go, call
<1>7. CASE WriteHeader
  BY <1>0, <1>7 DEF WriteHeader, Go, call
<1>8. CASE WriteBody
  BY <1>0, <1>8 DEF WriteBody, Go, call
<1>9. CASE Commit
  BY <1>0, <1>9 DEF Commit, Committing, Go, call
<1>10. CASE Delete
  BY <1>0, <1>10 DEF Delete, Go, call
<1>11. CASE Dirty
  BY <1>0, <1>11 DEF Dirty, DirtyAfter, Go, call, TypeOK, Types
<1>12. CASE Finish
  BY <1>0, <1>12 DEF Finish, Go
<1>13. CASE Return
  BY <1>0, <1>13 DEF Return, Go, NoReq
<1> QED
  BY <1>1, <1>2, <1>3, <1>4, <1>5, <1>6, <1>7, <1>8, <1>9, <1>10, <1>11, <1>12,
     <1>13 DEF SetStep

LEMMA ControlGc ==
    ASSUME TypeOK, Control, GcStep
    PROVE Control'
<1> USE DEF Control, Jobs, Returns, Requested, Loading, Writing, Replacing, Collecting
<1>0. (op = NoReq <=> op.kind = "none") /\ op.kind \in {"none", "set", "del", "default"}
  BY Kinds DEF TypeOK, Types
<1>1. CASE MoveAlloc
  BY <1>0, <1>1 DEF MoveAlloc, call, TypeOK, Types
<1>2. CASE GcCollect
  BY <1>0, <1>2 DEF GcCollect, Go, call
<1>3. CASE GcPick
  BY <1>0, <1>3 DEF GcPick, call
<1>4. CASE GcNext
  BY <1>0, <1>4 DEF GcNext, call
<1>5. CASE Erase
  BY <1>0, <1>5 DEF Erase, Go, call
<1>6. CASE Format
  BY <1>0, <1>6 DEF Format, FormatNext, Go, call, TypeOK, Types
<1>7. CASE GcDone
  BY <1>0, <1>7 DEF GcDone, Go, call, TypeOK, Types
<1> QED
  BY <1>1, <1>2, <1>3, <1>4, <1>5, <1>6, <1>7 DEF GcStep

LEMMA ControlBoot ==
    ASSUME TypeOK, Control, BootStep \/ Crash
    PROVE Control'
<1> USE DEF Control, Jobs, Returns, Requested, Loading, Writing, Replacing, Collecting
<1>0. (op = NoReq <=> op.kind = "none") /\ op.kind \in {"none", "set", "del", "default"}
  BY Kinds DEF TypeOK, Types
<1>1. CASE Wipe
  BY <1>0, <1>1 DEF Wipe, Go, call
<1>2. CASE CheckHdr
  BY <1>0, <1>2 DEF CheckHdr, NoReq, Map!SetDefault
<1>3. CASE RecoverGc
  BY <1>0, <1>3 DEF RecoverGc, Go
<1>4. CASE RecoverNext
  BY <1>0, <1>4 DEF RecoverNext, call
<1>5. CASE RecoverEnd
  BY <1>0, <1>5 DEF RecoverEnd, Go, TypeOK, Types
<1>6. CASE Crash
  BY <1>6 DEF Crash, Reset, NoReq
<1> QED
  BY <1>1, <1>2, <1>3, <1>4, <1>5, <1>6 DEF BootStep

LEMMA ControlNext ==
    ASSUME TypeOK, Control, Committing, [Next]_vars
    PROVE Control'
<1>1. CASE UNCHANGED vars
  BY <1>1 DEF vars, call, Control, Jobs, Returns, Requested
<1> QED
  BY <1>1, ControlCalls, ControlSet, ControlGc, ControlBoot DEF Next

-----------------------------------------------------------------------------
(* What a step may do to the flash.                                         *)

LEMMA Constants ==
    /\ NS \in Nat /\ NS >= 2 /\ Cap \in Nat /\ Cap >= 1
    /\ \A v \in Vals : Size[v] \in Nat /\ 1 <= Size[v] /\ Size[v] <= Cap
    /\ NoKey \notin Keys /\ NoVal \notin Vals
<1>1. /\ NS \in Nat /\ NS >= 2 /\ Cap \in Nat
      /\ Size \in [Vals -> 1 .. Cap] /\ DefaultVal \in Vals
      /\ NoKey \notin Keys /\ NoVal \notin Vals
  BY EnvAssumption
<1>2. \A v \in Vals : Size[v] \in Nat /\ 1 <= Size[v] /\ Size[v] <= Cap
  BY <1>1
<1>3. Cap >= 1
  BY <1>1, <1>2
<1> QED
  BY <1>1, <1>2, <1>3

(* The records of a sector, and what their types say.                       *)
LEMMA RecordIn ==
    ASSUME FlashOK, NEW s \in Sectors, NEW i \in DOMAIN sec[s].recs
    PROVE /\ sec[s].recs[i] \in Records
          /\ Len(sec[s].recs) \in Nat /\ DOMAIN sec[s].recs = 1..Len(sec[s].recs)
<1>1. sec[s] \in SectorStates
  BY DEF FlashOK
<1>2. sec[s].recs \in Seq(Records)
  BY <1>1 DEF SectorStates
<1> HIDE DEF Records
<1> QED
  BY <1>2

LEMMA SizeOf ==
    ASSUME NEW r \in Records
    PROVE /\ r.start \in Nat
          /\ r.key # NoKey => r.key \in Keys /\ r.val \in Vals /\ RecSize(r) = Size[r.val]
          /\ RecSize(r) \in Nat
          /\ r.key # NoKey => RecSize(r) >= 1
          /\ r.crcOk => r.key # NoKey
BY Constants DEF Records, RecSize, HdrSize

(* A change of status keeps all else, and what status it becomes.           *)
LEMMA Statused ==
    ASSUME NEW r \in Records, NEW st \in Statuses
    PROVE /\ [r EXCEPT !.st = st] \in Records
          /\ [r EXCEPT !.st = st].st = st /\ [r EXCEPT !.st = st].start = r.start
          /\ [r EXCEPT !.st = st].key = r.key /\ [r EXCEPT !.st = st].val = r.val
          /\ [r EXCEPT !.st = st].crcOk = r.crcOk
          /\ r.key # NoKey => RecSize([r EXCEPT !.st = st]) = RecSize(r)
BY DEF Records, RecSize, Statuses

LEMMA Ranks ==
    /\ \A a, b \in Statuses : Later(a, b) \in Statuses
    /\ Later("WRITE", "PRE_DELETE") = "PRE_DELETE" /\ Later("PRE_WRITE", "WRITE") = "WRITE"
    /\ Later("PRE_WRITE", "ERR_HDR") = "ERR_HDR"
    /\ \A a \in {"WRITE", "PRE_DELETE"} : Later(a, "DELETED") = "DELETED"
<1>1. \A a, b \in Statuses : Later(a, b) \in Statuses
  BY DEF Later
<1>2. /\ Rank("PRE_WRITE") = 1 /\ Rank("WRITE") = 2 /\ Rank("PRE_DELETE") = 3
      /\ Rank("DELETED") = 4 /\ Rank("ERR_HDR") = 5
  BY DEF Rank, EnvStatus
<1> QED
  BY <1>1, <1>2 DEF Later

(* A status changes, and nothing else.                                      *)
LEMMA StatusEffect ==
    ASSUME FlashOK, NEW a \in AllRecs, NEW st \in Statuses, SetStatus(a, st)
    PROVE /\ FlashOK' /\ InUse' = InUse /\ AllRecs' = AllRecs
          /\ \A s \in Sectors :
                /\ sec'[s].magic = sec[s].magic /\ sec'[s].store = sec[s].store
                /\ sec'[s].dirty = sec[s].dirty
                /\ DOMAIN sec'[s].recs = DOMAIN sec[s].recs
                /\ Len(sec'[s].recs) = Len(sec[s].recs)
                /\ \A i \in DOMAIN sec[s].recs : sec'[s].recs[i] =
                      IF <<s, i>> = a THEN [sec[s].recs[i] EXCEPT !.st = Later(@, st)]
                      ELSE sec[s].recs[i]
<1>1. PICK s \in Sectors : \E i \in DOMAIN sec[s].recs : a = <<s, i>>
  BY DEF AllRecs, InUse
<1>2. PICK i \in DOMAIN sec[s].recs : a = <<s, i>>
  BY <1>1
<1> DEFINE new == [sec[s].recs[i] EXCEPT !.st = Later(@, st)]
           recs == [sec[s].recs EXCEPT ![i] = new]
<1>3. sec' = [sec EXCEPT ![s] = [sec[s] EXCEPT !.recs = recs]]
  BY <1>2 DEF SetStatus
<1>4. sec[s] \in SectorStates /\ sec[s].recs \in Seq(Records)
  BY DEF FlashOK, SectorStates
<1>5. new \in Records
  <2>1. sec[s].recs[i] \in Records /\ sec[s].recs[i].st \in Statuses
    BY RecordIn DEF Records
  <2> QED
    BY <2>1, Statused, Ranks
<1> HIDE DEF new
<1>6. recs \in Seq(Records) /\ Len(recs) = Len(sec[s].recs) /\ DOMAIN recs = DOMAIN sec[s].recs
  <2> HIDE DEF Records
  <2> QED
    BY <1>4, <1>5
<1>7. \A j \in DOMAIN recs : recs[j] = IF j = i THEN new ELSE sec[s].recs[j]
  BY <1>6
<1> HIDE DEF recs
<1>8. [sec[s] EXCEPT !.recs = recs] \in SectorStates
  <2> HIDE DEF Records
  <2> QED
    BY <1>4, <1>6 DEF SectorStates
<1>9. FlashOK'
  <2> HIDE DEF SectorStates
  <2> QED
    BY <1>3, <1>8 DEF FlashOK
<1>10. \A t \in Sectors :
         /\ sec'[t].magic = sec[t].magic /\ sec'[t].store = sec[t].store
         /\ sec'[t].dirty = sec[t].dirty
         /\ sec'[t].recs = IF t = s THEN recs ELSE sec[t].recs
  <2> HIDE DEF SectorStates
  <2>1. DOMAIN sec = Sectors
    BY DEF FlashOK
  <2> QED
    BY <1>3, <1>4, <2>1 DEF SectorStates
<1>11. \A t \in Sectors : \A j \in DOMAIN sec[t].recs : sec'[t].recs[j] =
         IF <<t, j>> = a THEN [sec[t].recs[j] EXCEPT !.st = Later(@, st)] ELSE sec[t].recs[j]
  BY <1>2, <1>6, <1>7, <1>10 DEF new
<1>12. InUse' = InUse
  BY <1>10 DEF InUse
<1>13. \A t \in Sectors : DOMAIN sec'[t].recs = DOMAIN sec[t].recs
                          /\ Len(sec'[t].recs) = Len(sec[t].recs)
  BY <1>6, <1>10
<1>14. AllRecs' = AllRecs
  <2>1. \A t \in InUse : t \in Sectors
    BY DEF InUse
  <2> QED
    BY <1>12, <1>13, <2>1 DEF AllRecs
<1> QED
  BY <1>9, <1>10, <1>11, <1>12, <1>13, <1>14

(* Records keep their place, sectors in use stay in use.                    *)
Alike ==
    /\ FlashOK' /\ InUse \subseteq InUse'
    /\ \A s \in Sectors :
          /\ sec[s].magic => sec'[s].magic
          /\ DOMAIN sec'[s].recs = DOMAIN sec[s].recs /\ Len(sec'[s].recs) = Len(sec[s].recs)
          /\ \A i \in DOMAIN sec[s].recs :
                /\ sec'[s].recs[i].start = sec[s].recs[i].start
                /\ sec'[s].recs[i].key = sec[s].recs[i].key
                /\ sec'[s].recs[i].val = sec[s].recs[i].val
                /\ RecSize(sec'[s].recs[i]) = RecSize(sec[s].recs[i])

(* Steps that change a status or a sector header are of that kind.          *)
LEMMA AlikeStatus ==
    ASSUME FlashOK, NEW a, Valid(a), NEW st \in Statuses, SetStatus(a, st)
    PROVE Alike /\ InUse' = InUse
<1>0. a \in AllRecs /\ At(a).key # NoKey
  BY DEF Valid
<1>1. /\ FlashOK' /\ InUse' = InUse
      /\ \A s \in Sectors :
            /\ sec'[s].magic = sec[s].magic
            /\ DOMAIN sec'[s].recs = DOMAIN sec[s].recs
            /\ Len(sec'[s].recs) = Len(sec[s].recs)
            /\ \A i \in DOMAIN sec[s].recs : sec'[s].recs[i] =
                  IF <<s, i>> = a THEN [sec[s].recs[i] EXCEPT !.st = Later(@, st)]
                  ELSE sec[s].recs[i]
  BY <1>0, StatusEffect
<1>2. ASSUME NEW s \in Sectors, NEW i \in DOMAIN sec[s].recs
      PROVE /\ sec'[s].recs[i].start = sec[s].recs[i].start
            /\ sec'[s].recs[i].key = sec[s].recs[i].key
            /\ sec'[s].recs[i].val = sec[s].recs[i].val
            /\ RecSize(sec'[s].recs[i]) = RecSize(sec[s].recs[i])
  <2>1. sec[s].recs[i] \in Records
    BY RecordIn
  <2>2. CASE <<s, i>> = a
    <3>1. sec[s].recs[i].key # NoKey
      BY <1>0, <2>2 DEF At
    <3>2. sec[s].recs[i].st \in Statuses
      BY <2>1 DEF Records
    <3>3. Later(sec[s].recs[i].st, st) \in Statuses
      BY <3>2, Ranks
    <3>4. sec'[s].recs[i] = [sec[s].recs[i] EXCEPT !.st = Later(sec[s].recs[i].st, st)]
      BY <1>1, <2>2
    <3> HIDE DEF Statuses
    <3> QED
      BY <2>1, <3>1, <3>3, <3>4, Statused
  <2>3. CASE <<s, i>> # a
    BY <1>1, <2>3
  <2> QED
    BY <2>2, <2>3
<1> QED
  BY <1>1, <1>2 DEF Alike

(* What keeps the records of every sector as they are.                      *)
Untouched == /\ FlashOK' /\ InUse \subseteq InUse'
             /\ \A s \in Sectors : /\ sec'[s].recs = sec[s].recs
                                   /\ sec[s].magic => sec'[s].magic

LEMMA AlikeUntouched ==
    ASSUME Untouched PROVE Alike
BY DEF Untouched, Alike

LEMMA MarkKeeps ==
    ASSUME FlashOK, MarkDirty
    PROVE /\ Untouched /\ InUse' = InUse
          /\ \A s \in Sectors : sec[s].dirty = "GC" => sec'[s].dirty = "GC"
<1>0. DOMAIN sec = Sectors /\ \A s \in Sectors : sec[s] \in SectorStates
  BY DEF FlashOK
<1>1. \A s \in Sectors :
        /\ sec'[s] \in SectorStates /\ sec'[s].recs = sec[s].recs
        /\ sec'[s].magic = sec[s].magic /\ sec'[s].store = sec[s].store
        /\ sec[s].dirty = "GC" => sec'[s].dirty = "GC"
  <2> HIDE DEF Records
  <2> QED
    BY <1>0 DEF MarkDirty, SectorStates
<1>2. sec' \in [Sectors -> SectorStates]
  <2>1. sec' = [s \in Sectors |-> sec'[s]]
    BY <1>0 DEF MarkDirty
  <2> HIDE DEF SectorStates
  <2> QED
    BY <1>1, <2>1
<1>3. InUse' = InUse
  BY <1>1 DEF InUse
<1> QED
  BY <1>1, <1>2, <1>3 DEF Untouched, FlashOK

LEMMA StatusOfSector ==
    ASSUME FlashOK, UpdateSecStatus, target \in Sectors, sec[target].magic
    PROVE Untouched /\ target \in InUse' /\ InUse' = InUse \cup {target}
          /\ \A s \in Sectors : sec'[s].dirty = sec[s].dirty /\ sec'[s].magic = sec[s].magic
<1>0. DOMAIN sec = Sectors /\ \A s \in Sectors : sec[s] \in SectorStates
  BY DEF FlashOK
<1>1. PICK u \in {"FULL", "USING"} : sec' = [sec EXCEPT ![target].store = u]
  BY DEF UpdateSecStatus
<1>2. \A s \in Sectors :
        /\ sec'[s] \in SectorStates /\ sec'[s].recs = sec[s].recs
        /\ sec'[s].magic = sec[s].magic /\ sec'[s].dirty = sec[s].dirty
        /\ sec'[s].store = IF s = target THEN u ELSE sec[s].store
  <2> HIDE DEF Records
  <2> QED
    BY <1>0, <1>1 DEF SectorStates
<1>3. sec' \in [Sectors -> SectorStates]
  <2>1. sec' = [s \in Sectors |-> sec'[s]]
    BY <1>0, <1>1
  <2> HIDE DEF SectorStates
  <2> QED
    BY <1>2, <2>1
<1>4. InUse' = InUse \cup {target}
  BY <1>2 DEF InUse
<1> QED
  BY <1>2, <1>3, <1>4 DEF Untouched, FlashOK
(* One sector gets other contents.                                          *)
Others(s) == \A t \in Sectors : t # s => sec'[t] = sec[t]

(* One sector changes: replaced, its records, a record added or filled in.  *)
LEMMA SectorSet ==
    ASSUME FlashOK, NEW s \in Sectors, NEW x \in SectorStates, sec' = [sec EXCEPT ![s] = x]
    PROVE FlashOK' /\ Others(s) /\ sec'[s] = x
<1> HIDE DEF SectorStates
<1> QED
  BY DEF FlashOK, Others

LEMMA RecsSet ==
    ASSUME FlashOK, NEW s \in Sectors, NEW recs \in Seq(Records),
           sec' = [sec EXCEPT ![s].recs = recs]
    PROVE /\ FlashOK' /\ Others(s) /\ InUse' = InUse
          /\ sec'[s].recs = recs /\ sec'[s].dirty = sec[s].dirty
          /\ sec'[s].magic = sec[s].magic /\ sec'[s].store = sec[s].store
<1>1. sec[s] \in SectorStates
  BY DEF FlashOK
<1> DEFINE x == [sec[s] EXCEPT !.recs = recs]
<1>2. /\ x \in SectorStates /\ x.recs = recs /\ x.dirty = sec[s].dirty
      /\ x.magic = sec[s].magic /\ x.store = sec[s].store
  <2> HIDE DEF Records
  <2> QED
    BY <1>1 DEF SectorStates
<1>3. sec' = [sec EXCEPT ![s] = x]
  OBVIOUS
<1> HIDE DEF x
<1>4. FlashOK' /\ Others(s) /\ sec'[s] = x
  BY <1>2, <1>3, SectorSet
<1>5. InUse' = InUse
  BY <1>2, <1>4 DEF InUse, Others
<1> QED
  BY <1>2, <1>4, <1>5

LEMMA Appended ==
    ASSUME FlashOK, NEW s \in Sectors, NEW r \in Records,
           sec' = [sec EXCEPT ![s].recs = Append(@, r)]
    PROVE /\ FlashOK' /\ Others(s) /\ InUse' = InUse
          /\ sec'[s].recs = Append(sec[s].recs, r) /\ sec'[s].dirty = sec[s].dirty
          /\ sec'[s].magic = sec[s].magic /\ sec'[s].store = sec[s].store
<1>1. sec[s].recs \in Seq(Records)
  BY DEF FlashOK, SectorStates
<1>2. Append(sec[s].recs, r) \in Seq(Records)
  <2> HIDE DEF Records
  <2> QED
    BY <1>1
<1>3. sec' = [sec EXCEPT ![s].recs = Append(sec[s].recs, r)]
  OBVIOUS
<1> QED
  BY <1>2, <1>3, RecsSet

LEMMA LastSet ==
    ASSUME FlashOK, NEW s \in Sectors, sec[s].recs # <<>>, NEW r \in Records,
           sec' = [sec EXCEPT ![s].recs[Len(sec[s].recs)] = r]
    PROVE /\ FlashOK' /\ Others(s) /\ InUse' = InUse
          /\ Len(sec'[s].recs) = Len(sec[s].recs) /\ DOMAIN sec'[s].recs = DOMAIN sec[s].recs
          /\ \A i \in DOMAIN sec[s].recs :
                sec'[s].recs[i] = IF i = Len(sec[s].recs) THEN r ELSE sec[s].recs[i]
          /\ sec'[s].dirty = sec[s].dirty
          /\ sec'[s].magic = sec[s].magic /\ sec'[s].store = sec[s].store
<1> DEFINE n == Len(sec[s].recs)
           recs == [sec[s].recs EXCEPT ![n] = r]
<1>1. sec[s].recs \in Seq(Records)
  BY DEF FlashOK, SectorStates
<1>2. n \in DOMAIN sec[s].recs
  <2> HIDE DEF Records
  <2> QED
    BY <1>1
<1>3. /\ recs \in Seq(Records) /\ Len(recs) = n /\ DOMAIN recs = DOMAIN sec[s].recs
      /\ \A i \in DOMAIN sec[s].recs : recs[i] = IF i = n THEN r ELSE sec[s].recs[i]
  <2> HIDE DEF Records
  <2> QED
    BY <1>1, <1>2
<1>4. sec' = [sec EXCEPT ![s].recs = recs]
  OBVIOUS
<1> HIDE DEF recs
<1>5. /\ FlashOK' /\ Others(s) /\ InUse' = InUse
      /\ sec'[s].recs = recs /\ sec'[s].dirty = sec[s].dirty
      /\ sec'[s].magic = sec[s].magic /\ sec'[s].store = sec[s].store
  BY <1>3, <1>4, RecsSet
<1> QED
  BY <1>3, <1>5

(* The states of a sector without records.                                  *)
LEMMA Emptied ==
    /\ Blank \in SectorStates /\ Formatted \in SectorStates
    /\ Blank.recs = <<>> /\ Formatted.recs = <<>>
    /\ ~Blank.magic /\ Formatted.store = "EMPTY"
BY DEF Blank, Formatted, SectorStates

(* GcPick: only the state of a sector changes.                              *)
LEMMA DirtySet ==
    ASSUME FlashOK, NEW s \in Sectors, sec' = [sec EXCEPT ![s].dirty = "GC"]
    PROVE /\ Untouched /\ InUse' = InUse /\ sec'[s].dirty = "GC"
          /\ \A t \in Sectors : sec[t].dirty = "GC" => sec'[t].dirty = "GC"
<1>1. sec[s] \in SectorStates
  BY DEF FlashOK
<1> DEFINE x == [sec[s] EXCEPT !.dirty = "GC"]
<1>2. /\ x \in SectorStates /\ x.dirty = "GC" /\ x.recs = sec[s].recs
      /\ x.magic = sec[s].magic /\ x.store = sec[s].store
  <2> HIDE DEF Records
  <2> QED
    BY <1>1 DEF SectorStates
<1>3. sec' = [sec EXCEPT ![s] = x]
  OBVIOUS
<1> HIDE DEF x
<1>4. FlashOK' /\ Others(s) /\ sec'[s] = x
  BY <1>2, <1>3, SectorSet
<1>5. InUse' = InUse
  BY <1>2, <1>4 DEF InUse, Others
<1> QED
  BY <1>2, <1>4, <1>5 DEF Untouched, Others

-----------------------------------------------------------------------------
(* Addresses: the minimum of a set of sectors, and the first of records.    *)
LEMMA Least ==
    ASSUME NEW T \in SUBSET Nat, T # {}
    PROVE \E k \in T : \A j \in T : k <= j
<1>1. IsWellFoundedOn(OpToRel(<, Nat), Nat)
  BY NatLessThanWellFounded
<1>2. PICK k \in T : \A j \in T : ~(<<j, k>> \in OpToRel(<, Nat))
  BY <1>1, WFMin, Zenon
<1>3. ASSUME NEW j \in T PROVE k <= j
  <2>1. j \in Nat /\ k \in Nat
    OBVIOUS
  <2>2. ~(<<j, k>> \in OpToRel(<, Nat))
    BY <1>2
  <2>3. ~(j < k)
    BY <2>1, <2>2 DEF OpToRel
  <2> QED
    BY <2>1, <2>3
<1> QED
  BY <1>3

LEMMA Addresses ==
    ASSUME FlashOK, NEW a \in AllRecs
    PROVE /\ a = <<a[1], a[2]>> /\ a[1] \in InUse /\ a[1] \in Sectors
          /\ a[2] \in DOMAIN sec[a[1]].recs /\ a[2] \in Nat /\ a[2] >= 1
          /\ a[1] \in Nat /\ a[1] >= 1 /\ a # NoAddr
          /\ At(a) \in Records /\ At(a) = sec[a[1]].recs[a[2]]
<1>1. PICK s \in InUse : \E i \in DOMAIN sec[s].recs : a = <<s, i>>
  BY DEF AllRecs
<1>2. PICK i \in DOMAIN sec[s].recs : a = <<s, i>>
  BY <1>1
<1>3. s \in Sectors /\ s \in Nat /\ s >= 1
  BY Constants DEF InUse, Sectors
<1>4. sec[s].recs[i] \in Records /\ i \in Nat /\ i >= 1
  <2>1. sec[s].recs[i] \in Records /\ i \in 1..Len(sec[s].recs) /\ Len(sec[s].recs) \in Nat
    BY <1>3, RecordIn
  <2> QED
    BY <2>1
<1> QED
  BY <1>2, <1>3, <1>4 DEF At, NoAddr

LEMMA FirstIn ==
    ASSUME FlashOK, NEW A, A \subseteq AllRecs, A # {}
    PROVE First(A) \in A /\ \A b \in A \ {First(A)} : Before(First(A), b)
<1> DEFINE T == {a[1] : a \in A}
<1>1. T \in SUBSET Nat /\ T # {}
  BY Addresses
<1>2. PICK s \in T : \A t \in T : s <= t
  BY <1>1, Least
<1> DEFINE I == {a[2] : a \in {b \in A : b[1] = s}}
<1>3. I \in SUBSET Nat /\ I # {}
  BY Addresses
<1>4. PICK i \in I : \A j \in I : i <= j
  BY <1>3, Least
<1>5. PICK a \in A : a[1] = s /\ a[2] = i
  OBVIOUS
<1>6. ASSUME NEW b \in A \ {a} PROVE Before(a, b)
  <2>1. b \in AllRecs /\ a \in AllRecs
    OBVIOUS
  <2>2. /\ b = <<b[1], b[2]>> /\ a = <<a[1], a[2]>> /\ b[1] \in Nat /\ b[2] \in Nat
        /\ s \in Nat /\ i \in Nat
    BY <1>5, <2>1, Addresses
  <2>3. s <= b[1]
    BY <1>2
  <2>4. b[1] = s => i <= b[2]
    BY <1>4
  <2>5. b[1] = s => b[2] # i
    BY <1>5, <2>2
  <2> QED
    BY <1>5, <2>2, <2>3, <2>4, <2>5 DEF Before
<1> HIDE DEF T, I
<1>7. a \in A /\ \A b \in A \ {a} : Before(a, b)
  BY <1>5, <1>6
<1> QED
  BY <1>7 DEF First

LEMMA MinIn ==
    ASSUME NEW T \in SUBSET Sectors, T # {}
    PROVE Min(T) \in T /\ Min(T) \in Sectors
<1>1. T \in SUBSET Nat
  BY Constants DEF Sectors
<1>2. PICK k \in T : \A j \in T : k <= j
  BY <1>1, Least
<1> QED
  BY <1>2 DEF Min

-----------------------------------------------------------------------------
(* Room, and what steps that keep the records in place keep.                *)
LEMMA EndIn ==
    ASSUME FlashOK, InSector, NEW s \in Sectors
    PROVE EndOf(sec[s].recs) \in Nat /\ EndOf(sec[s].recs) <= Cap /\ Remain(s) \in Nat
<1>1. sec[s].recs \in Seq(Records)
  BY DEF FlashOK, SectorStates
<1> DEFINE n == Len(sec[s].recs)
<1>2. CASE sec[s].recs = <<>>
  BY <1>2, Constants DEF EndOf, Remain
<1>3. CASE sec[s].recs # <<>>
  <2>1. n \in DOMAIN sec[s].recs
    <3> HIDE DEF Records
    <3> QED
      BY <1>1, <1>3
  <2>2. sec[s].recs[n].start + RecSize(sec[s].recs[n]) <= Cap
    BY <2>1 DEF InSector
  <2>3. sec[s].recs[n] \in Records
    BY <2>1, RecordIn
  <2>4. sec[s].recs[n].start \in Nat /\ RecSize(sec[s].recs[n]) \in Nat
    BY <2>3, SizeOf
  <2> QED
    BY <1>3, <2>2, <2>4, Constants DEF EndOf, Remain
<1> QED
  BY <1>2, <1>3

LEMMA AlikeKeeps ==
    ASSUME FlashOK, InSector, Flash, Alike
    PROVE /\ InSector'
          /\ \A s \in Sectors : Remain(s)' = Remain(s) /\ (sec[s].magic => sec'[s].magic)
          /\ \A s \in Sectors : sec'[s].recs # <<>> <=> sec[s].recs # <<>>
          /\ \A s \in Sectors : sec'[s].recs # <<>> => s \in InUse'
          /\ \A a \in AllRecs : a \in AllRecs' /\ At(a)'.key = At(a).key /\ At(a)'.val = At(a).val
<1>1. \A s \in Sectors : sec[s].recs \in Seq(Records) /\ sec'[s].recs \in Seq(Records)
  BY DEF Alike, FlashOK, SectorStates
<1>2. \A s \in Sectors :
         /\ DOMAIN sec'[s].recs = DOMAIN sec[s].recs /\ Len(sec'[s].recs) = Len(sec[s].recs)
         /\ \A i \in DOMAIN sec[s].recs :
               /\ sec'[s].recs[i].start = sec[s].recs[i].start
               /\ sec'[s].recs[i].key = sec[s].recs[i].key
               /\ sec'[s].recs[i].val = sec[s].recs[i].val
               /\ RecSize(sec'[s].recs[i]) = RecSize(sec[s].recs[i])
  BY DEF Alike
<1>3. \A s \in Sectors : sec'[s].recs # <<>> <=> sec[s].recs # <<>>
  <2> HIDE DEF Records
  <2> QED
    BY <1>1, <1>2
<1>4. ASSUME NEW s \in Sectors PROVE Remain(s)' = Remain(s)
  <2>1. CASE sec[s].recs = <<>>
    BY <1>3, <2>1 DEF Remain, EndOf
  <2>2. CASE sec[s].recs # <<>>
    <3>1. Len(sec[s].recs) \in DOMAIN sec[s].recs
      <4> HIDE DEF Records
      <4> QED
        BY <1>1, <2>2
    <3> QED
      BY <1>2, <1>3, <2>2, <3>1 DEF Remain, EndOf
  <2> QED
    BY <2>1, <2>2
<1>5. InSector'
  <2>1. ASSUME NEW s \in Sectors, NEW i \in DOMAIN sec[s].recs
        PROVE sec'[s].recs[i].start + RecSize(sec'[s].recs[i])
                <= IF i = Len(sec'[s].recs) THEN Cap ELSE sec'[s].recs[i + 1].start
    <3>1. sec[s].recs[i].start + RecSize(sec[s].recs[i])
            <= IF i = Len(sec[s].recs) THEN Cap ELSE sec[s].recs[i + 1].start
      BY DEF InSector
    <3>2. i # Len(sec[s].recs) => i + 1 \in DOMAIN sec[s].recs
      <4>1. i \in 1..Len(sec[s].recs) /\ Len(sec[s].recs) \in Nat
        BY RecordIn
      <4>2. DOMAIN sec[s].recs = 1..Len(sec[s].recs)
        BY RecordIn
      <4> QED
        BY <4>1, <4>2
    <3> QED
      BY <1>2, <3>1, <3>2
  <2> QED
    BY <1>2, <2>1 DEF InSector
<1>6. \A s \in Sectors : sec'[s].recs # <<>> => s \in InUse'
  BY <1>3 DEF Flash, Alike
<1>7. ASSUME NEW a \in AllRecs
      PROVE a \in AllRecs' /\ At(a)'.key = At(a).key /\ At(a)'.val = At(a).val
  <2>1. /\ a = <<a[1], a[2]>> /\ a[1] \in InUse /\ a[1] \in Sectors
        /\ a[2] \in DOMAIN sec[a[1]].recs
    BY Addresses
  <2>2. a[1] \in InUse'
    BY <2>1 DEF Alike
  <2>3. a \in AllRecs'
    BY <1>2, <2>1, <2>2 DEF AllRecs
  <2> QED
    BY <1>2, <2>1, <2>3 DEF At
<1>8. \A s \in Sectors : sec[s].magic => sec'[s].magic
  BY DEF Alike
<1> QED
  BY <1>3, <1>4, <1>5, <1>6, <1>7, <1>8

-----------------------------------------------------------------------------
(* What the searches return.                                                *)
LEMMA Nowhere == NoAddr \in Addrs /\ 0 \in 0..NS
BY Constants DEF NoAddr, Addrs

LEMMA AddrIn ==
    ASSUME FlashOK, NEW a \in AllRecs
    PROVE a \in Addrs /\ FlashAddr(a) \in Addrs /\ FlashAddr(a) # NoAddr
<1>1. a = <<a[1], a[2]>> /\ a[1] \in Sectors /\ a[2] \in Nat /\ At(a) \in Records
  BY Addresses
<1>2. At(a).start \in Nat
  BY <1>1, SizeOf
<1>3. a[1] \in 0..NS /\ a[1] # 0
  BY <1>1, Constants DEF Sectors
<1>4. FlashAddr(a) = <<a[1], At(a).start>>
  BY DEF FlashAddr
<1> QED
  BY <1>1, <1>2, <1>3, <1>4 DEF Addrs, NoAddr

LEMMA FindIn ==
    ASSUME FlashOK, NEW k \in Keys
    PROVE /\ FindEnv(k) = NoAddr \/ (FindEnv(k) \in AllRecs /\ At(FindEnv(k)).key = k)
          /\ CacheHits(k) # {} => FindEnv(k) \in CacheHits(k)
          /\ CacheHits(k) = {} => FindEnv(k) \in Found(k) \/ (FindEnv(k) = NoAddr /\ Found(k) = {})
          /\ FindEnv(k) \in Addrs
<1>1. CacheHits(k) \subseteq AllRecs /\ Found(k) \subseteq AllRecs
  BY DEF CacheHits, Found
<1>2. /\ CacheHits(k) # {} => FindEnv(k) \in CacheHits(k)
      /\ CacheHits(k) = {} => FindEnv(k) \in Found(k) \/ (FindEnv(k) = NoAddr /\ Found(k) = {})
  BY <1>1, FirstIn DEF FindEnv, FindNoCache
<1>3. FindEnv(k) = NoAddr \/ (FindEnv(k) \in AllRecs /\ At(FindEnv(k)).key = k)
  BY <1>2 DEF CacheHits, Found
<1>4. NoAddr \in Addrs
  BY Constants DEF NoAddr, Addrs
<1>5. FindEnv(k) \in Addrs
  BY <1>3, <1>4, AddrIn
<1> QED
  BY <1>2, <1>3, <1>5

LEMMA AllocIn ==
    ASSUME FlashOK, NEW size
    PROVE /\ Alloc(size) \in 0..NS
          /\ Alloc(size) # 0 =>
                /\ Alloc(size) \in Sectors /\ sec[Alloc(size)].magic
                /\ Remain(Alloc(size)) > size /\ sec[Alloc(size)].dirty # "GC"
<1> DEFINE fit == IF FitUsing(size) # {} THEN FitUsing(size)
                  ELSE IF MayTakeEmpty THEN {s \in Empties : Fits(s, size)} ELSE {}
<1>1. fit \in SUBSET Sectors
  BY DEF FitUsing, Empties
<1>2. \A s \in fit : sec[s].magic /\ Remain(s) > size /\ sec[s].dirty # "GC"
  BY DEF FitUsing, Empties, Fits
<1>3. Alloc(size) = IF fit = {} THEN 0 ELSE Min(fit)
  BY DEF Alloc
<1> HIDE DEF fit
<1>4. CASE fit = {}
  BY <1>3, <1>4, Constants
<1>5. CASE fit # {}
  <2>1. Alloc(size) \in fit /\ Alloc(size) \in Sectors
    BY <1>1, <1>3, <1>5, MinIn
  <2>2. Alloc(size) \in 0..NS
    BY <2>1, Constants DEF Sectors
  <2> QED
    BY <1>2, <2>1, <2>2
<1> QED
  BY <1>4, <1>5

LEMMA CacheIn ==
    ASSUME cache \in [Keys -> Addrs], NEW k \in Keys, NEW addr \in Addrs,
           NEW c \in CacheWith(k, addr)
    PROVE /\ c \in [Keys -> Addrs] /\ c[k] = addr
          /\ \A j \in Keys \ {k} : c[j] = cache[j] \/ c[j] = NoAddr
<1>1. NoAddr \in Addrs
  BY Constants DEF NoAddr, Addrs
<1>2. \/ c = [cache EXCEPT ![k] = addr]
      \/ \E j \in Keys : c = [cache EXCEPT ![j] = NoAddr, ![k] = addr]
  BY DEF CacheWith
<1>3. CASE c = [cache EXCEPT ![k] = addr]
  BY <1>3
<1>4. ASSUME NEW j \in Keys, c = [cache EXCEPT ![j] = NoAddr, ![k] = addr]
      PROVE /\ c \in [Keys -> Addrs] /\ c[k] = addr
            /\ \A i \in Keys \ {k} : c[i] = cache[i] \/ c[i] = NoAddr
  <2> HIDE DEF Addrs, NoAddr
  <2> QED
    BY <1>1, <1>4
<1> QED
  BY <1>2, <1>3, <1>4

LEMMA FindCache ==
    ASSUME FlashOK, cache \in [Keys -> Addrs], NEW k \in Keys, NEW c \in CacheAfterFind(k)
    PROVE /\ c \in [Keys -> Addrs]
          /\ \A j \in Keys : \/ c[j] = cache[j] \/ c[j] = NoAddr
                             \/ j = k /\ FindEnv(k) \in AllRecs /\ c[k] = FlashAddr(FindEnv(k))
<1>1. CASE FindEnv(k) = NoAddr
  BY <1>1 DEF CacheAfterFind
<1>2. CASE FindEnv(k) # NoAddr
  <2>1. FindEnv(k) \in AllRecs
    BY <1>2, FindIn
  <2>2. FlashAddr(FindEnv(k)) \in Addrs
    BY <2>1, AddrIn
  <2>3. c \in CacheWith(k, FlashAddr(FindEnv(k)))
    BY <1>2 DEF CacheAfterFind
  <2>4. /\ c \in [Keys -> Addrs] /\ c[k] = FlashAddr(FindEnv(k))
        /\ \A j \in Keys \ {k} : c[j] = cache[j] \/ c[j] = NoAddr
    BY <2>2, <2>3, CacheIn
  <2> QED
    BY <2>1, <2>4
<1> QED
  BY <1>1, <1>2

-----------------------------------------------------------------------------
(* The invariant, action by action.                                         *)
Placed == TypeOK /\ Pointers /\ Flash /\ InSector

LEMMA SecKept ==
    ASSUME FlashOK, InSector, UNCHANGED sec
    PROVE FlashOK' /\ InSector'
BY DEF FlashOK, InSector

(* Placed is preserved, action by action. Calls and look-ups:               *)
LEMMA PlacedCalls ==
    ASSUME CInv, CallStep
    PROVE Placed'
<1> USE DEF CInv, Placed, TypeOK
<1>0. FlashOK' /\ InSector' /\ sec' = sec
  <2>1. UNCHANGED sec
    BY DEF CallStep, CallSet, CallDel, CallDefault, GetEnv, Begin
  <2> QED
    BY <2>1, SecKept
<1>1. ASSUME NEW r \in Map!Requests, NEW to \in {"alloc", "find", "wipe"}, Begin(r, to),
             to = "find" => r.kind = "del", to = "wipe" => r.kind = "default"
      PROVE Placed'
  <2>1. Types'
    BY <1>1, Nowhere DEF Begin, Go, Types, ram
  <2>2. Pointers'
    BY <1>1, Constants DEF Begin, Go, Pointers, Writing, Replacing, Making, NoAddr
  <2>3. Flash'
    BY <1>0, <1>1 DEF Begin, Go, Flash, Making, Allocated, Writing, InUse
  <2> QED
    BY <1>0, <2>1, <2>2, <2>3
<1>2. ASSUME NEW k \in Keys, GetEnv(k) PROVE Placed'
  <2>1. cache' \in [Keys -> Addrs]
    BY <1>2, FindCache DEF GetEnv, Types
  <2>2. Types'
    BY <1>2, <2>1 DEF GetEnv, Types, place, call
  <2>3. Pointers'
    BY <1>0, <1>2 DEF GetEnv, Pointers, Writing, Replacing, Making, place, call
  <2>4. Flash'
    BY <1>0, <1>2 DEF GetEnv, Flash, Making, Allocated, InUse
  <2> QED
    BY <1>0, <2>2, <2>3, <2>4
<1> QED
  <2>1. ASSUME NEW k \in Keys, CallDel(k) PROVE Placed'
    BY <1>1, <2>1 DEF CallDel, Map!Requests
  <2>2. ASSUME NEW k \in Keys, NEW v \in Vals, CallSet(k, v) PROVE Placed'
    BY <1>1, <2>2 DEF CallSet, Map!Requests
  <2>3. CASE CallDefault
    BY <1>1, <2>3 DEF CallDefault, Map!Requests, Map!SetDefault
  <2> QED
    BY <1>2, <2>1, <2>2, <2>3 DEF CallStep
LEMMA PlacedNewEnv ==
    ASSUME CInv, NewEnv \/ FindOld \/ Finish \/ Return
    PROVE Placed'
<1> USE DEF CInv, Placed, TypeOK
<1>0. FlashOK' /\ InSector' /\ sec' = sec
  <2>1. UNCHANGED sec
    BY DEF NewEnv, FindOld, Finish, Return
  <2> QED
    BY <2>1, SecKept
<1>1. /\ op = NoReq <=> op.kind = "none"
      /\ op # NoReq => op.key \in Keys
      /\ op.kind \in {"set", "default"} => op.val \in Vals
  BY Kinds DEF Types
<1>2. CASE NewEnv
  <2>1. /\ target' = Alloc(Size[op.val]) /\ target' \in 0..NS
        /\ target' # 0 => /\ target' \in Sectors /\ sec[target'].magic
                          /\ Remain(target') > Size[op.val]
    BY <1>2, AllocIn DEF NewEnv
  <2>2. Types'
    BY <1>2, <2>1 DEF NewEnv, Types, Writing
  <2>3. old = NoAddr
    BY <1>2 DEF NewEnv, Pointers, Writing, Replacing, Control, Returns, Jobs
  <2>4. Pointers'
    BY <1>0, <1>2, <2>3 DEF NewEnv, Pointers, Writing, Replacing, Making, Old
  <2>5. Flash'
    BY <1>0, <1>2, <2>1
       DEF NewEnv, Flash, Making, Allocated, Writing, InUse, NewVal, Remain
  <2> QED
    BY <1>0, <2>2, <2>4, <2>5
<1>3. CASE FindOld
  <2>1. op.key \in Keys /\ job = "call"
    BY <1>3, <1>1 DEF FindOld, Control, Requested, Jobs
  <2>2. old' \in Addrs /\ (old' = NoAddr \/ (old' \in AllRecs /\ At(old').key = op.key))
    BY <1>3, <2>1, FindIn DEF FindOld
  <2>3. cache' \in [Keys -> Addrs]
    BY <1>3, <2>1, FindCache DEF FindOld, Types
  <2>4. Types'
    BY <1>3, <2>2, <2>3 DEF FindOld, Types, call, Writing, Replacing
  <2>5. op.key # NoKey
    BY <2>1, Constants
  <2>6. Pointers'
    BY <1>0, <1>3, <2>1, <2>2, <2>5
       DEF FindOld, Pointers, Writing, Replacing, Making, Old, Valid, At, AllRecs, InUse,
           call, Control, Requested, Returns
  <2>7. Flash'
    BY <1>0, <1>3, <2>1
       DEF FindOld, Flash, Making, Allocated, Writing, InUse, NewVal, Remain, call,
           Control, Requested
  <2> QED
    BY <1>0, <2>4, <2>6, <2>7
<1>4. CASE Finish
  <2>1. Types'
    BY <1>4 DEF Finish, Go, Types, ram, place
  <2>2. Pointers'
    BY <1>0, <1>4 DEF Finish, Go, Pointers, Writing, Replacing, Making, place
  <2>3. Flash'
    BY <1>0, <1>4 DEF Finish, Go, Flash, Making, Allocated, InUse
  <2> QED
    BY <1>0, <2>1, <2>2, <2>3
<1>5. CASE Return
  <2>1. Types'
    BY <1>5, Nowhere DEF Return, Go, Types, ram, Loading
  <2>2. Pointers'
    BY <1>0, <1>5 DEF Return, Go, Pointers, Writing, Replacing, Making, Control, Jobs
  <2>3. Flash'
    BY <1>0, <1>5 DEF Return, Go, Flash, Making, Allocated, InUse
  <2> QED
    BY <1>0, <2>1, <2>2, <2>3
<1> QED
  BY <1>2, <1>3, <1>4, <1>5
(* What such a step leaves of the records pointed at;                       *)
LEMMA AlikeValid ==
    ASSUME FlashOK, InSector, Flash, Alike, UNCHANGED <<target, old, cur, op, job>>
    PROVE /\ Valid(Old) => Valid(Old)' /\ (At(Old).key)' = At(Old).key
                             /\ (At(Old).val)' = At(Old).val
          /\ Valid(cur) => Valid(cur)' /\ (At(cur).key)' = At(cur).key
                             /\ (At(cur).val)' = At(cur).val
          /\ Old' = Old
          /\ (job = "call" \/ Valid(cur)) => NewVal' = NewVal /\ NewKey' = NewKey
          /\ target \in Sectors => New' = New
<1>1. \A a \in AllRecs : a \in AllRecs' /\ At(a)'.key = At(a).key /\ At(a)'.val = At(a).val
  BY AlikeKeeps
<1>2. ASSUME NEW a, Valid(a)
      PROVE Valid(a)' /\ At(a)'.key = At(a).key /\ At(a)'.val = At(a).val
  BY <1>1, <1>2 DEF Valid
<1>3. Old' = Old
  BY DEF Old
<1>4. Valid(Old) => Valid(Old)' /\ (At(Old).key)' = At(Old).key /\ (At(Old).val)' = At(Old).val
  <2>1. PICK o : o = Old
    OBVIOUS
  <2>2. ASSUME Valid(o) PROVE Valid(o)' /\ At(o)'.key = At(o).key /\ At(o)'.val = At(o).val
    BY <1>2, <2>2
  <2> QED
    BY <1>3, <2>1, <2>2 DEF Valid, At
<1>5. Valid(cur) => Valid(cur)' /\ (At(cur).key)' = At(cur).key /\ (At(cur).val)' = At(cur).val
  <2>1. PICK o : o = cur
    OBVIOUS
  <2>2. ASSUME Valid(o) PROVE Valid(o)' /\ At(o)'.key = At(o).key /\ At(o)'.val = At(o).val
    BY <1>2, <2>2
  <2> QED
    BY <2>1, <2>2 DEF Valid, At
<1>6. target \in Sectors => New' = New
  BY DEF New, LastOf, Alike
<1>7. (job = "call" \/ Valid(cur)) => NewVal' = NewVal /\ NewKey' = NewKey
  BY <1>5 DEF NewVal, NewKey
<1> QED
  BY <1>3, <1>4, <1>5, <1>6, <1>7

(* the marks of the record replaced.                                        *)
LEMMA PlacedDeletes ==
    ASSUME CInv, PreDelete \/ PreDirty \/ Delete \/ Dirty
    PROVE Placed'
<1> USE DEF CInv, Placed, TypeOK
<1>0. Valid(Old) /\ UNCHANGED <<target, old, cur, op, job>>
  BY DEF PreDelete, PreDirty, Delete, Dirty, Go, Pointers, Replacing, place, call
<1>1. Alike
  <2>1. CASE \E st \in Statuses : SetStatus(Old, st)
    <3>1. PICK o : o = Old
      OBVIOUS
    <3>2. PICK st \in Statuses : SetStatus(o, st)
      BY <2>1, <3>1
    <3> QED
      BY <1>0, <3>1, <3>2, AlikeStatus
  <2>2. CASE MarkDirty
    BY <2>2, MarkKeeps, AlikeUntouched
  <2> QED
    BY <2>1, <2>2 DEF PreDelete, PreDirty, Delete, Dirty, Statuses
<1>2. /\ InSector'
      /\ \A s \in Sectors : Remain(s)' = Remain(s) /\ (sec[s].magic => sec'[s].magic)
      /\ \A s \in Sectors : sec'[s].recs # <<>> <=> sec[s].recs # <<>>
      /\ \A s \in Sectors : sec'[s].recs # <<>> => s \in InUse'
  BY <1>1, AlikeKeeps
<1>3. /\ Valid(Old)' /\ (At(Old).key)' = At(Old).key
      /\ Valid(cur) => Valid(cur)'
      /\ Old' = Old
      /\ (job = "call" \/ Valid(cur)) => NewVal' = NewVal /\ NewKey' = NewKey
  BY <1>0, <1>1, AlikeValid
<1>4. Types'
  <2>1. CASE PreDelete
    BY <2>1 DEF PreDelete, Go, Types, place, call, Replacing
  <2>2. CASE PreDirty
    BY <2>2 DEF PreDirty, Go, Types, ram, place, call, Writing
  <2>3. CASE Delete
    <3>1. cache' \in [Keys -> Addrs]
      BY <2>3, Nowhere DEF Delete, Types
    <3> QED
      BY <2>3, <3>1 DEF Delete, Go, Types, place, call, Replacing
  <2>4. CASE Dirty
    BY <2>4 DEF Dirty, DirtyAfter, Go, Types, ram, place, call, Loading, Collecting
  <2> QED
    BY <2>1, <2>2, <2>3, <2>4
<1>5. /\ pc \in Replacing
      /\ pc' \in {"preDirty", "status", "alloc", "dirty", "gcNext", "recNext", "finish", "return"}
  BY DEF PreDelete, PreDirty, Delete, Dirty, DirtyAfter, Go, Replacing
<1>6. Pointers'
  <2>1. job = "call" => old = Old /\ (At(old).key)' = At(old).key
    BY <1>0, <1>3 DEF Old
  <2>2. job # "call" => cur = Old /\ Valid(cur)'
    BY <1>0, <1>3 DEF Old
  <2>3. job = "call" => pc' \in Writing \cup Replacing \cup {"finish", "return"}
    BY <1>5 DEF PreDelete, PreDirty, Delete, Dirty, DirtyAfter, Go, Writing, Replacing
  <2>4. gcRet' = gcRet
    BY DEF PreDelete, PreDirty, Delete, Dirty, call
  <2> HIDE DEF CInv
  <2> USE DEF Pointers
  <2>5. Pointers
    BY DEF CInv
  <2> QED
    BY <1>0, <1>3, <1>5, <2>1, <2>2, <2>3, <2>4, <2>5 DEF Making, Writing, Replacing
<1>7. Flash'
  <2>1. Allocated' => Allocated
    BY <1>0, <1>5
       DEF Allocated, PreDelete, PreDirty, Delete, Dirty, DirtyAfter, Go, Control, Requested
  <2>2. pc' # "preWrite" /\ ~Making'
    BY <1>5 DEF Making
  <2>3. Allocated => job = "call"
    BY <1>5 DEF Allocated, Replacing
  <2>4. Allocated' => target' \in Sectors /\ sec'[target'].magic /\ Remain(target)' > Size[NewVal']
    BY <1>0, <1>2, <1>3, <2>1, <2>3 DEF Flash
  <2> QED
    BY <1>2, <1>5, <2>2, <2>4 DEF Flash, Making
<1> QED
  BY <1>1, <1>2, <1>4, <1>6, <1>7 DEF Alike

(* The record being written is the last of its sector.                      *)
LEMMA NewIn ==
    ASSUME FlashOK, Flash, Making
    PROVE /\ target \in InUse /\ target \in Sectors /\ sec[target].recs # <<>>
          /\ New \in AllRecs /\ New = <<target, Len(sec[target].recs)>>
          /\ At(New) = sec[target].recs[Len(sec[target].recs)] /\ At(New) \in Records
          /\ Len(sec[target].recs) \in DOMAIN sec[target].recs
<1>1. target \in InUse /\ sec[target].recs # <<>>
  BY DEF Flash
<1>2. target \in Sectors
  BY <1>1 DEF InUse
<1>3. sec[target].recs \in Seq(Records)
  BY <1>2 DEF FlashOK, SectorStates
<1>4. Len(sec[target].recs) \in DOMAIN sec[target].recs
  <2> HIDE DEF Records
  <2> QED
    BY <1>1, <1>3
<1>5. New \in AllRecs
  BY <1>1, <1>4 DEF New, LastOf, AllRecs
<1>6. New = <<target, Len(sec[target].recs)>>
  BY DEF New, LastOf
<1> QED
  BY <1>1, <1>2, <1>4, <1>5, <1>6, RecordIn DEF At

(* The header of its sector, its data and its commit.                       *)
LEMMA PlacedWrites ==
    ASSUME CInv, UpdateSecStatus \/ WriteBody \/ Commit
    PROVE Placed'
<1> USE DEF CInv, Placed, TypeOK
<1>0. /\ UNCHANGED <<target, old, cur, op, job, gcRet>> /\ pc \in Writing
      /\ pc' \in {"preWrite", "commit", "finish", "delete"}
      /\ pc' = "delete" => Old # NoAddr
  BY DEF UpdateSecStatus, WriteBody, Commit, Go, Pointers, Writing, place, call
<1>1. Alike /\ (UpdateSecStatus => target \in InUse') /\ target \in Sectors
  <2>1. CASE UpdateSecStatus
    <3>1. target \in Sectors /\ sec[target].magic
      BY <2>1 DEF UpdateSecStatus, Go, Flash, Allocated
    <3> QED
      BY <2>1, <3>1, StatusOfSector, AlikeUntouched
  <2>2. CASE WriteBody
    <3>1. Making
      BY <2>2 DEF WriteBody, Go, Making
    <3>2. target \in Sectors /\ At(New) \in Records /\ sec[target].recs # <<>>
          /\ At(New) = sec[target].recs[Len(sec[target].recs)]
      BY <3>1, NewIn
    <3> DEFINE r == [At(New) EXCEPT !.crcOk = TRUE]
    <3>3. /\ r \in Records /\ r.start = At(New).start /\ r.key = At(New).key
          /\ r.val = At(New).val /\ RecSize(r) = RecSize(At(New))
      <4>1. At(New).key # NoKey
        BY <2>2 DEF WriteBody, Go, Flash
      <4> QED
        BY <3>2, <4>1 DEF Records, RecSize
    <3>4. sec' = [sec EXCEPT ![target].recs[Len(sec[target].recs)] = r]
      BY <2>2, <3>2 DEF WriteBody
    <3> HIDE DEF r
    <3>5. /\ FlashOK' /\ Others(target) /\ InUse' = InUse
          /\ Len(sec'[target].recs) = Len(sec[target].recs)
          /\ DOMAIN sec'[target].recs = DOMAIN sec[target].recs
          /\ \A i \in DOMAIN sec[target].recs : sec'[target].recs[i] =
                IF i = Len(sec[target].recs) THEN r ELSE sec[target].recs[i]
          /\ sec'[target].magic = sec[target].magic
      BY <3>2, <3>3, <3>4, LastSet
    <3>6. Alike
      BY <3>2, <3>3, <3>5 DEF Alike, Others
    <3> QED
      BY <2>2, <3>2, <3>6 DEF UpdateSecStatus, WriteBody, Go
  <2>3. CASE Commit
    <3>1. pc = "commit" /\ Making
      BY <2>3 DEF Commit, Go, Making
    <3>2. New \in AllRecs /\ target \in Sectors
      BY <3>1, NewIn
    <3>3. Valid(New)
      BY <3>1, <3>2 DEF Valid, Flash
    <3>4. PICK n : n = New
      OBVIOUS
    <3>5. SetStatus(n, "WRITE")
      BY <2>3, <3>4 DEF Commit, New
    <3>6. Alike
      BY <3>3, <3>4, <3>5, AlikeStatus DEF Statuses
    <3> QED
      BY <3>1, <3>2, <3>6 DEF UpdateSecStatus, Go
  <2> QED
    BY <2>1, <2>2, <2>3
<1>2. /\ InSector'
      /\ \A s \in Sectors : Remain(s)' = Remain(s) /\ (sec[s].magic => sec'[s].magic)
      /\ \A s \in Sectors : sec'[s].recs # <<>> <=> sec[s].recs # <<>>
      /\ \A s \in Sectors : sec'[s].recs # <<>> => s \in InUse'
      /\ \A a \in AllRecs : a \in AllRecs' /\ At(a)'.key = At(a).key /\ At(a)'.val = At(a).val
  BY <1>1, AlikeKeeps
<1>3. /\ Valid(Old) => Valid(Old)' /\ (At(Old).key)' = At(Old).key
      /\ Valid(cur) => Valid(cur)'
      /\ Old' = Old /\ New' = New
      /\ (job = "call" \/ Valid(cur)) => NewVal' = NewVal /\ NewKey' = NewKey
  BY <1>0, <1>1, AlikeValid
<1>4. Types'
  <2>1. CASE UpdateSecStatus
    BY <2>1 DEF UpdateSecStatus, Go, Types, ram, place, call, Writing
  <2>2. CASE WriteBody
    BY <2>2 DEF WriteBody, Go, Types, ram, place, call, Writing
  <2>3. CASE Commit
    <3>1. Making /\ pc = "commit"
      BY <2>3 DEF Commit, Go, Making
    <3>2. FlashAddr(New) \in Addrs /\ New \in AllRecs
      BY <3>1, NewIn, AddrIn
    <3>3. NewKey \in Keys
      <4>1. job = "call" => op.key \in Keys
        BY <3>1, Kinds DEF Types, Control, Requested, Writing
      <4>2. job # "call" => At(cur) \in Records /\ At(cur).key # NoKey
        BY <3>1, Addresses DEF Pointers, Writing, Valid
      <4>3. job # "call" => At(cur).key \in Keys
        BY <4>2, SizeOf
      <4> QED
        BY <4>1, <4>3 DEF NewKey
    <3>4. cache' \in [Keys -> Addrs]
      BY <2>3, <3>2, <3>3, CacheIn DEF Commit, New, Types
    <3> QED
      BY <2>3, <3>4 DEF Commit, Go, Types, place, call, Replacing
  <2> QED
    BY <2>1, <2>2, <2>3
<1>5. Pointers'
  <2>1. job = "call" => old = Old
    BY DEF Old
  <2>2. job # "call" => cur = Old
    BY DEF Old
  <2>3. job = "call" /\ old # NoAddr => (At(old).key)' = op.key
    BY <1>0, <1>3, <2>1 DEF Pointers
  <2> HIDE DEF CInv
  <2>4. Pointers
    BY DEF CInv
  <2>5. pc' = "commit" => Making
    BY <1>0 DEF UpdateSecStatus, WriteBody, Commit, Go, Making
  <2>6. pc' = "finish" => Old = NoAddr
    BY DEF UpdateSecStatus, WriteBody, Commit, Go
  <2>7. job = "call" /\ op.kind = "default" => old = NoAddr
    BY <1>0, <2>4 DEF Pointers, CInv, Control, Returns, Writing
  <2>8. NoAddr \notin AllRecs
    BY Addresses DEF CInv
  <2> QED
    BY <1>0, <1>3, <2>1, <2>2, <2>3, <2>4, <2>5, <2>6, <2>7, <2>8
       DEF Pointers, Making, Writing, Replacing, Valid
<1>6. Flash'
  <2>1. Allocated' => Allocated
    BY <1>0 DEF Allocated, UpdateSecStatus, WriteBody, Commit, Go
  <2>2. Allocated => job = "call" \/ Valid(cur)
    BY <1>0 DEF Allocated, Pointers, Writing
  <2>3. Allocated' => target' \in Sectors /\ sec'[target'].magic /\ Remain(target)' > Size[NewVal']
    BY <1>0, <1>2, <1>3, <2>1, <2>2 DEF Flash
  <2>4. pc' = "preWrite" => target' \in InUse'
    BY <1>0, <1>1 DEF UpdateSecStatus, WriteBody, Commit, Go
  <2>5. ASSUME pc' = "commit"
        PROVE target' \in InUse' /\ sec'[target'].recs # <<>> /\ (At(New).key)' # NoKey
    <3>1. Making /\ pc = "body"
      BY <1>0, <2>5 DEF UpdateSecStatus, WriteBody, Commit, Go, Making
    <3>2. New \in AllRecs /\ sec[target].recs # <<>> /\ At(New).key # NoKey
      BY <3>1, NewIn DEF Flash
    <3>3. PICK n : n = New
      OBVIOUS
    <3>4. At(n)'.key # NoKey
      BY <1>2, <3>2, <3>3
    <3> QED
      BY <1>0, <1>1, <1>2, <1>3, <3>2, <3>3, <3>4 DEF At
  <2> QED
    BY <1>0, <1>2, <2>3, <2>4, <2>5 DEF Flash, Making
<1> QED
  BY <1>1, <1>2, <1>4, <1>5, <1>6 DEF Alike

(* The length of a sector's records.                                        *)
LEMMA LastLength ==
    ASSUME FlashOK, NEW s \in Sectors
    PROVE /\ sec[s].recs \in Seq(Records) /\ Len(sec[s].recs) \in Nat
          /\ DOMAIN sec[s].recs = 1..Len(sec[s].recs)
          /\ sec[s].recs # <<>> <=> Len(sec[s].recs) > 0
<1>1. sec[s].recs \in Seq(Records)
  BY DEF FlashOK, SectorStates
<1> HIDE DEF Records
<1> QED
  BY <1>1

(* PRE_WRITE appends a record of no size.                                   *)
LEMMA Begun ==
    ASSUME FlashOK, InSector, Flash, PreWrite, target \in InUse
    PROVE /\ FlashOK' /\ InUse' = InUse /\ InSector' /\ Others(target) /\ target \in Sectors
          /\ \A s \in Sectors : Remain(s)' = Remain(s)
          /\ \A s \in Sectors : sec'[s].magic = sec[s].magic /\ sec'[s].dirty = sec[s].dirty
          /\ \A a \in AllRecs : a \in AllRecs' /\ At(a)' = At(a) /\ a # New'
          /\ New' \in AllRecs' /\ New' = <<target, Len(sec[target].recs) + 1>>
          /\ \A a \in AllRecs' : a \in AllRecs \/ a = New'
          /\ sec'[target].recs # <<>>
          /\ At(New)' = Started(EndOf(sec[target].recs))
<1> DEFINE n == Len(sec[target].recs)
           r == Started(EndOf(sec[target].recs))
<1>1. target \in Sectors /\ target' = target
  BY DEF InUse, PreWrite, place
<1>2. EndOf(sec[target].recs) \in Nat /\ EndOf(sec[target].recs) <= Cap
  BY <1>1, EndIn
<1>3. r \in Records /\ r.start = EndOf(sec[target].recs) /\ RecSize(r) = 0
  BY <1>2 DEF Started, Records, RecSize, Statuses
<1>4. sec' = [sec EXCEPT ![target].recs = Append(@, r)]
  BY DEF PreWrite
<1>5. /\ FlashOK' /\ Others(target) /\ InUse' = InUse
      /\ sec'[target].recs = Append(sec[target].recs, r) /\ sec'[target].dirty = sec[target].dirty
      /\ sec'[target].magic = sec[target].magic
  <2> HIDE DEF r
  <2> QED
    BY <1>1, <1>3, <1>4, Appended
<1>6. /\ sec[target].recs \in Seq(Records) /\ n \in Nat /\ DOMAIN sec[target].recs = 1..n
      /\ sec[target].recs # <<>> <=> n > 0
  BY <1>1, LastLength
<1>7. /\ Len(sec'[target].recs) = n + 1 /\ DOMAIN sec'[target].recs = 1..(n + 1)
      /\ sec'[target].recs[n + 1] = r /\ sec'[target].recs # <<>>
      /\ \A i \in 1..n : sec'[target].recs[i] = sec[target].recs[i]
  <2> HIDE DEF Records, r
  <2> QED
    BY <1>3, <1>5, <1>6
<1>8. New' = <<target, n + 1>>
  BY <1>1, <1>7 DEF New, LastOf
<1>9. \A s \in Sectors : Remain(s)' = Remain(s)
  <2>1. ASSUME NEW s \in Sectors, s # target PROVE Remain(s)' = Remain(s)
    BY <1>5, <2>1 DEF Others, Remain, EndOf
  <2>2. EndOf(sec'[target].recs) = EndOf(sec[target].recs)
    BY <1>2, <1>3, <1>7 DEF EndOf
  <2>3. ASSUME NEW s \in Sectors, s = target PROVE Remain(s)' = Remain(s)
    BY <2>2, <2>3 DEF Remain
  <2> QED
    BY <2>1, <2>3
<1>10. InSector'
  <2>1. ASSUME NEW s \in Sectors, s # target, NEW i \in DOMAIN sec'[s].recs
        PROVE sec'[s].recs[i].start + RecSize(sec'[s].recs[i])
                <= IF i = Len(sec'[s].recs) THEN Cap ELSE sec'[s].recs[i + 1].start
    BY <1>5, <2>1 DEF InSector, Others
  <2>2. ASSUME NEW i \in 1..(n + 1)
        PROVE sec'[target].recs[i].start + RecSize(sec'[target].recs[i])
                <= IF i = n + 1 THEN Cap ELSE sec'[target].recs[i + 1].start
    <3>1. CASE i = n + 1
      BY <1>2, <1>3, <1>7, <3>1, Constants
    <3>2. CASE i = n
      <4>1. n > 0 /\ sec'[target].recs[i] = sec[target].recs[n] /\ n + 1 # n
        BY <1>6, <1>7, <3>2
      <4>2. EndOf(sec[target].recs) = sec[target].recs[n].start + RecSize(sec[target].recs[n])
        BY <1>6, <4>1 DEF EndOf
      <4>3. sec[target].recs[n].start \in Nat /\ RecSize(sec[target].recs[n]) \in Nat
        <5>1. sec[target].recs[n] \in Records
          BY <1>1, <1>6, <4>1, RecordIn
        <5> QED
          BY <5>1, SizeOf
      <4> QED
        BY <1>2, <1>3, <1>7, <3>2, <4>1, <4>2, <4>3
    <3>3. CASE i # n /\ i # n + 1
      <4>1. i \in 1..n /\ i + 1 \in 1..n /\ i # n
        BY <1>6, <3>3
      <4>2. sec[target].recs[i].start + RecSize(sec[target].recs[i])
              <= IF i = n THEN Cap ELSE sec[target].recs[i + 1].start
        BY <1>1, <1>6, <4>1 DEF InSector
      <4> QED
        BY <1>7, <3>3, <4>1, <4>2
    <3> QED
      BY <3>1, <3>2, <3>3
  <2> QED
    BY <1>1, <1>7, <2>1, <2>2 DEF InSector
<1>11. ASSUME NEW a \in AllRecs PROVE a \in AllRecs' /\ At(a)' = At(a) /\ a # New'
  <2>1. /\ a = <<a[1], a[2]>> /\ a[1] \in InUse /\ a[1] \in Sectors
        /\ a[2] \in DOMAIN sec[a[1]].recs
    BY Addresses
  <2>2. CASE a[1] = target
    <3>1. a[2] \in 1..n /\ a[2] # n + 1 /\ a[2] \in DOMAIN sec'[target].recs
      BY <1>6, <1>7, <2>1, <2>2
    <3>2. a \in AllRecs'
      BY <1>5, <2>1, <2>2, <3>1 DEF AllRecs
    <3>3. At(a)' = At(a)
      BY <1>7, <2>2, <3>1 DEF At
    <3>4. a # New'
      BY <1>8, <2>1, <3>1
    <3> QED
      BY <3>2, <3>3, <3>4
  <2>3. CASE a[1] # target
    BY <1>5, <1>8, <2>1, <2>3 DEF AllRecs, At, Others
  <2> QED
    BY <2>2, <2>3
<1>12. New' \in AllRecs'
  BY <1>1, <1>5, <1>6, <1>7, <1>8 DEF AllRecs
<1>13. ASSUME NEW a \in AllRecs' PROVE a \in AllRecs \/ a = New'
  <2>1. PICK s \in InUse : \E i \in DOMAIN sec'[s].recs : a = <<s, i>>
    BY <1>5 DEF AllRecs
  <2>2. PICK i \in DOMAIN sec'[s].recs : a = <<s, i>>
    BY <2>1
  <2>3. CASE s = target
    <3>1. i \in 1..n \/ i = n + 1
      BY <1>6, <1>7, <2>2, <2>3
    <3> QED
      BY <1>6, <1>8, <2>2, <2>3, <3>1 DEF AllRecs
  <2>4. CASE s # target
    BY <1>5, <2>1, <2>2, <2>4 DEF AllRecs, Others, InUse
  <2> QED
    BY <2>3, <2>4
<1>14. At(New)' = r
  BY <1>1, <1>7 DEF At, New, LastOf
<1>15. \A s \in Sectors : sec'[s].magic = sec[s].magic /\ sec'[s].dirty = sec[s].dirty
  BY <1>5 DEF Others
<1> QED
  BY <1>1, <1>5, <1>7, <1>8, <1>9, <1>10, <1>11, <1>12, <1>13, <1>14, <1>15

(* The header gives it key, value and length.                               *)
LEMMA Headed ==
    ASSUME FlashOK, InSector, Flash, WriteHeader, Making, target' = target,
           pc = "header", NewKey \in Keys, NewVal \in Vals
    PROVE /\ FlashOK' /\ InUse' = InUse /\ InSector' /\ Others(target) /\ AllRecs' = AllRecs
          /\ \A s \in Sectors : sec'[s].recs # <<>> <=> sec[s].recs # <<>>
          /\ \A s \in Sectors : sec'[s].magic = sec[s].magic /\ sec'[s].dirty = sec[s].dirty
          /\ New' = New
          /\ \A a \in AllRecs : At(a)' =
                IF a = New THEN [At(a) EXCEPT !.key = NewKey, !.val = NewVal] ELSE At(a)
<1> DEFINE n == Len(sec[target].recs)
           r == [At(New) EXCEPT !.key = NewKey, !.val = NewVal]
<1>1. /\ target \in InUse /\ target \in Sectors /\ sec[target].recs # <<>>
      /\ New \in AllRecs /\ New = <<target, n>>
      /\ At(New) = sec[target].recs[n] /\ At(New) \in Records /\ n \in DOMAIN sec[target].recs
  BY NewIn
<1>2. /\ r \in Records /\ r.start = At(New).start /\ RecSize(r) = Size[NewVal]
  <2> HIDE DEF NewKey, NewVal
  <2> QED
    BY <1>1, Constants DEF Records, RecSize
<1>3. sec' = [sec EXCEPT ![target].recs[n] = r]
  BY <1>1 DEF WriteHeader
<1>4. /\ FlashOK' /\ Others(target) /\ InUse' = InUse
      /\ Len(sec'[target].recs) = n /\ DOMAIN sec'[target].recs = DOMAIN sec[target].recs
      /\ \A i \in DOMAIN sec[target].recs :
            sec'[target].recs[i] = IF i = n THEN r ELSE sec[target].recs[i]
      /\ sec'[target].dirty = sec[target].dirty /\ sec'[target].magic = sec[target].magic
  <2> HIDE DEF r
  <2> QED
    BY <1>1, <1>2, <1>3, LastSet
<1>5. n \in Nat /\ DOMAIN sec[target].recs = 1..n
  BY <1>1, LastLength
<1>6. At(New).start + Size[NewVal] <= Cap
  <2>1. At(New).key = NoKey /\ At(New).st = "PRE_WRITE"
    BY DEF Flash
  <2>2. RecSize(At(New)) = 0
    BY <2>1 DEF RecSize
  <2>3. EndOf(sec[target].recs) = At(New).start
    <3>1. At(New).start \in Nat
      BY <1>1, SizeOf
    <3> QED
      BY <1>1, <2>2, <3>1 DEF EndOf
  <2>4. Remain(target) > Size[NewVal]
    BY DEF Flash, Allocated
  <2>5. At(New).start \in Nat /\ Size[NewVal] \in Nat
    BY <1>1, SizeOf, Constants
  <2> QED
    BY <2>3, <2>4, <2>5, Constants DEF Remain
<1>7. InSector'
  <2>1. ASSUME NEW s \in Sectors, s # target, NEW i \in DOMAIN sec'[s].recs
        PROVE sec'[s].recs[i].start + RecSize(sec'[s].recs[i])
                <= IF i = Len(sec'[s].recs) THEN Cap ELSE sec'[s].recs[i + 1].start
    BY <1>4, <2>1 DEF InSector, Others
  <2>2. ASSUME NEW i \in 1..n
        PROVE sec'[target].recs[i].start + RecSize(sec'[target].recs[i])
                <= IF i = n THEN Cap ELSE sec'[target].recs[i + 1].start
    <3>1. CASE i = n
      BY <1>1, <1>2, <1>4, <1>6, <3>1
    <3>2. CASE i # n
      <4>1. i + 1 \in 1..n
        BY <1>5, <3>2
      <4>2. sec[target].recs[i].start + RecSize(sec[target].recs[i])
               <= sec[target].recs[i + 1].start
        BY <1>1, <1>5, <3>2 DEF InSector
      <4>3. sec'[target].recs[i + 1].start = sec[target].recs[i + 1].start
        BY <1>1, <1>2, <1>4, <1>5, <4>1
      <4> QED
        BY <1>4, <1>5, <3>2, <4>2, <4>3
    <3> QED
      BY <3>1, <3>2
  <2> QED
    BY <1>1, <1>4, <1>5, <2>1, <2>2 DEF InSector
<1>8. \A s \in Sectors : DOMAIN sec'[s].recs = DOMAIN sec[s].recs
  BY <1>4 DEF Others
<1>9. AllRecs' = AllRecs
  BY <1>4, <1>8 DEF AllRecs, InUse
<1>10. New' = New
  BY <1>4 DEF New, LastOf
<1>11. ASSUME NEW a \in AllRecs PROVE At(a)' = IF a = New THEN r ELSE At(a)
  <2>1. /\ a = <<a[1], a[2]>> /\ a[1] \in InUse /\ a[1] \in Sectors
        /\ a[2] \in DOMAIN sec[a[1]].recs
    BY Addresses
  <2>2. CASE a[1] = target
    BY <1>1, <1>4, <1>5, <2>1, <2>2 DEF At
  <2>3. CASE a[1] # target
    BY <1>1, <1>4, <2>1, <2>3 DEF At, Others
  <2> QED
    BY <2>2, <2>3
<1>12. \A s \in Sectors : sec'[s].recs # <<>> <=> sec[s].recs # <<>>
  <2>1. \A s \in Sectors : s # target => sec'[s].recs = sec[s].recs
    BY <1>4 DEF Others
  <2>2. sec'[target].recs # <<>>
    BY <1>1, <1>4, <1>5
  <2> QED
    BY <1>1, <2>1, <2>2
<1>13. \A s \in Sectors : sec'[s].magic = sec[s].magic /\ sec'[s].dirty = sec[s].dirty
  BY <1>4 DEF Others
<1> QED
  BY <1>4, <1>7, <1>9, <1>10, <1>11, <1>12, <1>13

(* The new record's key and value exist.                                    *)
LEMMA NewKeyIn ==
    ASSUME CInv, \/ pc \in Writing
                 \/ pc = "alloc" 
                 \/ Allocated
                 \/ pc \in {"preDelete", "preDirty"}
    PROVE NewKey \in Keys /\ NewVal \in Vals
<1> USE DEF CInv, TypeOK
<1>1. CASE job = "call"
  <2>1. op.kind \in {"set", "default"}
    BY <1>1 DEF Control, Requested, Allocated, Writing, Replacing
  <2>2. op.key \in Keys /\ op.val \in Vals
    BY <2>1, Kinds DEF Types
  <2> QED
    BY <1>1, <2>2 DEF NewKey, NewVal
<1>2. CASE job # "call"
  <2>1. Valid(cur)
    BY <1>2 DEF Pointers, Allocated, Writing, Replacing, Old
  <2>2. At(cur) \in Records /\ At(cur).key # NoKey
    BY <2>1, Addresses DEF Valid
  <2>3. At(cur).key \in Keys /\ At(cur).val \in Vals
    BY <2>2, SizeOf
  <2> QED
    BY <1>2, <2>3 DEF NewKey, NewVal
<1> QED
  BY <1>1, <1>2

(* Its first write,                                                         *)
LEMMA PlacedPreWrite ==
    ASSUME CInv, PreWrite
    PROVE Placed'
<1> USE DEF CInv, Placed, TypeOK
<1>0. /\ UNCHANGED <<target, old, cur, op, job, gcRet>> /\ pc = "preWrite" /\ pc' = "header"
      /\ target \in InUse
  BY DEF PreWrite, Go, Flash, place, call
<1>1. /\ FlashOK' /\ InUse' = InUse /\ InSector' /\ Others(target) /\ target \in Sectors
      /\ \A s \in Sectors : Remain(s)' = Remain(s)
      /\ \A s \in Sectors : sec'[s].magic = sec[s].magic
      /\ \A a \in AllRecs : a \in AllRecs' /\ At(a)' = At(a) /\ a # New'
      /\ sec'[target].recs # <<>>
      /\ At(New)' = Started(EndOf(sec[target].recs))
  BY <1>0, Begun
<1>2. ASSUME NEW a, Valid(a) PROVE Valid(a)' /\ At(a)' = At(a) /\ a # New'
  BY <1>1, <1>2 DEF Valid
<1>3. Old' = Old
  BY <1>0 DEF Old
<1>4. Valid(Old) => Valid(Old)' /\ (At(Old))' = At(Old) /\ Old' # New'
  <2>1. PICK o : o = Old
    OBVIOUS
  <2>2. ASSUME Valid(o) PROVE Valid(o)' /\ At(o)' = At(o) /\ o # New'
    BY <1>2, <2>2
  <2> QED
    BY <1>3, <2>1, <2>2 DEF Valid, At
<1>5. Valid(cur) => Valid(cur)' /\ (At(cur))' = At(cur)
  <2>1. PICK o : o = cur
    OBVIOUS
  <2>2. ASSUME Valid(o) PROVE Valid(o)' /\ At(o)' = At(o)
    BY <1>2, <2>2
  <2> QED
    BY <1>0, <2>1, <2>2 DEF Valid, At
<1>6. Types'
  BY <1>0 DEF PreWrite, Types, ram, place, call, Writing
<1>7. Pointers'
  <2>1. job = "call" => old = Old /\ (Valid(Old) => (At(old))' = At(Old))
    BY <1>0, <1>3, <1>4 DEF Old, At, Pointers, Writing
  <2>2. job # "call" => cur = Old
    BY DEF Old
  <2>3. NoAddr # New'
    <3>1. target # 0
      BY <1>1, Constants DEF Sectors
    <3> QED
      BY <1>0, <3>1 DEF New, LastOf, NoAddr
  <2> HIDE DEF CInv
  <2>4. Pointers
    BY DEF CInv
  <2> QED
    BY <1>0, <1>3, <1>4, <1>5, <2>1, <2>2, <2>3, <2>4 DEF Pointers, Writing, Replacing, Making
<1>8. Flash'
  <2>1. NewVal' = NewVal
    <3>1. job # "call" => Valid(cur)
      BY <1>0 DEF Pointers, Writing
    <3> QED
      BY <1>0, <1>5, <3>1 DEF NewVal
  <2>2. Remain(target)' = Remain(target)
    <3>1. PICK t : t = target
      OBVIOUS
    <3>2. Remain(t)' = Remain(t)
      BY <1>1, <3>1
    <3> QED
      BY <1>0, <3>1, <3>2 DEF Remain
  <2>3. \A s \in Sectors : sec'[s].recs # <<>> => s \in InUse'
    BY <1>0, <1>1 DEF Flash, Others
  <2>4. (At(New))'.key = NoKey /\ (At(New))'.st = "PRE_WRITE"
    BY <1>1 DEF Started
  <2> QED
    BY <1>0, <1>1, <2>1, <2>2, <2>3, <2>4 DEF Flash, Making, Allocated
<1> QED
  BY <1>1, <1>6, <1>7, <1>8

(* and its second.                                                          *)
LEMMA PlacedHeader ==
    ASSUME CInv, WriteHeader
    PROVE Placed'
<1> USE DEF CInv, Placed, TypeOK
<1>0. /\ UNCHANGED <<target, old, cur, op, job, gcRet>> /\ pc = "header" /\ pc' = "body"
      /\ Making
  BY DEF WriteHeader, Go, place, call, Making
<1>1. NewKey \in Keys /\ NewVal \in Vals
  BY <1>0, NewKeyIn DEF Writing
<1>2. /\ FlashOK' /\ InUse' = InUse /\ InSector' /\ AllRecs' = AllRecs
      /\ \A s \in Sectors : sec'[s].recs # <<>> <=> sec[s].recs # <<>>
      /\ New' = New
      /\ \A a \in AllRecs : At(a)' =
            IF a = New THEN [At(a) EXCEPT !.key = NewKey, !.val = NewVal] ELSE At(a)
  BY <1>0, <1>1, Headed
<1>3. /\ target \in InUse /\ target \in Sectors /\ sec[target].recs # <<>>
      /\ New \in AllRecs /\ At(New) \in Records
  BY <1>0, NewIn
<1>4. (At(New))'.key = NewKey
  <2>1. PICK n : n = New
    OBVIOUS
  <2>2. At(n)'.key = NewKey
    BY <1>2, <1>3, <2>1 DEF Records
  <2> QED
    BY <1>2, <2>1, <2>2 DEF At
<1>5. Old # New /\ Old' = Old
  BY <1>0 DEF Pointers, Old
<1>6. Valid(Old) => Valid(Old)' /\ (At(Old))' = At(Old)
  <2>1. PICK o : o = Old
    OBVIOUS
  <2>2. ASSUME Valid(o) PROVE Valid(o)' /\ At(o)' = At(o)
    BY <1>2, <1>5, <2>1, <2>2 DEF Valid
  <2> QED
    BY <1>5, <2>1, <2>2 DEF Valid, At
<1>7. job # "call" => cur = Old /\ (Valid(cur) => Valid(cur)')
  <2>1. job # "call" => cur = Old /\ cur' = Old'
    BY <1>0 DEF Old
  <2> QED
    BY <1>6, <2>1 DEF Valid, At
<1>8. Types'
  BY <1>0 DEF WriteHeader, Types, ram, place, call, Writing
<1>9. Pointers'
  <2>1. job = "call" => old = Old /\ (Valid(Old) => (At(old))' = At(Old))
    BY <1>0, <1>5, <1>6 DEF Old, At
  <2> HIDE DEF CInv
  <2>2. Pointers
    BY DEF CInv
  <2> QED
    BY <1>0, <1>2, <1>5, <1>6, <1>7, <2>1, <2>2 DEF Pointers, Writing, Replacing, Making
<1>10. Flash'
  <2>1. \A s \in Sectors : sec'[s].recs # <<>> => s \in InUse'
    BY <1>2 DEF Flash
  <2> QED
    BY <1>0, <1>1, <1>2, <1>3, <1>4, <2>1, Constants DEF Flash, Making, Allocated
<1> QED
  BY <1>2, <1>8, <1>9, <1>10

(* Collection up to the erase.                                              *)
LEMMA PlacedMoves ==
    ASSUME CInv, MoveAlloc \/ GcCollect \/ GcPick \/ GcNext \/ GcDone
    PROVE Placed'
<1> USE DEF CInv, Placed, TypeOK
<1>1. CASE MoveAlloc
  <2>0. FlashOK' /\ InSector' /\ sec' = sec
    BY <1>1, SecKept DEF MoveAlloc
  <2>1. /\ target' = Alloc(Size[NewVal]) /\ target' \in 0..NS
        /\ target' # 0 => /\ target' \in Sectors /\ sec[target'].magic
                          /\ Remain(target') > Size[NewVal]
    BY <1>1, AllocIn DEF MoveAlloc
  <2>2. Types'
    BY <1>1, <2>1 DEF MoveAlloc, Types, Writing, Replacing, Loading, Collecting, call
  <2>3. Valid(cur)
    BY <1>1 DEF MoveAlloc, Pointers
  <2>4. Pointers'
    BY <1>1, <2>0, <2>3
       DEF MoveAlloc, Pointers, Writing, Replacing, Making, Old, Valid, At, AllRecs, InUse, call
  <2>5. Flash'
    BY <1>1, <2>0, <2>1
       DEF MoveAlloc, Flash, Making, Allocated, Writing, InUse, NewVal, At, Remain
  <2> QED
    BY <2>0, <2>2, <2>4, <2>5
<1>2. CASE GcCollect
  <2>0. FlashOK' /\ InSector' /\ sec' = sec
    BY <1>2, SecKept DEF GcCollect
  <2>1. Types'
    BY <1>2 DEF GcCollect, Go, Types, ram, place, call, Collecting
  <2>2. Pointers'
    BY <1>2, <2>0 DEF GcCollect, Go, Pointers, Writing, Replacing, Making, place, call
  <2>3. Flash'
    BY <1>2, <2>0 DEF GcCollect, Go, Flash, Making, Allocated, InUse
  <2> QED
    BY <2>0, <2>1, <2>2, <2>3
<1>3. CASE GcPick
  <2>1. CASE Garbage = {}
    <3>0. FlashOK' /\ InSector' /\ sec' = sec
      BY <1>3, <2>1, SecKept DEF GcPick
    <3>1. Types'
      BY <1>3, <2>1 DEF GcPick, Types, ram, call, Collecting
    <3>2. Pointers'
      BY <1>3, <2>1, <3>0 DEF GcPick, Pointers, Writing, Replacing, Making, call, Collecting
    <3>3. Flash'
      BY <1>3, <2>1, <3>0 DEF GcPick, Flash, Making, Allocated, InUse
    <3> QED
      BY <3>0, <3>1, <3>2, <3>3
  <2>2. CASE Garbage # {}
    <3>1. PICK s \in Sectors : s = Min(Garbage)
      BY <2>2, MinIn DEF Garbage
    <3>2. sec' = [sec EXCEPT ![s].dirty = "GC"] /\ cur' = <<s, 0>> /\ pc' = "gcNext"
      BY <1>3, <2>2, <3>1 DEF GcPick
    <3>3. Alike
      BY <3>2, DirtySet, AlikeUntouched
    <3>4. InSector' /\ \A t \in Sectors : sec'[t].recs # <<>> => t \in InUse'
      BY <3>3, AlikeKeeps
    <3>5. s \in 0..NS /\ cur' \in Addrs
      BY <3>2, Constants DEF Sectors, Addrs
    <3>6. Types'
      BY <1>3, <3>2, <3>5 DEF GcPick, Types, ram, call, Collecting
    <3>7. Pointers'
      BY <1>3, <3>2 DEF GcPick, Pointers, Writing, Replacing, Making, call, Collecting
    <3>8. Flash'
      BY <3>2, <3>4 DEF Flash, Making, Allocated
    <3> QED
      BY <3>3, <3>4, <3>6, <3>7, <3>8 DEF Alike
  <2> QED
    BY <2>1, <2>2
<1>4. CASE GcNext
  <2>0. FlashOK' /\ InSector' /\ sec' = sec
    BY <1>4, SecKept DEF GcNext
  <2>1. job = "gc" /\ cur[1] \in Sectors
    BY <1>4 DEF GcNext, Control, Jobs, Collecting, Pointers
  <2>2. CASE ToMove(cur[1]) = {}
    <3>1. Types'
      BY <1>4, <2>2 DEF GcNext, Types, ram, call
    <3>2. Pointers'
      BY <1>4, <2>0, <2>1, <2>2 DEF GcNext, Pointers, Writing, Replacing, Making, call
    <3>3. Flash'
      BY <1>4, <2>0, <2>2 DEF GcNext, Flash, Making, Allocated, InUse
    <3> QED
      BY <2>0, <3>1, <3>2, <3>3
  <2>3. CASE ToMove(cur[1]) # {}
    <3>1. PICK a \in ToMove(cur[1]) : a = First(ToMove(cur[1]))
      <4>1. ToMove(cur[1]) \subseteq AllRecs
        BY DEF ToMove
      <4> QED
        BY <2>3, <4>1, FirstIn
    <3>2. cur' = a /\ pc' \in {"preDelete", "alloc"}
      BY <1>4, <2>3, <3>1 DEF GcNext
    <3>3. a \in AllRecs /\ a[1] = cur[1] /\ At(a).crcOk
      BY DEF ToMove
    <3>4. a \in Addrs /\ Valid(a)
      <4>1. At(a) \in Records
        BY <3>3, Addresses
      <4> QED
        BY <3>3, <4>1, AddrIn, SizeOf DEF Valid
    <3>5. Types'
      BY <1>4, <3>2, <3>4 DEF GcNext, Types, ram, call, Replacing
    <3>6. Valid(cur)'
      BY <2>0, <3>2, <3>4 DEF Valid, At, AllRecs, InUse
    <3>7. Old' = cur' /\ job' = "gc"
      BY <1>4, <2>1 DEF GcNext, Old
    <3>8. Pointers'
      BY <1>4, <2>1, <3>2, <3>3, <3>6, <3>7
         DEF GcNext, Pointers, Writing, Replacing, Making, call, Valid, At
    <3>9. Flash'
      BY <2>0, <3>2, <3>7 DEF Flash, Making, Allocated, InUse
    <3> QED
      BY <2>0, <3>5, <3>8, <3>9
  <2> QED
    BY <2>2, <2>3
<1>5. CASE GcDone
  <2>0. FlashOK' /\ InSector' /\ sec' = sec
    BY <1>5, SecKept DEF GcDone
  <2>1. gcRet \in {"alloc", "return", "recNext"}
    BY <1>5 DEF GcDone, Go, Control, Jobs, Returns, Types, Collecting
  <2>2. Types'
    BY <1>5, <2>1, Nowhere DEF GcDone, Go, Types, call, Loading
  <2>3. Pointers'
    BY <1>5, <2>0, <2>1 DEF GcDone, Go, Pointers, Writing, Replacing, Making, call, Control, Jobs,
       Collecting
  <2>4. Flash'
    BY <1>5, <2>0, <2>1 DEF GcDone, Go, Flash, Making, Allocated, InUse
  <2> QED
    BY <2>0, <2>2, <2>3, <2>4
<1> QED
  BY <1>1, <1>2, <1>3, <1>4, <1>5

(* A sector is erased or formatted: nothing is in it.                       *)
LEMMA SectorEmptied ==
    ASSUME FlashOK, InSector, Flash, NEW s \in Sectors, NEW x \in {Blank, Formatted},
           sec' = [sec EXCEPT ![s] = x]
    PROVE /\ FlashOK' /\ InSector' /\ Others(s) /\ sec'[s] = x /\ x.recs = <<>>
          /\ \A t \in Sectors : sec'[t].recs # <<>> => t \in InUse'
          /\ InUse' = InUse \ {s} /\ AllRecs' = {a \in AllRecs : a[1] # s}
          /\ \A a \in AllRecs' : At(a)' = At(a)
<1>1. x \in SectorStates /\ x.recs = <<>> /\ (x.magic => x.store = "EMPTY")
  BY Emptied
<1>2. FlashOK' /\ Others(s) /\ sec'[s] = x
  BY <1>1, SectorSet
<1>3. InSector'
  BY <1>1, <1>2 DEF InSector, Others
<1>4. InUse' = InUse \ {s}
  BY <1>1, <1>2 DEF InUse, Others
<1>5. \A t \in Sectors : sec'[t].recs # <<>> => t \in InUse'
  BY <1>1, <1>2, <1>4 DEF Others, Flash
<1>6. AllRecs' = {a \in AllRecs : a[1] # s}
  <2>1. \A a \in AllRecs' : a \in AllRecs /\ a[1] # s
    BY <1>2, <1>4 DEF AllRecs, Others, InUse
  <2>2. \A a \in AllRecs : a[1] # s => a \in AllRecs'
    BY <1>2, <1>4 DEF AllRecs, Others, InUse
  <2> QED
    BY <2>1, <2>2
<1>7. ASSUME NEW a \in AllRecs' PROVE At(a)' = At(a)
  <2>1. a \in AllRecs /\ a[1] # s
    BY <1>6
  <2> QED
    BY <1>2, <2>1, Addresses DEF At, Others
<1> QED
  BY <1>1, <1>2, <1>3, <1>4, <1>5, <1>6, <1>7

(* Erasing and formatting.                                                  *)
LEMMA PlacedErases ==
    ASSUME CInv, Erase \/ Format
    PROVE Placed'
<1> USE DEF CInv, Placed, TypeOK
<1>0. /\ UNCHANGED <<target, old, cur, op, job, gcRet>> /\ cur[1] \in Sectors
      /\ pc \in {"erase", "format"} /\ (job = "gc" \/ job = "call")
      /\ \/ pc' = "format"
         \/ pc' = "gcPick" /\ job = "gc"
         \/ pc' = "alloc" /\ job = "call"
         \/ pc' = "wipe" /\ job = "call" /\ cur[1] # NS
  BY DEF Erase, Format, FormatNext, Go, place, call, Pointers, Control, Jobs, Types
<1>1. FlashOK' /\ InSector' /\ \A t \in Sectors : sec'[t].recs # <<>> => t \in InUse'
  <2>1. PICK s \in Sectors : s = cur[1]
    BY <1>0
  <2>2. PICK x \in {Blank, Formatted} : sec' = [sec EXCEPT ![s] = x]
    BY <2>1 DEF Erase, Format
  <2> QED
    BY <2>2, SectorEmptied
<1>2. Types'
  BY <1>0 DEF Erase, Format, Types, ram, place, call, Collecting
<1>3. Pointers'
  <2>1. pc' = "wipe" => cur[1] \in 0..(NS - 1)
    BY <1>0, Constants DEF Sectors
  <2> QED
    BY <1>0, <2>1 DEF Pointers, Writing, Replacing, Making
<1>4. Flash'
  BY <1>0, <1>1 DEF Flash, Making, Allocated
<1> QED
  BY <1>1, <1>2, <1>3, <1>4

(* Start-up and recovery.                                                   *)
LEMMA PlacedBoot ==
    ASSUME CInv, BootStep
    PROVE Placed'
<1> USE DEF CInv, Placed, TypeOK
<1>1. CASE Wipe
  <2>0. FlashOK' /\ InSector' /\ sec' = sec
    BY <1>1, SecKept DEF Wipe
  <2>1. cur[1] \in 0..(NS - 1) /\ job = "call"
    BY <1>1 DEF Wipe, Go, Pointers, Control, Jobs
  <2>2. cur'[1] \in Sectors /\ cur' \in Addrs
    BY <1>1, <2>1, Constants DEF Wipe, Sectors, Addrs
  <2>3. Types'
    BY <1>1, <2>2 DEF Wipe, Go, Types, ram, call
  <2>4. Pointers'
    BY <1>1, <2>0, <2>1, <2>2 DEF Wipe, Go, Pointers, Writing, Replacing, Making, call
  <2>5. Flash'
    BY <1>1, <2>0 DEF Wipe, Go, Flash, Making, Allocated, InUse
  <2> QED
    BY <2>0, <2>3, <2>4, <2>5
<1>2. CASE CheckHdr
  <2> DEFINE bad == {s \in Sectors : ~sec[s].magic}
  <2>1. UNCHANGED <<ram, place, booting, tried, gcRet, crashes, stopped, job, isFull>>
        /\ pc = "checkHdr"
        /\ job = "call"
    BY <1>2 DEF CheckHdr, Control, Jobs
  <2>2. CASE bad # {}
    <3>1. PICK s \in Sectors : s = Min(bad)
      BY <2>2, MinIn
    <3>2. sec' = [sec EXCEPT ![s] = Formatted] /\ failed' = failed + 1 /\ pc' = pc /\ op' = op
      BY <1>2, <2>2, <3>1 DEF CheckHdr
    <3>3. FlashOK' /\ InSector' /\ \A t \in Sectors : sec'[t].recs # <<>> => t \in InUse'
      BY <3>2, SectorEmptied
    <3>4. Types'
      BY <2>1, <3>2 DEF Types, ram, place
    <3>5. Pointers'
      BY <2>1, <3>2 DEF Pointers, place, Writing, Replacing, Making
    <3>6. Flash'
      BY <2>1, <3>2, <3>3 DEF Flash, Making, Allocated
    <3> QED
      BY <3>3, <3>4, <3>5, <3>6
  <2>3. CASE bad = {}
    <3>1. /\ sec' = sec /\ failed' = failed /\ op' \in {Map!SetDefault, NoReq}
          /\ pc' \in {"wipe", "recGc"}
      BY <1>2, <2>3 DEF CheckHdr
    <3>2. FlashOK' /\ InSector'
      BY <3>1, SecKept
    <3>3. Types'
      BY <2>1, <3>1 DEF Types, ram, place, Map!Requests, Loading
    <3>4. Pointers'
      <4>1. cur = NoAddr /\ NoAddr[1] = 0 /\ 0 \in 0..(NS - 1)
        BY <2>1, Constants DEF Pointers, NoAddr
      <4>2. old # NoAddr => gcRet = "return"
        BY <2>1 DEF Pointers, Writing, Replacing
      <4> QED
        BY <2>1, <3>1, <4>1, <4>2 DEF Pointers, place, Writing, Replacing, Making
    <3>5. Flash'
      BY <2>1, <3>1 DEF Flash, Making, Allocated, InUse
    <3> QED
      BY <3>2, <3>3, <3>4, <3>5
  <2> QED
    BY <2>2, <2>3
<1>3. CASE RecoverGc
  <2>0. FlashOK' /\ InSector' /\ sec' = sec
    BY <1>3, SecKept DEF RecoverGc
  <2>1. Types'
    BY <1>3 DEF RecoverGc, Go, Types, place, Loading
  <2>2. Pointers'
    BY <1>3, <2>0
       DEF RecoverGc, Go, Pointers, Writing, Replacing, Making, place, Control, Returns, Jobs
  <2>3. Flash'
    BY <1>3, <2>0 DEF RecoverGc, Go, Flash, Making, Allocated, InUse
  <2> QED
    BY <2>0, <2>1, <2>2, <2>3
<1>4. CASE RecoverNext
  <2> DEFINE todo == {a \in AllRecs : Unfinished(a) /\ Before(cur, a)}
  <2>1. /\ pc = "recNext" /\ job' = "recover" /\ pc' \in {"recEnd", "alloc"}
        /\ UNCHANGED <<ram, target, old, booting, op, tried, gcRet, failed, crashes, isFull>>
        /\ stopped' \in BOOLEAN
    BY <1>4 DEF RecoverNext, Types
  <2>2. PICK a : a = First(todo)
    OBVIOUS
  <2>3. todo # {} => a \in AllRecs /\ Valid(a) /\ a \in Addrs
    <3>1. todo # {} => a \in AllRecs /\ Unfinished(a)
      BY <2>2, FirstIn
    <3>2. todo # {} => At(a) \in Records
      BY <3>1, Addresses
    <3> QED
      BY <3>1, <3>2, AddrIn, SizeOf DEF Unfinished, PreDeleted, Valid
  <2>4. \/ sec' = sec /\ pc' = "recEnd" /\ cur' = cur
        \/ sec' = sec /\ pc' = "alloc" /\ cur' = a /\ Valid(a) /\ a \in Addrs
        \/ SetStatus(a, "ERR_HDR") /\ Valid(a) /\ pc' = "recEnd" /\ cur' = cur
    BY <1>4, <2>2, <2>3 DEF RecoverNext
  <2>5. Types'
    BY <2>1, <2>4 DEF Types, ram, Loading
  <2>6. /\ FlashOK' /\ InSector'
        /\ \A t \in Sectors : sec'[t].recs # <<>> => t \in InUse'
    <3>1. CASE sec' = sec
      BY <3>1, SecKept DEF Flash, InUse
    <3>2. CASE SetStatus(a, "ERR_HDR") /\ Valid(a)
      BY <3>2, AlikeStatus, AlikeKeeps DEF Statuses, Alike
    <3> QED
      BY <2>4, <3>1, <3>2
  <2>7. old = NoAddr
    BY <2>1 DEF Pointers, Control, Returns, Writing, Replacing
  <2>8. Pointers'
    BY <2>1, <2>4, <2>7 DEF Pointers, Writing, Replacing, Making, Valid, At, AllRecs, InUse
  <2>9. Flash'
    BY <2>1, <2>6 DEF Flash, Making, Allocated
  <2> QED
    BY <2>5, <2>6, <2>8, <2>9
<1>5. CASE RecoverEnd
  <2>0. FlashOK' /\ InSector' /\ sec' = sec
    BY <1>5, SecKept DEF RecoverEnd
  <2>1. Types'
    BY <1>5, Nowhere DEF RecoverEnd, Go, Types, ram
  <2>2. Pointers'
    BY <1>5, <2>0 DEF RecoverEnd, Go, Pointers, Writing, Replacing, Making, Control, Returns, Jobs
  <2>3. Flash'
    BY <1>5, <2>0 DEF RecoverEnd, Go, Flash, Making, Allocated, InUse
  <2> QED
    BY <2>0, <2>1, <2>2, <2>3
<1> QED
  BY <1>1, <1>2, <1>3, <1>4, <1>5 DEF BootStep

(* A power failure leaves a torn header, or the first place of a sector     *)
(* skipped; both take one unit of room that is there.                       *)
LEMMA TornIn ==
    ASSUME NEW r \in Records, r.key = NoKey
    PROVE Torn(r) \in Records /\ Torn(r).start = r.start /\ RecSize(Torn(r)) = 1
<1>1. /\ Torn(r) \in Records /\ Torn(r).start = r.start /\ Torn(r).key = r.key
      /\ Torn(r).st = "ERR_HDR"
  BY Statused DEF Torn, Statuses
<1> QED
  BY <1>1 DEF RecSize, HdrSize

TornFlash == [sec EXCEPT ![target].recs[Len(sec[target].recs)] = Torn(@)]

LEMMA CrashTears ==
    ASSUME FlashOK, InSector, Flash, pc = "header", NewVal \in Vals, NEW f, f = TornFlash
    PROVE /\ f \in [Sectors -> SectorStates]
          /\ \A s \in Sectors :
                /\ f[s].magic = sec[s].magic /\ f[s].store = sec[s].store
                /\ f[s].recs # <<>> <=> sec[s].recs # <<>>
                /\ \A i \in DOMAIN f[s].recs : f[s].recs[i].start + RecSize(f[s].recs[i])
                      <= IF i = Len(f[s].recs) THEN Cap ELSE f[s].recs[i + 1].start
<1> DEFINE n == Len(sec[target].recs)
<1>1. /\ target \in InUse /\ target \in Sectors /\ sec[target].recs # <<>>
      /\ New \in AllRecs /\ At(New) = sec[target].recs[n] /\ At(New) \in Records
      /\ n \in DOMAIN sec[target].recs
  BY NewIn DEF Making
<1>2. PICK r : r = Torn(At(New))
  OBVIOUS
<1>3. r \in Records /\ r.start = At(New).start /\ RecSize(r) = 1
  BY <1>1, <1>2, TornIn DEF Flash
<1>4. PICK recs : recs = [sec[target].recs EXCEPT ![n] = r]
  OBVIOUS
<1>5. sec[target].recs \in Seq(Records) /\ n \in Nat /\ DOMAIN sec[target].recs = 1..n
  BY <1>1, LastLength
<1>6. /\ recs \in Seq(Records) /\ Len(recs) = n /\ DOMAIN recs = 1..n /\ recs # <<>>
      /\ \A i \in 1..n : recs[i] = IF i = n THEN r ELSE sec[target].recs[i]
  <2> HIDE DEF Records
  <2> QED
    BY <1>1, <1>3, <1>4, <1>5
<1>7. PICK x : x = [sec[target] EXCEPT !.recs = recs]
  OBVIOUS
<1>8. /\ x \in SectorStates /\ x.recs = recs /\ x.magic = sec[target].magic
      /\ x.store = sec[target].store
  <2>1. sec[target] \in SectorStates
    BY <1>1 DEF FlashOK
  <2> HIDE DEF Records
  <2> QED
    BY <1>6, <1>7, <2>1 DEF SectorStates
<1>9. f = [sec EXCEPT ![target] = x]
  BY <1>1, <1>2, <1>4, <1>7 DEF TornFlash
<1>10. /\ f \in [Sectors -> SectorStates] /\ f[target] = x
       /\ \A s \in Sectors : s # target => f[s] = sec[s]
  <2> HIDE DEF SectorStates
  <2> QED
    BY <1>1, <1>8, <1>9 DEF FlashOK
<1>11. At(New).start \in Nat /\ At(New).start + 1 <= Cap
  <2>1. EndOf(sec[target].recs) = At(New).start + RecSize(At(New))
    BY <1>1 DEF EndOf
  <2>2. At(New).start \in Nat /\ RecSize(At(New)) \in Nat
    BY <1>1, SizeOf
  <2>3. Remain(target) > Size[NewVal] /\ Size[NewVal] \in Nat /\ Size[NewVal] >= 1
    BY Constants DEF Flash, Allocated
  <2> QED
    BY <2>1, <2>2, <2>3, Constants DEF Remain
<1>12. ASSUME NEW i \in 1..n
       PROVE recs[i].start + RecSize(recs[i]) <= IF i = n THEN Cap ELSE recs[i + 1].start
  <2>1. CASE i = n
    BY <1>3, <1>6, <1>11, <2>1
  <2>2. CASE i # n
    <3>1. i + 1 \in 1..n
      BY <1>5, <2>2
    <3>2. sec[target].recs[i].start + RecSize(sec[target].recs[i]) <= sec[target].recs[i + 1].start
      BY <1>1, <1>5, <2>2 DEF InSector
    <3>3. recs[i + 1].start = sec[target].recs[i + 1].start
      BY <1>1, <1>3, <1>6, <3>1
    <3> QED
      BY <1>6, <2>2, <3>2, <3>3
  <2> QED
    BY <2>1, <2>2
<1>13. ASSUME NEW s \in Sectors
       PROVE /\ f[s].magic = sec[s].magic /\ f[s].store = sec[s].store
             /\ f[s].recs # <<>> <=> sec[s].recs # <<>>
             /\ \A i \in DOMAIN f[s].recs : f[s].recs[i].start + RecSize(f[s].recs[i])
                   <= IF i = Len(f[s].recs) THEN Cap ELSE f[s].recs[i + 1].start
  <2>1. CASE s = target
    <3>1. f[s] = x /\ x.recs = recs /\ Len(recs) = n /\ DOMAIN recs = 1..n
      BY <1>6, <1>8, <1>10, <2>1
    <3>2. \A i \in DOMAIN f[s].recs : f[s].recs[i].start + RecSize(f[s].recs[i])
             <= IF i = Len(f[s].recs) THEN Cap ELSE f[s].recs[i + 1].start
      BY <1>12, <3>1
    <3> QED
      BY <1>1, <1>6, <1>8, <2>1, <3>1, <3>2
  <2>2. CASE s # target
    BY <1>10, <2>2 DEF InSector
  <2> QED
    BY <2>1, <2>2
<1> QED
  BY <1>10, <1>13

(* Boot, too, marks records only where there is room.                       *)
LEMMA Rereads ==
    ASSUME NEW f \in [Sectors -> SectorStates],
           \A s \in Sectors : f[s].recs # <<>> => f[s].magic /\ f[s].store \in {"USING", "FULL"},
           \A s \in Sectors : \A i \in DOMAIN f[s].recs : f[s].recs[i].start + RecSize(f[s].recs[i])
                      <= IF i = Len(f[s].recs) THEN Cap ELSE f[s].recs[i + 1].start,
           sec' = Reread(f)
    PROVE FlashOK' /\ InSector' /\ \A s \in Sectors : sec'[s].recs # <<>> => s \in InUse'
<1>1. PICK r : r = Torn(Started(0))
  OBVIOUS
<1>2. r \in Records /\ r.start = 0 /\ RecSize(r) = 1
  <2>1. Started(0) \in Records /\ Started(0).key = NoKey /\ Started(0).start = 0
    BY DEF Started, Records, Statuses
  <2> QED
    BY <1>1, <2>1, TornIn
<1>3. <<r>> \in Seq(Records) /\ Len(<<r>>) = 1 /\ <<r>>[1] = r /\ DOMAIN <<r>> = 1..1
  <2> HIDE DEF Records
  <2> QED
    BY <1>2
<1>4. ASSUME NEW s \in Sectors
      PROVE /\ sec'[s] \in SectorStates /\ sec'[s].magic = f[s].magic
            /\ sec'[s].store = f[s].store
            /\ \/ sec'[s].recs = f[s].recs
               \/ sec'[s].recs = <<r>> /\ f[s].magic /\ f[s].store = "USING"
  <2>1. \/ sec'[s] = f[s]
        \/ sec'[s] = [f[s] EXCEPT !.recs = <<r>>] /\ f[s].magic /\ f[s].store = "USING"
    BY <1>1 DEF Reread
  <2>2. f[s] \in SectorStates
    OBVIOUS
  <2>3. CASE sec'[s] = f[s]
    BY <2>2, <2>3
  <2>4. CASE sec'[s] = [f[s] EXCEPT !.recs = <<r>>] /\ f[s].magic /\ f[s].store = "USING"
    <3> HIDE DEF Records
    <3> QED
      BY <1>3, <2>2, <2>4 DEF SectorStates
  <2> QED
    BY <2>1, <2>3, <2>4
<1>5. FlashOK'
  <2>1. sec' = [s \in Sectors |-> sec'[s]]
    BY DEF Reread
  <2> HIDE DEF SectorStates
  <2> QED
    BY <1>4, <2>1 DEF FlashOK
<1>6. InSector'
  <2>1. ASSUME NEW s \in Sectors, NEW i \in DOMAIN sec'[s].recs
        PROVE sec'[s].recs[i].start + RecSize(sec'[s].recs[i])
                <= IF i = Len(sec'[s].recs) THEN Cap ELSE sec'[s].recs[i + 1].start
    <3>1. CASE sec'[s].recs = f[s].recs
      BY <2>1, <3>1
    <3>2. CASE sec'[s].recs = <<r>>
      <4>1. i = 1
        BY <1>3, <2>1, <3>2
      <4> QED
        BY <1>2, <1>3, <3>2, <4>1, Constants
    <3> QED
      BY <1>4, <3>1, <3>2
  <2> QED
    BY <2>1 DEF InSector
<1> QED
  BY <1>4, <1>5, <1>6 DEF InUse

(* A power failure.                                                         *)
LEMMA PlacedCrash ==
    ASSUME CInv, Crash
    PROVE Placed'
<1> USE DEF CInv, Placed, TypeOK
<1>1. PICK torn \in IF pc = "header" THEN BOOLEAN ELSE {FALSE} :
         sec' = Reread(IF ~torn THEN sec
                       ELSE [sec EXCEPT ![target].recs[Len(sec[target].recs)] = Torn(@)])
  BY DEF Crash
<1>2. FlashOK' /\ InSector' /\ \A s \in Sectors : sec'[s].recs # <<>> => s \in InUse'
  <2>1. CASE ~torn
    <3>1. sec' = Reread(sec)
      BY <1>1, <2>1
    <3> QED
      BY <3>1, Rereads DEF FlashOK, Flash, InUse, InSector
  <2>2. CASE torn
    <3>1. PICK f : f = TornFlash
      OBVIOUS
    <3>2. pc = "header" /\ sec' = Reread(f)
      BY <1>1, <2>2, <3>1 DEF TornFlash
    <3>3. NewVal \in Vals
      BY <3>2, NewKeyIn DEF Writing
    <3>4. /\ f \in [Sectors -> SectorStates]
          /\ \A s \in Sectors :
                /\ f[s].magic = sec[s].magic /\ f[s].store = sec[s].store
                /\ f[s].recs # <<>> <=> sec[s].recs # <<>>
                /\ \A i \in DOMAIN f[s].recs : f[s].recs[i].start + RecSize(f[s].recs[i])
                      <= IF i = Len(f[s].recs) THEN Cap ELSE f[s].recs[i + 1].start
      <4>1. FlashOK /\ InSector /\ Flash
        OBVIOUS
      <4> HIDE DEF CInv, Placed, TypeOK
      <4> QED
        BY <3>1, <3>2, <3>3, <4>1, CrashTears
    <3>5. \A s \in Sectors : f[s].recs # <<>> => f[s].magic /\ f[s].store \in {"USING", "FULL"}
      BY <3>4 DEF Flash, InUse
    <3> QED
      BY <3>2, <3>4, <3>5, Rereads
  <2> QED
    BY <2>1, <2>2
<1>3. Types'
  <2>1. [k \in Keys |-> NoAddr] \in [Keys -> Addrs]
    BY Nowhere
  <2> QED
    <3>1. crashes' \in Nat /\ cache' \in [Keys -> Addrs]
      BY <2>1 DEF Crash, Reset, Types
    <3> HIDE DEF CInv
    <3> QED
      BY <3>1, Nowhere DEF Crash, Reset, Types, Loading
<1>4. Pointers'
  BY DEF Crash, Reset, Pointers, Writing, Replacing, Making
<1>5. Flash'
  BY <1>2 DEF Crash, Reset, Flash, Making, Allocated
<1> QED
  BY <1>2, <1>3, <1>4, <1>5

(* CInv is inductive.                                                       *)
LEMMA Starts == Init => CInv
<1> SUFFICES ASSUME Init PROVE CInv
  OBVIOUS
<1>1. FlashOK /\ \A s \in Sectors : sec[s].recs = <<>>
  BY Emptied DEF Init, FlashOK
<1>2. Types
  BY Nowhere DEF Init, Types, Loading
<1>3. Pointers
  BY DEF Init, Pointers, Writing, Replacing, Making
<1>4. Flash
  BY <1>1 DEF Init, Flash, Making, Allocated
<1>5. InSector
  BY <1>1 DEF InSector
<1> QED
  BY <1>1, <1>2, <1>3, <1>4, <1>5, ControlInit DEF CInv, TypeOK

(* A move has a record to replace, the default key none.                    *)
LEMMA Commits == CInv => Committing
<1> SUFFICES ASSUME CInv PROVE Committing
  OBVIOUS
<1>1. NoAddr \notin AllRecs
  BY Addresses DEF CInv, TypeOK
<1> QED
  BY <1>1 DEF CInv, Pointers, Committing, Writing, Old, Valid, Control, Returns

LEMMA Steps == CInv /\ [Next]_vars => CInv'
<1> SUFFICES ASSUME CInv, [Next]_vars PROVE CInv'
  OBVIOUS
<1>1. Control'
  BY Commits, ControlNext DEF CInv
<1>2. Placed'
  <2>1. CASE UNCHANGED vars
    <3>1. UNCHANGED <<sec, cache, gcRequest, lastComplete, target, old, cur, booting, op, tried,
                      gcRet, failed, crashes, stopped, pc, job, isFull>>
      BY <2>1 DEF vars, call, ram, place
    <3>2. TypeOK'
      BY <3>1 DEF CInv, TypeOK, FlashOK, Types
    <3>3. Pointers'
      BY <3>1 DEF CInv, Pointers, Valid, Old, New, At, AllRecs, InUse, Making, LastOf
    <3>4. Flash'
      BY <3>1 DEF CInv, Flash, New, At, InUse, Making, Allocated, Remain, NewVal, LastOf
    <3>5. InSector'
      BY <3>1 DEF CInv, InSector
    <3> QED
      BY <3>2, <3>3, <3>4, <3>5 DEF Placed
  <2>2. CASE CallStep
    BY <2>2, PlacedCalls
  <2>3. CASE SetStep
    BY <2>3, PlacedNewEnv, PlacedDeletes, PlacedWrites, PlacedPreWrite, PlacedHeader DEF SetStep
  <2>4. CASE GcStep
    BY <2>4, PlacedMoves, PlacedErases DEF GcStep
  <2>5. CASE BootStep \/ Crash
    BY <2>5, PlacedBoot, PlacedCrash
  <2> QED
    BY <2>1, <2>2, <2>3, <2>4, <2>5 DEF Next
<1> QED
  BY <1>1, <1>2 DEF CInv, Placed

LEMMA Invariant == Spec => []CInv
<1>1. Init => CInv
  BY Starts
<1>2. CInv /\ [Next]_vars => CInv'
  BY Steps
<1> QED
  BY <1>1, <1>2, PTL DEF Spec

(* The state keeps its types, through any power failures.                   *)
THEOREM TypeCorrect == Spec => []TypeOK
<1>1. CInv => TypeOK
  BY DEF CInv
<1> QED
  BY <1>1, Invariant, PTL

(* No record runs into the next one or over the end of its sector,         *)
(* whatever is written, moved, given up in a power failure or read back:    *)
(* alloc_env chooses a sector with room (ef_env.c 1023-1063), and recovery  *)
(* finds every record where it began (486-520).                             *)
THEOREM StaysInSector == Spec => []InSector
<1>1. CInv => InSector
  BY DEF CInv
<1> QED
  BY <1>1, Invariant, PTL

-----------------------------------------------------------------------------
(* Without power failures, and with room to collect.                        *)

(* The records as a step leaves them.                                       *)
SameAt(a) == At(a)' = At(a) /\ FlashAddr(a)' = FlashAddr(a)
Same == AllRecs' = AllRecs /\ \A a \in AllRecs : SameAt(a)

(* The records a value may be read from, and that a step leaves them.       *)
Held == {a \in AllRecs : At(a).st \in {"WRITE", "PRE_DELETE"}}
HeldKept == Held' = Held /\ \A a \in Held : At(a)' = At(a)

(* Steps that leave the records as they are.                                *)
LEMMA SameKept ==
    ASSUME Same PROVE HeldKept
BY DEF Same, SameAt, HeldKept, Held

LEMMA AddrSame ==
    ASSUME NEW a, At(a)'.start = At(a).start
    PROVE FlashAddr(a)' = FlashAddr(a)
BY DEF FlashAddr

LEMMA SecSame ==
    ASSUME UNCHANGED sec PROVE Same
BY DEF Same, SameAt, AllRecs, InUse, At, FlashAddr

LEMMA UntouchedSame ==
    ASSUME FlashOK, Flash, Untouched PROVE Same
<1>1. \A s \in Sectors : sec'[s].recs = sec[s].recs
  BY DEF Untouched
<1>2. AllRecs' = AllRecs
  <2>1. ASSUME NEW a \in AllRecs PROVE a \in AllRecs'
    <3>1. a = <<a[1], a[2]>> /\ a[1] \in InUse /\ a[1] \in Sectors /\ a[2] \in DOMAIN sec[a[1]].recs
      BY Addresses
    <3> QED
      BY <1>1, <3>1 DEF AllRecs, Untouched
  <2>2. ASSUME NEW a \in AllRecs' PROVE a \in AllRecs
    <3>1. PICK s \in InUse' : \E i \in DOMAIN sec'[s].recs : a = <<s, i>>
      BY DEF AllRecs
    <3>2. PICK i \in DOMAIN sec'[s].recs : a = <<s, i>>
      BY <3>1
    <3>3. s \in Sectors /\ i \in DOMAIN sec[s].recs
      BY <1>1 DEF InUse
    <3>4. sec[s].recs # <<>>
      BY <3>3
    <3> QED
      BY <3>2, <3>3, <3>4 DEF AllRecs, Flash
  <2> QED
    BY <2>1, <2>2
<1>3. ASSUME NEW a \in AllRecs PROVE At(a)' = At(a)
  <2>1. a[1] \in Sectors
    BY Addresses
  <2> QED
    BY <1>1, <2>1 DEF At
<1> QED
  BY <1>2, <1>3, AddrSame DEF Same, SameAt

(* The record replaced gives the new one its key and value throughout.      *)
LEMMA NewSame ==
    ASSUME UNCHANGED <<op, job, cur>>, job = "call" \/ cur \in AllRecs,
           \A a \in AllRecs : At(a)'.key = At(a).key /\ At(a)'.val = At(a).val
    PROVE NewKey' = NewKey /\ NewVal' = NewVal
BY DEF NewKey, NewVal, At

(* A record that takes up room is before the next one of its sector, so    *)
(* two records with keys have different addresses.                          *)
LEMMA Rising ==
    ASSUME FlashOK, InSector, NEW s \in Sectors, NEW i \in DOMAIN sec[s].recs,
           NEW j \in DOMAIN sec[s].recs, i < j, sec[s].recs[i].key # NoKey
    PROVE sec[s].recs[i].start < sec[s].recs[j].start
<1>1. DOMAIN sec[s].recs = 1..Len(sec[s].recs) /\ Len(sec[s].recs) \in Nat
  BY RecordIn
<1>2. ASSUME NEW k \in DOMAIN sec[s].recs, k # Len(sec[s].recs)
      PROVE /\ sec[s].recs[k].start \in Nat /\ k + 1 \in DOMAIN sec[s].recs
            /\ sec[s].recs[k + 1].start \in Nat
            /\ sec[s].recs[k].start <= sec[s].recs[k + 1].start
            /\ sec[s].recs[k].key # NoKey => sec[s].recs[k].start < sec[s].recs[k + 1].start
  <2>1. k + 1 \in DOMAIN sec[s].recs
    BY <1>1, <1>2
  <2>2. sec[s].recs[k] \in Records /\ sec[s].recs[k + 1] \in Records
    BY <2>1, RecordIn
  <2>3. /\ RecSize(sec[s].recs[k]) \in Nat
        /\ sec[s].recs[k].key # NoKey => RecSize(sec[s].recs[k]) >= 1
        /\ sec[s].recs[k].start \in Nat /\ sec[s].recs[k + 1].start \in Nat
    BY <2>2, SizeOf
  <2>4. sec[s].recs[k].start + RecSize(sec[s].recs[k]) <= sec[s].recs[k + 1].start
    BY <1>2 DEF InSector
  <2> QED
    BY <2>1, <2>3, <2>4
<1> DEFINE T == {k \in DOMAIN sec[s].recs :
                    i < k /\ ~(sec[s].recs[i].start < sec[s].recs[k].start)}
<1>3. SUFFICES ASSUME T # {} PROVE FALSE
  OBVIOUS
<1>4. T \in SUBSET Nat
  BY <1>1
<1>5. PICK k \in T : \A l \in T : k <= l
  BY <1>3, <1>4, Least
<1>6. k \in DOMAIN sec[s].recs /\ i < k /\ ~(sec[s].recs[i].start < sec[s].recs[k].start)
  OBVIOUS
<1>7. /\ k - 1 \in DOMAIN sec[s].recs /\ k - 1 # Len(sec[s].recs)
      /\ (k - 1) + 1 = k /\ k - 1 \notin T
      /\ i # Len(sec[s].recs)
  BY <1>1, <1>5, <1>6
<1>8. /\ sec[s].recs[k - 1].start <= sec[s].recs[k].start
      /\ sec[s].recs[k - 1].start \in Nat /\ sec[s].recs[k].start \in Nat
      /\ k - 1 = i => sec[s].recs[i].start < sec[s].recs[k].start
  BY <1>2, <1>7
<1>9. sec[s].recs[i].start \in Nat
  BY <1>2, <1>7
<1>10. k - 1 = i \/ sec[s].recs[i].start < sec[s].recs[k - 1].start
  BY <1>1, <1>6, <1>7
<1> HIDE DEF T
<1> QED
  BY <1>6, <1>8, <1>9, <1>10

LEMMA Apart ==
    ASSUME FlashOK, InSector, NEW a \in AllRecs, NEW b \in AllRecs,
           FlashAddr(a) = FlashAddr(b),
           a[2] < b[2] => At(a).key # NoKey, b[2] < a[2] => At(b).key # NoKey
    PROVE a = b
<1>1. /\ a = <<a[1], a[2]>> /\ a[1] \in Sectors
      /\ a[2] \in DOMAIN sec[a[1]].recs /\ a[2] \in Nat /\ At(a) = sec[a[1]].recs[a[2]]
      /\ At(a) \in Records
  BY Addresses
<1>2. /\ b = <<b[1], b[2]>> /\ b[1] \in Sectors
      /\ b[2] \in DOMAIN sec[b[1]].recs /\ b[2] \in Nat /\ At(b) = sec[b[1]].recs[b[2]]
      /\ At(b) \in Records
  BY Addresses
<1>3. a[1] = b[1] /\ At(a).start = At(b).start /\ At(a).start \in Nat /\ At(b).start \in Nat
  BY <1>1, <1>2, SizeOf DEF FlashAddr
<1>4. ~(a[2] < b[2]) /\ ~(b[2] < a[2])
  BY <1>1, <1>2, <1>3, Rising
<1> QED
  BY <1>1, <1>2, <1>3, <1>4

(* Where all records but the one being written are whole, all differ.       *)
LEMMA CleanApart ==
    ASSUME TypeOK, Flash, InSector, Clean
    PROVE \A a, b \in AllRecs : FlashAddr(a) = FlashAddr(b) => a = b
<1> USE DEF TypeOK
<1>1. ASSUME NEW a \in AllRecs, NEW b \in AllRecs, a[1] = b[1], a[2] < b[2]
      PROVE At(a).key # NoKey
  <2>1. /\ a = <<a[1], a[2]>> /\ a[1] \in Sectors /\ a[2] \in DOMAIN sec[a[1]].recs
        /\ At(a) \in Records /\ b[2] \in DOMAIN sec[a[1]].recs
    BY <1>1, Addresses
  <2>2. DOMAIN sec[a[1]].recs = 1..Len(sec[a[1]].recs) /\ Len(sec[a[1]].recs) \in Nat
    BY <2>1, RecordIn
  <2>3. a[2] # Len(sec[a[1]].recs)
    BY <1>1, <2>1, <2>2
  <2>4. Making => a # New
    <3>1. SUFFICES ASSUME Making, a = New PROVE FALSE
      OBVIOUS
    <3>2. a[1] = target /\ a[2] = Len(sec[target].recs)
      BY <3>1, NewIn
    <3> QED
      BY <2>3, <3>2
  <2> QED
    BY <2>1, <2>4, SizeOf DEF Clean
<1>2. ASSUME NEW a \in AllRecs, NEW b \in AllRecs, FlashAddr(a) = FlashAddr(b) PROVE a = b
  <2>1. a[1] = b[1]
    BY <1>2 DEF FlashAddr
  <2>2. a[2] < b[2] => At(a).key # NoKey
    BY <1>1, <2>1
  <2>3. b[2] < a[2] => At(b).key # NoKey
    BY <1>1, <2>1
  <2> QED
    BY <1>2, <2>2, <2>3, Apart
<1> QED
  BY <1>2

(* Steps between whose records nothing is under way.                        *)
Outside == ~Window /\ pc \notin {"preDelete", "delete", "dirty"}

LEMMA OutsideKeeps ==
    ASSUME Clean, OldState, Unique, Outside, Outside', Same
    PROVE Clean' /\ OldState' /\ Unique'
<1> USE DEF Outside, Same, SameAt, Replaced
<1>0. ~Making /\ ~Making' /\ ~Replaced /\ ~Replaced'
  BY DEF Making, Window, Writing
<1>1. Clean'
  BY <1>0 DEF Clean
<1>2. OldState'
  BY DEF OldState
<1>3. Unique'
  BY DEF Unique
<1> QED
  BY <1>1, <1>2, <1>3

(* Nothing in the cache leads to a deleted record.                          *)
LEMMA HitsKept ==
    ASSUME Cached, Same, \A k \in Keys : cache'[k] = cache[k] \/ cache'[k] = NoAddr, TypeOK
    PROVE \A k \in Keys : \A a \in CacheHits(k)' : At(a)'.st # "DELETED"
<1>1. ASSUME NEW k \in Keys, NEW a \in CacheHits(k)' PROVE At(a)'.st # "DELETED"
  <2>1. a \in AllRecs /\ At(a)' = At(a) /\ FlashAddr(a) = cache'[k] /\ At(a).key = k
    BY DEF CacheHits, Same, SameAt
  <2>2. FlashAddr(a) # NoAddr
    BY <2>1, AddrIn DEF TypeOK
  <2>3. a \in CacheHits(k)
    BY <2>1, <2>2 DEF CacheHits
  <2> QED
    BY <2>1, <2>3 DEF Cached
<1> QED
  BY <1>1

(* A look-up finds the written record, and caches it.                       *)
LEMMA FindsWritten ==
    ASSUME TypeOK, Flash, InSector, Clean, Cached, Outside, NEW k \in Keys
    PROVE /\ FindEnv(k) # NoAddr => /\ FindEnv(k) \in AllRecs /\ At(FindEnv(k)).key = k
                                    /\ At(FindEnv(k)).st = "WRITE"
          /\ FindEnv(k) = NoAddr => \A a \in AllRecs : At(a).st = "WRITE" => At(a).key # k
          /\ sec' = sec /\ cache' \in CacheAfterFind(k)
                => \A j \in Keys : \A a \in CacheHits(j)' : At(a)'.st # "DELETED"
<1>0. ~Making /\ ~Replaced
  BY DEF Making, Window, Writing, Outside, Replaced
<1>1. \A a \in AllRecs : At(a).crcOk /\ At(a).st \in {"WRITE", "DELETED"}
  BY <1>0 DEF Clean, Outside
<1>2. FindEnv(k) # NoAddr => /\ FindEnv(k) \in AllRecs /\ At(FindEnv(k)).key = k
                             /\ At(FindEnv(k)).st = "WRITE"
  <2>1. CASE CacheHits(k) # {}
    <3>1. PICK f : f = FindEnv(k) /\ f \in CacheHits(k)
      BY <2>1, FindIn DEF TypeOK
    <3>2. f \in AllRecs /\ At(f).key = k /\ At(f).st # "DELETED"
      BY <3>1 DEF CacheHits, Cached
    <3> QED
      BY <1>1, <3>1, <3>2
  <2>2. CASE CacheHits(k) = {}
    BY <2>2, FindIn DEF Found, TypeOK
  <2> QED
    BY <2>1, <2>2
<1>3. ASSUME FindEnv(k) = NoAddr
      PROVE \A a \in AllRecs : At(a).st = "WRITE" => At(a).key # k
  <2>1. NoAddr \notin AllRecs
    BY Addresses DEF TypeOK
  <2>2. CacheHits(k) = {} /\ Found(k) = {}
    BY <1>3, <2>1, FindIn DEF CacheHits, Found, TypeOK
  <2> QED
    BY <1>1, <2>2 DEF Found
<1>4. ASSUME sec' = sec, cache' \in CacheAfterFind(k), NEW j \in Keys, NEW a \in CacheHits(j)'
      PROVE At(a)'.st # "DELETED"
  <2>1. Same
    BY <1>4, SecSame
  <2>2. a \in AllRecs /\ At(a)' = At(a) /\ FlashAddr(a) = cache'[j] /\ At(a).key = j
    BY <2>1 DEF CacheHits, Same, SameAt
  <2>3. FlashAddr(a) # NoAddr
    BY <2>2, AddrIn DEF TypeOK
  <2>4. PICK f : f = FindEnv(k)
    OBVIOUS
  <2>5. \/ cache'[j] = cache[j] \/ cache'[j] = NoAddr
        \/ j = k /\ f \in AllRecs /\ cache'[k] = FlashAddr(f)
    BY <1>4, <2>4, FindCache DEF TypeOK, Types
  <2>6. CASE cache'[j] = cache[j]
    BY <2>2, <2>6 DEF CacheHits, Cached
  <2>7. CASE j = k /\ f \in AllRecs /\ cache'[k] = FlashAddr(f)
    <3>1. a = f
      BY <2>2, <2>7, CleanApart
    <3>2. f # NoAddr
      BY <2>7, Addresses DEF TypeOK
    <3> QED
      BY <1>2, <2>2, <2>4, <3>1, <3>2
  <2> QED
    BY <2>2, <2>3, <2>5, <2>6, <2>7
<1> QED
  BY <1>2, <1>3, <1>4

(* Which steps take nothing under way to nothing under way.                 *)
LEMMA SteadyCalls ==
    ASSUME CInv, Steady, CallStep PROVE Steady' /\ HeldKept
<1> USE DEF Steady
<1>0. /\ pc = "idle" /\ job = "call" /\ job' = "call" /\ sec' = sec /\ lastComplete' = lastComplete
      /\ gcRet = "idle" /\ gcRet' = "idle" /\ cur = NoAddr /\ cur' = NoAddr
      /\ pc' \in {"idle", "alloc", "find", "wipe"} /\ (pc' # "idle" => op' # NoReq)
      /\ pc' = "alloc" => op'.kind = "set"
      /\ pc' = "idle" => op' = op
  BY DEF CInv, Control, Jobs, Returns, Pointers, CallStep, CallSet, CallDel, CallDefault, GetEnv,
     Begin, Go, ram, place, call, Map!SetDefault, NoReq
<1>1. Same
  BY <1>0, SecSame
<1>2. Outside /\ Outside' /\ ~Making' /\ ~Window' /\ ~Replaced'
  BY <1>0 DEF Outside, Window, Writing, Making, Replaced
<1>3. Clean' /\ OldState' /\ Unique'
  BY <1>1, <1>2, OutsideKeeps
<1>4. Cached'
  <2>1. \A k \in Keys : \A a \in CacheHits(k)' : At(a)'.st # "DELETED"
    <3>1. CASE cache' = cache
      BY <1>1, <3>1, HitsKept DEF CInv
    <3>2. ASSUME NEW k \in Keys, cache' \in CacheAfterFind(k)
          PROVE \A j \in Keys : \A a \in CacheHits(j)' : At(a)'.st # "DELETED"
      BY <1>0, <1>2, <3>2, FindsWritten DEF CInv
    <3> QED
      BY <3>1, <3>2 DEF CallStep, CallSet, CallDel, CallDefault, GetEnv, Begin, ram
  <2>2. ~lastComplete
    BY <1>2 DEF Cached, Outside, Replaced
  <2> QED
    BY <1>0, <2>1, <2>2 DEF Cached
<1>5. Collected'
  BY <1>0 DEF Collected
<1>6. Wiped'
  <2>1. \A a \in AllRecs : a[1] > cur'[1]
    <3>1. \A a \in AllRecs : a[1] \in Nat /\ a[1] >= 1
      BY Addresses DEF CInv, TypeOK
    <3> QED
      BY <1>0, <3>1 DEF NoAddr
  <2>2. pc' = "idle" => op' = NoReq
    BY <1>0 DEF CInv, Control, Requested
  <2> QED
    BY <1>0, <1>1, <2>1, <2>2 DEF Wiped, Same, Writing, NoReq
<1>7. Still'
  BY <1>0 DEF Still
<1> QED
  BY <1>3, <1>4, <1>5, <1>6, <1>7, <1>1, SameKept

(* Collection and start-up, where they write no record.                     *)
LEMMA SteadyRests ==
    ASSUME CInv, Steady, pc' # "preDelete",
           \/ Finish \/ Return \/ GcCollect \/ GcPick \/ GcNext \/ GcDone \/ Format
           \/ Wipe \/ CheckHdr \/ RecoverGc \/ RecoverNext \/ RecoverEnd
    PROVE Steady' /\ HeldKept
<1> USE DEF Steady, CInv, TypeOK
<1>0. /\ pc \in {"finish", "return", "gc", "gcPick", "gcNext", "gcDone", "format", "wipe",
                 "checkHdr", "recGc", "recNext", "recEnd"}
      /\ UNCHANGED <<cache, lastComplete>>
  BY DEF Finish, Return, GcCollect, GcPick, GcNext, GcDone, Format, Wipe, CheckHdr,
     RecoverGc, RecoverNext, RecoverEnd, Go, ram
<1>1. Outside /\ ~Making /\ ~Window /\ ~Replaced
  BY <1>0 DEF Outside, Window, Writing, Making, Replaced
<1>2. \A a \in AllRecs : At(a).crcOk /\ At(a).st \in {"WRITE", "DELETED"}
  BY <1>1 DEF Clean
<1>3. RecoverNext => pc' = "recEnd" /\ sec' = sec /\ cur' = cur
  <2>1. {a \in AllRecs : Unfinished(a) /\ Before(cur, a)} = {}
    BY <1>2 DEF Unfinished, PreDeleted
  <2> QED
    BY <2>1 DEF RecoverNext
<1>4. GcNext => pc' = "erase" /\ ToMove(cur[1]) = {} /\ cur' = cur
  <2>1. ASSUME GcNext, ToMove(cur[1]) # {} PROVE FALSE
    <3>1. PICK a : a = First(ToMove(cur[1]))
      OBVIOUS
    <3>2. a \in AllRecs /\ At(a).st \in {"WRITE", "PRE_DELETE"}
      <4>1. ToMove(cur[1]) \subseteq AllRecs
        BY DEF ToMove
      <4>2. a \in ToMove(cur[1])
        BY <2>1, <3>1, <4>1, FirstIn
      <4> QED
        BY <4>2 DEF ToMove
    <3>3. sec' = sec /\ cur' = a
      BY <2>1, <3>1 DEF GcNext
    <3>4. At(cur').st = "WRITE"
      BY <1>2, <3>2, <3>3
    <3>5. pc' = "preDelete"
      BY <2>1, <3>4 DEF GcNext
    <3> QED
      BY <3>5
  <2> QED
    BY <2>1 DEF GcNext
<1>5. Outside' /\ ~Window'
  BY <1>0, <1>3, <1>4
     DEF Outside, Window, Writing, Finish, Return, GcCollect, GcPick, GcNext, GcDone, Format,
        FormatNext, Wipe,
         CheckHdr, RecoverGc, RecoverNext, RecoverEnd, Go, Types
<1>6. Same
  <2>1. CASE sec' = sec
    BY <2>1, SecSame
  <2>2. CASE GcPick /\ Garbage # {}
    <3>1. PICK s \in Sectors : s = Min(Garbage)
      BY <2>2, MinIn DEF Garbage
    <3>2. Untouched
      BY <2>2, <3>1, DirtySet DEF GcPick
    <3> QED
      BY <3>2, UntouchedSame
  <2>3. ASSUME NEW s \in Sectors, \A a \in AllRecs : a[1] # s,
               sec' = [sec EXCEPT ![s] = Formatted]
        PROVE Same
    <3>1. AllRecs' = AllRecs /\ \A a \in AllRecs' : At(a)' = At(a)
      BY <2>3, SectorEmptied
    <3> QED
      BY <3>1, AddrSame DEF Same, SameAt
  <2>4. CASE Format
    <3>1. PICK s \in Sectors : s = cur[1]
      BY <2>4 DEF Format, Go, Pointers, Control, Jobs, Types
    <3>2. sec' = [sec EXCEPT ![s] = Formatted] /\ \A a \in AllRecs : a[1] # s
      BY <2>4, <3>1 DEF Format, Go, Wiped
    <3> QED
      BY <2>3, <3>2
  <2>5. CASE CheckHdr /\ sec' # sec
    <3> DEFINE bad == {s \in Sectors : ~sec[s].magic}
    <3>1. bad # {} /\ sec' = [sec EXCEPT ![Min(bad)] = Formatted]
      BY <2>5 DEF CheckHdr
    <3>2. PICK s \in Sectors : s = Min(bad) /\ ~sec[s].magic
      <4>1. Min(bad) \in bad
        BY <3>1, MinIn
      <4> QED
        BY <4>1
    <3>3. \A a \in AllRecs : a[1] # s
      <4>1. \A a \in AllRecs : a[1] \in InUse
        BY Addresses
      <4> QED
        BY <3>2, <4>1 DEF InUse
    <3> QED
      BY <2>3, <3>1, <3>2, <3>3
  <2> QED
    BY <1>3, <2>1, <2>2, <2>4, <2>5 DEF Finish, Return, GcCollect, GcPick, GcNext, GcDone, Wipe,
         RecoverGc, RecoverEnd
<1>7. Clean' /\ OldState' /\ Unique'
  BY <1>1, <1>5, <1>6, OutsideKeeps
<1>8. Cached'
  <2>1. \A k \in Keys : \A a \in CacheHits(k)' : At(a)'.st # "DELETED"
    BY <1>0, <1>6, HitsKept
  <2>2. ~lastComplete
    BY <1>1 DEF Cached
  <2> QED
    BY <1>0, <2>1, <2>2 DEF Cached
<1>9. Collected'
  <2>1. CASE GcNext
    <3>1. \A a \in AllRecs : a[1] = cur[1] => At(a).st = "DELETED"
      <4>1. ASSUME NEW a \in AllRecs, a[1] = cur[1], a[2] > cur[2] PROVE At(a).st = "DELETED"
        BY <1>2, <1>4, <2>1, <4>1 DEF ToMove
      <4>2. ASSUME NEW a \in AllRecs, a[1] = cur[1], ~(a[2] > cur[2]) PROVE At(a).st = "DELETED"
        <5>1. a[2] \in Nat /\ cur[2] \in Nat
          BY Addresses DEF Types, Addrs
        <5>2. pc = "gcNext" /\ job = "gc"
          BY <2>1 DEF GcNext, Control, Jobs, Collecting
        <5> QED
          BY <4>2, <5>1, <5>2 DEF Collected, Moved
      <4> QED
        BY <4>1, <4>2
    <3>2. pc = "gcNext" /\ job = "gc" /\ job' = "gc" /\ sec' = sec /\ cur' = cur /\ pc' = "erase"
      BY <1>4, <2>1 DEF GcNext, Control, Jobs, Collecting
    <3> QED
      BY <1>6, <3>1, <3>2 DEF Collected, Same, SameAt, Writing
  <2>2. CASE GcPick /\ Garbage # {}
    <3>1. PICK s \in Sectors : s = Min(Garbage)
      BY <2>2, MinIn DEF Garbage
    <3>2. sec'[s].dirty = "GC" /\ cur' = <<s, 0>> /\ pc' = "gcNext"
      BY <2>2, <3>1, DirtySet DEF GcPick
    <3>3. \A a \in AllRecs' : a[2] \in Nat /\ a[2] >= 1
      BY <1>6, Addresses DEF Same
    <3> QED
      BY <3>2, <3>3 DEF Collected, Writing, Moved
  <2>3. CASE ~GcNext /\ ~(GcPick /\ Garbage # {})
    <3>1. pc' \in {"gcPick", "gcDone"} \/ job' # "gc"
      BY <1>0, <2>3 DEF Finish, Return, GcCollect, GcPick, GcDone, Format, FormatNext, Wipe,
         CheckHdr, RecoverGc, RecoverNext, RecoverEnd, Go, Control, Jobs, Types, Loading
    <3> QED
      BY <3>1 DEF Collected
  <2> QED
    BY <2>1, <2>2, <2>3
<1>10. Still'
  BY <1>0, <1>3
     DEF Still, Finish, Return, GcCollect, GcPick, GcNext, GcDone, Format, FormatNext, Wipe,
         CheckHdr, RecoverGc, RecoverNext, RecoverEnd, Go, Control, Jobs, Types, Loading
<1> DEFINE FormatW == pc' = "format" => \A a \in AllRecs' : a[1] # cur'[1]
           WipingW == pc' \in {"wipe", "erase", "format"} /\ job' = "call" =>
                        \A a \in AllRecs' : a[1] > cur'[1] \/ (a[1] = cur'[1] /\ pc' = "erase")
           ReturnW == op'.kind = "default" /\ gcRet' = "return" => pc' = "return"
           WritingW == op'.kind = "default" /\ pc' \notin {"finish", "return"}
                       /\ (gcRet' = "alloc" \/ pc' \in Writing \cup {"alloc"}) =>
                          \A a \in AllRecs' : (Making /\ a = New)'
<1>11. AllRecs' = AllRecs
  BY <1>6 DEF Same
<1>12. \A a \in AllRecs : a[1] \in Nat /\ a[1] >= 1 /\ a[1] <= NS
  BY Addresses, Constants DEF Sectors
<1>13. FormatW
  BY <1>0, <1>3 DEF Finish, Return, GcCollect, GcPick, GcNext, GcDone, Format, FormatNext, Wipe,
         CheckHdr, RecoverGc, RecoverNext, RecoverEnd, Go, Types
<1>14. WipingW
  <2>1. CASE Format /\ job = "call"
    <3>1. /\ \A a \in AllRecs : a[1] > cur[1]
          /\ cur' = cur
      BY <2>1 DEF Format, Go, Wiped, place
    <3> QED
      BY <1>11, <3>1
  <2>2. CASE Wipe
    <3>1. /\ \A a \in AllRecs : a[1] > cur[1]
          /\ cur' = <<cur[1] + 1, 0>> /\ pc' = "erase" /\ cur[1] \in Nat
      BY <2>2 DEF Wipe, Go, Wiped, Control, Jobs, Types, Addrs
    <3>2. \A a \in AllRecs : a[1] >= cur[1] + 1
      BY <1>12, <3>1
    <3> QED
      BY <1>11, <1>12, <3>1, <3>2
  <2>3. CASE CheckHdr
    <3>1. cur' = NoAddr
      BY <2>3 DEF CheckHdr, place, Pointers
    <3> QED
      BY <1>11, <1>12, <3>1 DEF NoAddr
  <2>4. CASE ~(Format /\ job = "call") /\ ~Wipe /\ ~CheckHdr
    <3>1. ~(pc' \in {"wipe", "erase", "format"} /\ job' = "call")
      BY <1>0, <1>3, <2>4
         DEF Finish, Return, GcCollect, GcPick, GcNext, GcDone, Format, FormatNext,
         RecoverGc, RecoverNext, RecoverEnd, Go, Types, Control, Jobs, Collecting
    <3> QED
      BY <3>1
  <2> QED
    BY <2>1, <2>2, <2>3, <2>4
<1>15. ReturnW
  <2>1. op.kind = "default" /\ gcRet = "return" => pc = "return"
    BY DEF Wiped
  <2> QED
    BY <1>0, <2>1 DEF Finish, Return, GcCollect, GcPick, GcNext, GcDone, Format, FormatNext, Wipe,
       CheckHdr, RecoverGc, RecoverNext, RecoverEnd, Go, call, Control, Returns, Requested, NoReq,
       Map!SetDefault, Jobs
<1>16. WritingW
  <2>1. op.kind = "default" /\ pc \notin {"finish", "return"} /\ gcRet = "alloc" => AllRecs = {}
    BY <1>1 DEF Wiped
  <2>2. CASE Format /\ job = "call"
    <3>1. \A a \in AllRecs : a[1] > cur[1]
      BY <2>2 DEF Format, Go, Wiped
    <3>2. pc' = "alloc" => cur[1] = NS
      BY <2>2 DEF Format, FormatNext, Go
    <3>3. pc' = "alloc" => AllRecs = {}
      BY <1>12, <3>1, <3>2, Constants
    <3>4. gcRet' = gcRet /\ op' = op /\ pc' \in {"alloc", "wipe"}
      BY <2>2 DEF Format, FormatNext, Go, call
    <3> QED
      BY <1>0, <1>11, <2>1, <2>2, <3>3, <3>4 DEF Writing, Format, Go
  <2>3. CASE ~(Format /\ job = "call")
    <3>1. ASSUME op'.kind = "default", pc' \notin {"finish", "return"},
                 gcRet' = "alloc" \/ pc' \in Writing \cup {"alloc"}
          PROVE op.kind = "default" /\ pc \notin {"finish", "return"} /\ gcRet = "alloc"
      BY <1>0, <1>3, <1>4, <2>3, <3>1
         DEF Finish, Return, GcCollect, GcPick, GcNext, GcDone, Format, FormatNext, Wipe,
       CheckHdr, RecoverGc, RecoverNext, RecoverEnd, Go, call, Control, Returns, Requested, NoReq,
       Map!SetDefault, Jobs, Writing, Types
    <3> QED
      BY <1>11, <2>1, <3>1
  <2> QED
    BY <2>2, <2>3
<1>17. Wiped'
  BY <1>13, <1>14, <1>15, <1>16 DEF Wiped
<1> QED
  BY <1>7, <1>8, <1>9, <1>10, <1>17, <1>6, SameKept

(* What the store looks up before it writes.                                *)
LEMMA SteadyLooks ==
    ASSUME CInv, Steady, NewEnv \/ FindOld PROVE Steady' /\ HeldKept
<1> USE DEF Steady, CInv, TypeOK
<1>0. /\ sec' = sec /\ UNCHANGED <<lastComplete, cur, op, job>> /\ job = "call"
      /\ pc \in {"alloc", "find"}
      /\ pc' \in {"find", "status", "gc", "return", "preDelete", "delete"}
  BY DEF NewEnv, FindOld, Control, Jobs, call
<1>1. Same
  BY <1>0, SecSame
<1>2. Outside /\ ~Making /\ ~Window /\ ~Replaced /\ ~Making'
  BY <1>0 DEF Outside, Window, Writing, Making, Replaced
<1>3. \A a \in AllRecs : At(a).crcOk /\ At(a).st \in {"WRITE", "DELETED"}
  BY <1>2 DEF Clean
<1>4. op.key \in Keys
  BY <1>0, Kinds DEF NewEnv, FindOld, Control, Requested, Types
<1>5. PICK k \in Keys : k = op.key
  BY <1>4
<1>6. FindOld => \/ old' = NoAddr /\ \A a \in AllRecs : At(a).st = "WRITE" => At(a).key # k
                 \/ old' \in AllRecs /\ At(old').st = "WRITE" /\ pc' \in {"preDelete", "delete"}
  <2>1. PICK f : f = FindEnv(k)
    OBVIOUS
  <2>2. /\ f # NoAddr => f \in AllRecs /\ At(f).key = k /\ At(f).st = "WRITE"
        /\ f = NoAddr => \A a \in AllRecs : At(a).st = "WRITE" => At(a).key # k
    BY <1>2, <2>1, FindsWritten
  <2>3. FindOld => /\ old' = f /\ (f # NoAddr => pc' \in {"preDelete", "delete"})
    BY <1>5, <2>1 DEF FindOld
  <2> QED
    BY <2>2, <2>3
<1>7. NewEnv => /\ old' = NoAddr
                /\ pc' = "status" => AllRecs = {}
  <2>1. NewEnv => old = NoAddr /\ old' = old
    BY DEF NewEnv, Pointers, Writing, Replacing, Control, Returns
  <2>2. NewEnv /\ pc' = "status" => op.kind = "default" /\ pc = "alloc"
    BY DEF NewEnv, Control, Requested
  <2>3. NewEnv /\ pc' = "status" => AllRecs = {}
    BY <1>2, <2>2 DEF Wiped
  <2> QED
    BY <2>1, <2>3
<1>8. ~Replaced' /\ Old' = old' /\ NoAddr \notin AllRecs
  <2>1. pc' = "delete" => op.kind = "del" /\ op' = op /\ job' = "call"
    BY <1>0 DEF NewEnv, FindOld, Control, Requested
  <2> QED
    BY <1>0, <2>1, Addresses DEF Replaced, Removing, Old
<1>9. Clean'
  BY <1>1, <1>2, <1>3 DEF Clean, Same, SameAt
<1>10. OldState'
  BY <1>0, <1>1, <1>6, <1>7, <1>8 DEF OldState, Same, SameAt, Window, Writing
<1>11. Unique'
  <2>1. Window' => pc' = "status"
    BY <1>0 DEF Window, Writing
  <2>2. NewKey' = k
    BY <1>0, <1>5 DEF NewKey
  <2>3. pc' = "status" => \A a \in AllRecs : At(a).st = "WRITE" => At(a).key # k
    BY <1>6, <1>7, <1>8
  <2> QED
    BY <1>1, <2>1, <2>2, <2>3 DEF Unique, Same, SameAt
<1>12. Cached'
  <2>1. ~lastComplete
    BY <1>2 DEF Cached
  <2>2. CASE NewEnv
    BY <1>0, <1>1, <2>1, <2>2, HitsKept DEF Cached, NewEnv
  <2>3. CASE FindOld
    <3>1. cache' \in CacheAfterFind(k)
      BY <1>5, <2>3 DEF FindOld
    <3> QED
      BY <1>0, <1>2, <2>1, <3>1, FindsWritten DEF Cached
  <2> QED
    BY <2>2, <2>3
<1>13. Collected' /\ Still'
  BY <1>0 DEF Collected, Still
<1>14. Wiped'
  <2>1. pc' \notin {"wipe", "erase", "format"}
    BY <1>0
  <2>2. op.kind = "default" => NewEnv /\ pc = "alloc" /\ gcRet # "return" /\ AllRecs = {}
    BY <1>0, <1>2 DEF FindOld, Control, Requested, Wiped
  <2>3. NewEnv => gcRet' = gcRet \/ gcRet' = "alloc"
    BY DEF NewEnv
  <2> QED
    BY <1>0, <1>1, <2>1, <2>2, <2>3 DEF Wiped, Same
<1> QED
  BY <1>9, <1>10, <1>11, <1>12, <1>13, <1>14, <1>1, SameKept

(* Marking the old record's sector, and choosing the new one's.             *)
LEMMA SteadySectors ==
    ASSUME CInv, Steady, ~Stuck, PreDirty \/ UpdateSecStatus \/ MoveAlloc PROVE Steady' /\ HeldKept
<1> USE DEF Steady, CInv, TypeOK
<1>0. /\ UNCHANGED <<cache, lastComplete, old, cur, op, job, gcRet>>
      /\ pc \in {"preDirty", "status", "alloc"}
      /\ pc = "alloc" => job # "call"
      /\ pc = "status" => target \in Sectors /\ sec[target].magic
  BY DEF PreDirty, UpdateSecStatus, MoveAlloc, ram, place, call, Go, Flash, Allocated
<1>1. Same /\ \A s \in Sectors : sec[s].dirty = "GC" => sec'[s].dirty = "GC"
  <2>1. CASE PreDirty
    BY <2>1, MarkKeeps, UntouchedSame DEF PreDirty
  <2>2. CASE UpdateSecStatus
    <3>1. pc = "status"
      BY <2>2 DEF UpdateSecStatus, Go
    <3> QED
      BY <1>0, <2>2, <3>1, StatusOfSector, UntouchedSame
  <2>3. CASE MoveAlloc
    BY <2>3, SecSame DEF MoveAlloc
  <2> QED
    BY <2>1, <2>2, <2>3
<1>2. job # "recover"
  BY <1>0 DEF Still
<1>3. Window /\ ~Making /\ ~Replaced
  BY <1>0, <1>2 DEF Window, Writing, Making, Replaced, Types
<1>4. job = "call" \/ Valid(cur)
  BY <1>0 DEF Pointers, Writing, Replacing, Old
<1>5. NewKey' = NewKey /\ NewVal' = NewVal /\ Old' = Old
  BY <1>0, <1>1, <1>4, NewSame DEF Same, SameAt, Valid, Old
<1>6. MoveAlloc => /\ pc' = "status" /\ target' \in Sectors /\ sec[target'].dirty # "GC"
  <2>1. PICK k : k = NewKey
    OBVIOUS
  <2>2. Found(k) = {}
    BY <1>3, <2>1 DEF Unique, Found
  <2>3. FindNoCache(NewKey) = NoAddr
    BY <2>1, <2>2 DEF FindNoCache
  <2>4. MoveAlloc => target' = Alloc(Size[NewVal]) /\ target' # 0
    BY <1>0, <1>2 DEF MoveAlloc, Stuck, Types
  <2>5. MoveAlloc => pc' = "status"
    BY <2>3, <2>4 DEF MoveAlloc
  <2> QED
    BY <2>4, <2>5, AllocIn
<1>7. /\ pc' \in {"status", "preWrite"} \/ (pc' = "alloc" /\ job' = "gc")
      /\ pc' # "status" \/ job = "call" \/ MoveAlloc
  BY <1>0, <1>2, <1>6 DEF PreDirty, UpdateSecStatus, Go, Types
<1>8. Window' /\ ~Making' /\ ~Replaced'
  BY <1>7 DEF Window, Writing, Making, Replaced
<1>9. Clean'
  BY <1>1, <1>3, <1>5, <1>8 DEF Clean, Same, SameAt
<1>10. OldState'
  BY <1>1, <1>3, <1>5, <1>7, <1>8 DEF OldState, Same, SameAt
<1>11. Unique'
  BY <1>1, <1>3, <1>5 DEF Unique, Same, SameAt
<1>12. Cached'
  <2>1. \A k \in Keys : \A a \in CacheHits(k)' : At(a)'.st # "DELETED"
    BY <1>0, <1>1, HitsKept
  <2> QED
    BY <1>0, <1>1, <1>3, <1>5, <1>8, <2>1 DEF Cached, Same
<1>13. Collected'
  <2>1. ASSUME job = "gc"
        PROVE
          /\ cur[1] \in Sectors /\ sec[cur[1]].dirty = "GC"
          /\ \A a \in AllRecs : a[1] = cur[1] /\ a[2] < cur[2] => At(a).st = "DELETED"
          /\ pc = "status" => target # cur[1]
    BY <1>0, <2>1 DEF Collected, Moved, Pointers, Writing
  <2>2. job = "gc" => sec'[cur[1]].dirty = "GC"
    BY <1>1, <2>1
  <2>3. job = "gc" /\ pc' \in Writing => target' # cur[1]
    <3>1. MoveAlloc /\ job = "gc" => target' # cur[1]
      BY <1>6, <2>1
    <3>2. UpdateSecStatus => pc = "status" /\ target' = target
      BY DEF UpdateSecStatus, Go, place
    <3>3. PreDirty /\ job = "gc" => pc' = "alloc"
      BY DEF PreDirty, Go
    <3>4. job = "gc" /\ pc = "status" => target # cur[1]
      BY <2>1
    <3>5. "alloc" \notin Writing
      BY DEF Writing
    <3> QED
      BY <3>1, <3>2, <3>3, <3>4, <3>5
  <2> QED
    BY <1>0, <1>1, <1>7, <2>1, <2>2, <2>3 DEF Collected, Moved, Same, SameAt
<1>14. Still'
  BY <1>0, <1>2 DEF Still
<1>15. Wiped'
  <2>1. op.kind = "default" /\ gcRet = "return" => FALSE
    BY <1>0 DEF Wiped
  <2>2. op.kind = "default" /\ (gcRet = "alloc" \/ pc \in Writing \cup {"alloc"}) => AllRecs = {}
    BY <1>0, <1>3 DEF Wiped
  <2>3. op.kind = "default" => gcRet = "alloc" \/ pc \in Writing \cup {"alloc"}
    BY <1>0, <1>2, <2>1 DEF Control, Requested, Returns, Jobs, Writing, NoReq, Types
  <2> QED
    BY <1>0, <1>1, <1>7, <2>1, <2>2, <2>3 DEF Wiped, Same, Writing
<1> QED
  BY <1>9, <1>10, <1>11, <1>12, <1>13, <1>14, <1>15, <1>1, SameKept

(* The old record is gone, and a collection goes on.                        *)
LEMMA SteadyDirty ==
    ASSUME CInv, Steady, Dirty PROVE Steady' /\ HeldKept
<1> USE DEF Steady, CInv, TypeOK
<1>0. /\ UNCHANGED <<cache, lastComplete, old, cur, op, job, gcRet>> /\ pc = "dirty"
      /\ Valid(Old)
  BY DEF Dirty, ram, place, call, Go, Pointers, Replacing
<1>1. Same /\ \A s \in Sectors : sec[s].dirty = "GC" => sec'[s].dirty = "GC"
  BY MarkKeeps, UntouchedSame DEF Dirty
<1>2. job # "recover"
  BY <1>0 DEF Still
<1>3. ~Window /\ ~Making /\ ~Replaced
  BY <1>0, <1>2 DEF Window, Writing, Making, Replaced, Types
<1>4. (pc' \in {"finish", "return"} /\ job = "call") \/ (pc' = "gcNext" /\ job = "gc")
  BY <1>2 DEF Dirty, DirtyAfter, Go, Types
<1>5. Outside' /\ ~Window' /\ ~Making' /\ ~Replaced'
  BY <1>4 DEF Outside, Window, Writing, Making, Replaced
<1>6. Clean'
  BY <1>1, <1>3, <1>5 DEF Clean, Same, SameAt
<1>7. OldState'
  BY <1>4, <1>5 DEF OldState
<1>8. Unique'
  BY <1>1, <1>5 DEF Unique, Same, SameAt
<1>9. Cached'
  <2>1. \A k \in Keys : \A a \in CacheHits(k)' : At(a)'.st # "DELETED"
    BY <1>0, <1>1, HitsKept
  <2> QED
    BY <1>0, <1>3, <2>1 DEF Cached
<1>10. Collected'
  <2>1. ASSUME job = "gc"
        PROVE \A a \in AllRecs :
                 a[1] = cur[1] /\ (a[2] < cur[2] \/ a[2] = cur[2]) => At(a).st = "DELETED"
    <3>1. \A a \in AllRecs : a = cur => At(a).st = "DELETED"
      BY <1>0, <2>1 DEF OldState, Old
    <3>2. cur \in AllRecs
      BY <1>0, <2>1 DEF Valid, Old
    <3>3. \A a \in AllRecs : a[1] = cur[1] /\ a[2] = cur[2] => a = cur
      BY <3>2, Addresses
    <3> QED
      BY <1>0, <2>1, <3>1, <3>3 DEF Collected, Moved
  <2>2. job = "gc" => cur[1] \in Sectors /\ sec[cur[1]].dirty = "GC"
    BY <1>0 DEF Collected, Pointers
  <2> QED
    BY <1>0, <1>1, <1>4, <2>1, <2>2 DEF Collected, Moved, Same, SameAt, Writing
<1>11. Still'
  BY <1>0, <1>2 DEF Still
<1>12. Wiped'
  <2>1. AllRecs # {}
    BY <1>0 DEF Valid
  <2>2. op.kind = "default" => gcRet = "alloc" \/ gcRet = "return"
    BY <1>0 DEF Control, Requested, Returns, Jobs, Replacing, NoReq, Types
  <2>3. op.kind # "default"
    BY <1>0, <1>3, <2>1, <2>2 DEF Wiped
  <2> QED
    BY <1>0, <1>4, <2>3 DEF Wiped
<1> QED
  BY <1>6, <1>7, <1>8, <1>9, <1>10, <1>11, <1>12, <1>1, SameKept

(* Collection takes up the next record.                                     *)
LEMMA SteadyTakes ==
    ASSUME CInv, Steady, GcNext, pc' = "preDelete" PROVE Steady' /\ HeldKept
<1> USE DEF Steady, CInv, TypeOK
<1>0. /\ UNCHANGED <<sec, cache, lastComplete, op, job, gcRet>> /\ pc = "gcNext" /\ job = "gc"
      /\ cur[1] \in Sectors
  BY DEF GcNext, ram, call, Pointers, Control, Jobs, Collecting
<1>1. Same
  BY <1>0, SecSame
<1>2. ~Window /\ ~Making /\ ~Replaced /\ ~Window' /\ ~Making' /\ ~Replaced'
  BY <1>0 DEF Window, Writing, Making, Replaced
<1>3. \A a \in AllRecs : At(a).crcOk /\ At(a).st \in {"WRITE", "DELETED"}
  BY <1>2 DEF Clean
<1>4. PICK a : a = First(ToMove(cur[1]))
  OBVIOUS
<1>5. /\ cur' = a /\ a \in AllRecs /\ a[1] = cur[1] /\ At(a).st = "WRITE"
      /\ \A b \in ToMove(cur[1]) : b # a => Before(a, b)
  <2>1. ToMove(cur[1]) # {} /\ cur' = a
    BY <1>4 DEF GcNext
  <2>2. ToMove(cur[1]) \subseteq AllRecs
    BY DEF ToMove
  <2>3. a \in ToMove(cur[1]) /\ \A b \in ToMove(cur[1]) \ {a} : Before(a, b)
    BY <1>4, <2>1, <2>2, FirstIn
  <2> QED
    BY <1>3, <2>1, <2>2, <2>3 DEF ToMove
<1>6. Clean'
  BY <1>1, <1>2, <1>3 DEF Clean, Same, SameAt
<1>7. OldState'
  BY <1>0, <1>1, <1>2, <1>5 DEF OldState, Same, SameAt, Old
<1>8. Unique'
  BY <1>1, <1>2 DEF Unique, Same, SameAt
<1>9. Cached'
  <2>1. \A k \in Keys : \A b \in CacheHits(k)' : At(b)'.st # "DELETED"
    BY <1>0, <1>1, HitsKept
  <2> QED
    BY <1>0, <1>2, <2>1 DEF Cached
<1>10. Collected'
  <2>1. ASSUME NEW b \in AllRecs, b[1] = a[1], b[2] < a[2] PROVE At(b).st = "DELETED"
    <3>1. /\ b[2] \in Nat /\ a[2] \in Nat /\ b = <<b[1], b[2]>> /\ a = <<a[1], a[2]>>
          /\ b[1] \in Nat
      BY <1>5, Addresses
    <3>2. cur[2] \in Nat
      BY DEF Types, Addrs
    <3>3. CASE b[2] > cur[2]
      <4>1. ~Before(a, b) /\ b # a
        BY <2>1, <3>1 DEF Before
      <4>2. b \notin ToMove(cur[1])
        BY <1>5, <4>1
      <4> QED
        BY <1>3, <1>5, <2>1, <3>3, <4>2 DEF ToMove
    <3>4. CASE ~(b[2] > cur[2])
      BY <1>0, <1>5, <2>1, <3>1, <3>2, <3>4 DEF Collected, Moved
    <3> QED
      BY <3>3, <3>4
  <2>2. sec[cur[1]].dirty = "GC"
    BY <1>0 DEF Collected
  <2> QED
    BY <1>0, <1>1, <1>5, <2>1, <2>2 DEF Collected, Moved, Same, SameAt, Writing
<1>11. Still'
  BY <1>0 DEF Still
<1>12. Wiped'
  <2>1. op.kind = "default" => gcRet = "alloc" \/ gcRet = "return"
    BY <1>0 DEF Control, Requested, Returns, Jobs, Replacing, NoReq, Types
  <2>2. op.kind # "default"
    BY <1>0, <1>2, <1>5, <2>1 DEF Wiped
  <2> QED
    BY <1>0, <2>2 DEF Wiped
<1> QED
  BY <1>6, <1>7, <1>8, <1>9, <1>10, <1>11, <1>12, <1>1, SameKept

(* One record's status changes.                                             *)
LEMMA Marked ==
    ASSUME FlashOK, NEW a \in AllRecs, NEW st \in Statuses, SetStatus(a, st)
    PROVE /\ AllRecs' = AllRecs /\ \A b \in AllRecs : b # a => SameAt(b)
          /\ At(a)'.st = Later(At(a).st, st) /\ At(a)'.crcOk = At(a).crcOk
          /\ At(a)'.key = At(a).key /\ At(a)'.val = At(a).val
          /\ FlashAddr(a)' = FlashAddr(a)
          /\ \A s \in Sectors : sec'[s].dirty = sec[s].dirty
                                /\ Len(sec'[s].recs) = Len(sec[s].recs)
<1>1. /\ AllRecs' = AllRecs
      /\ \A s \in Sectors :
            /\ sec'[s].dirty = sec[s].dirty /\ Len(sec'[s].recs) = Len(sec[s].recs)
            /\ \A i \in DOMAIN sec[s].recs : sec'[s].recs[i] =
                  IF <<s, i>> = a THEN [sec[s].recs[i] EXCEPT !.st = Later(@, st)]
                  ELSE sec[s].recs[i]
  BY StatusEffect
<1>2. ASSUME NEW b \in AllRecs, b # a PROVE SameAt(b)
  <2>1. b = <<b[1], b[2]>> /\ b[1] \in Sectors /\ b[2] \in DOMAIN sec[b[1]].recs
    BY Addresses
  <2>2. At(b)' = At(b)
    BY <1>1, <1>2, <2>1 DEF At
  <2> QED
    BY <2>2, AddrSame DEF SameAt
<1>3. /\ a = <<a[1], a[2]>> /\ a[1] \in Sectors /\ a[2] \in DOMAIN sec[a[1]].recs
      /\ At(a) \in Records /\ At(a) = sec[a[1]].recs[a[2]]
  BY Addresses
<1>4. At(a)' = [At(a) EXCEPT !.st = Later(At(a).st, st)]
  BY <1>1, <1>3 DEF At
<1>5. At(a).st \in Statuses
  BY <1>3 DEF Records
<1>6. Later(At(a).st, st) \in Statuses
  BY <1>5, Ranks
<1>7. /\ At(a)'.st = Later(At(a).st, st) /\ At(a)'.crcOk = At(a).crcOk
      /\ At(a)'.key = At(a).key /\ At(a)'.val = At(a).val /\ At(a)'.start = At(a).start
  BY <1>3, <1>4, <1>6, Statused
<1> QED
  BY <1>1, <1>2, <1>7, AddrSame

(* The old record is marked PRE_DELETE: its key has no written record.      *)
LEMMA SteadyPreDelete ==
    ASSUME CInv, Steady, PreDelete PROVE Steady'
<1> USE DEF Steady, CInv, TypeOK
<1>0. /\ UNCHANGED <<cache, old, cur, op, job, gcRet, target>>
      /\ pc = "preDelete" /\ pc' = "preDirty"
      /\ Valid(Old) /\ job # "recover"
  BY DEF PreDelete, place, call, Go, Pointers, Replacing, Control, Jobs
<1>1. PICK o \in AllRecs : o = Old
  BY <1>0 DEF Valid
<1>2. At(o).st = "WRITE" /\ ~Window /\ ~Making /\ ~Replaced
  BY <1>0, <1>1 DEF OldState, Window, Making, Writing, Replaced
<1>3. /\ AllRecs' = AllRecs /\ \A b \in AllRecs : b # o => SameAt(b)
      /\ At(o)'.st = "PRE_DELETE" /\ At(o)'.crcOk = At(o).crcOk
      /\ At(o)'.key = At(o).key /\ At(o)'.val = At(o).val
      /\ FlashAddr(o)' = FlashAddr(o)
      /\ \A s \in Sectors : sec'[s].dirty = sec[s].dirty
  BY <1>1, <1>2, Marked, Ranks DEF PreDelete, Statuses
<1>4. NewKey' = NewKey /\ Old' = o /\ NewKey = At(o).key
  <2>1. job = "call" \/ cur \in AllRecs
    BY <1>0, <1>1 DEF Old
  <2>2. \A a \in AllRecs : At(a)'.key = At(a).key /\ At(a)'.val = At(a).val
    BY <1>3 DEF SameAt
  <2>3. NewKey' = NewKey
    BY <1>0, <2>1, <2>2, NewSame
  <2>4. NewKey = At(o).key
    <3>1. job = "call" => old = o /\ At(old).key = op.key
      BY <1>0, <1>1, Addresses DEF Old, Pointers, Replacing
    <3> QED
      BY <1>1, <3>1 DEF NewKey, Old
  <2> QED
    BY <1>0, <1>1, <2>3, <2>4 DEF Old
<1>5. Window' /\ ~Making' /\ ~Replaced'
  BY <1>0 DEF Window, Making, Replaced
<1>6. Clean'
  BY <1>2, <1>3, <1>4, <1>5 DEF Clean, SameAt
<1>7. OldState'
  BY <1>0, <1>3, <1>4, <1>5 DEF OldState
<1>8. Unique'
  BY <1>2, <1>3, <1>4 DEF Unique, SameAt
<1>9. Cached'
  BY <1>0, <1>1, <1>3, <1>4, <1>5 DEF Cached, CacheHits, SameAt
<1>10. Collected'
  BY <1>0, <1>2, <1>3 DEF Collected, Moved, SameAt, Writing, Pointers
<1>11. Still'
  BY <1>0 DEF Still
<1>12. Wiped'
  <2>1. op.kind = "default" => gcRet = "alloc" \/ gcRet = "return"
    BY <1>0 DEF Control, Requested, Returns, Jobs, Replacing, NoReq, Types
  <2>2. op.kind # "default"
    BY <1>0, <1>1, <1>2, <2>1 DEF Wiped
  <2> QED
    BY <1>0, <2>2 DEF Wiped
<1> QED
  BY <1>6, <1>7, <1>8, <1>9, <1>10, <1>11, <1>12

(* It is deleted: the new one took its place, or the call removes the key.  *)
LEMMA SteadyDelete ==
    ASSUME CInv, Steady, Delete PROVE Steady'
<1> USE DEF Steady, CInv, TypeOK
<1>0. /\ UNCHANGED <<old, cur, op, job, gcRet, target>> /\ pc = "delete" /\ pc' = "dirty"
      /\ Valid(Old) /\ job # "recover"
  BY DEF Delete, place, call, Go, Pointers, Replacing, Still
<1>1. PICK o \in AllRecs : o = Old
  BY <1>0 DEF Valid
<1>2. /\ Removing => At(o).st = "WRITE"
      /\ ~Removing => At(o).st = "PRE_DELETE"
      /\ ~Window /\ ~Making
  BY <1>0, <1>1 DEF OldState, Window, Making, Writing, Replaced
<1>3. /\ AllRecs' = AllRecs /\ \A b \in AllRecs : b # o => SameAt(b)
      /\ At(o)'.st = "DELETED" /\ At(o)'.crcOk = At(o).crcOk
      /\ At(o)'.key = At(o).key /\ At(o)'.val = At(o).val
      /\ FlashAddr(o)' = FlashAddr(o)
      /\ \A s \in Sectors : sec'[s].dirty = sec[s].dirty
  BY <1>1, <1>2, Marked, Ranks DEF Delete, Statuses
<1>4. /\ Old' = o /\ At(o).key \in Keys
      /\ job = "call" => At(o).key = op.key
      /\ NewKey = At(o).key
  <2>1. job = "call" => old = o /\ At(old).key = op.key
    BY <1>0, <1>1, Addresses DEF Old, Pointers, Replacing
  <2>2. At(o) \in Records /\ At(o).key # NoKey
    BY <1>0, <1>1, Addresses DEF Valid
  <2> QED
    BY <1>0, <1>1, <2>1, <2>2, SizeOf DEF Old, NewKey
<1>5. ~Window' /\ ~Making' /\ ~Replaced'
  BY <1>0 DEF Window, Writing, Making, Replaced
<1>6. Clean'
  BY <1>1, <1>2, <1>3, <1>5 DEF Clean, SameAt
<1>7. OldState'
  BY <1>0, <1>3, <1>4, <1>5 DEF OldState
<1>8. Unique'
  BY <1>3, <1>5 DEF Unique, SameAt
<1>9. Cached'
  <2>1. ASSUME NEW k \in Keys, NEW a \in CacheHits(k)' PROVE At(a)'.st # "DELETED"
    <3>1. a \in AllRecs /\ At(a).key = k /\ FlashAddr(a) = cache'[k] /\ FlashAddr(a) # NoAddr
      <4>1. a \in AllRecs /\ At(a)'.key = k /\ FlashAddr(a)' = cache'[k]
        BY <1>3 DEF CacheHits
      <4> QED
        BY <1>3, <4>1, AddrIn DEF SameAt
    <3>2. cache'[k] = cache[k] \/ cache'[k] = NoAddr
      BY DEF Delete, Types
    <3>3. a \in CacheHits(k) /\ cache'[k] = cache[k]
      BY <3>1, <3>2 DEF CacheHits
    <3>4. CASE a # o
      BY <1>3, <3>1, <3>3, <3>4 DEF Cached, SameAt
    <3>5. CASE a = o /\ Removing
      <4>1. ~lastComplete
        BY <1>2, <3>5 DEF Cached, Replaced
      <4>2. k = op.key
        BY <1>4, <3>1, <3>5 DEF Removing
      <4>3. cache' = [cache EXCEPT ![op.key] = NoAddr]
        BY <3>5, <4>1 DEF Delete, Removing
      <4> QED
        BY <3>1, <4>2, <4>3 DEF Types
    <3>6. CASE a = o /\ ~Removing
      <4>1. PICK n \in AllRecs : n = New
        BY <1>0, <3>6 DEF OldState, Replaced
      <4>2. At(n).st = "WRITE" /\ cache[NewKey] = FlashAddr(n)
        BY <1>0, <3>6, <4>1 DEF OldState, Replaced
      <4>3. FlashAddr(o) = FlashAddr(n)
        BY <1>4, <3>1, <3>3, <3>6, <4>2
      <4>4. o = n
        BY <4>3, CleanApart
      <4> QED
        BY <1>2, <3>6, <4>2, <4>4
    <3> QED
      BY <3>4, <3>5, <3>6
  <2> QED
    BY <2>1 DEF Cached, Delete
<1>10. Collected'
  BY <1>0, <1>2, <1>3 DEF Collected, Moved, SameAt, Writing, Pointers
<1>11. Still'
  BY <1>0 DEF Still
<1>12. Wiped'
  <2>1. op.kind = "default" => gcRet = "alloc" \/ gcRet = "return"
    BY <1>0 DEF Control, Requested, Returns, Jobs, Replacing, NoReq, Types
  <2>2. op.kind # "default"
    BY <1>0, <1>1, <1>2, <2>1 DEF Wiped
  <2> QED
    BY <1>0, <2>2 DEF Wiped
<1> QED
  BY <1>6, <1>7, <1>8, <1>9, <1>10, <1>11, <1>12

(* The new record is written.                                               *)
LEMMA SteadyCommit ==
    ASSUME CInv, Steady, Commit PROVE Steady'
<1> USE DEF Steady, CInv, TypeOK
<1>0. /\ UNCHANGED <<lastComplete, old, cur, op, job, gcRet, target>> /\ pc = "commit"
      /\ pc' = IF Old = NoAddr THEN "finish" ELSE "delete"
      /\ job # "recover" /\ Making /\ Window /\ ~Replaced
  BY DEF Commit, place, call, Go, Still, Making, Window, Writing, Replaced
<1>1. PICK n \in AllRecs : n = New
  BY <1>0, NewIn
<1>2. /\ At(n).st = "PRE_WRITE" /\ At(n).key = NewKey /\ At(n).val = NewVal /\ At(n).crcOk
      /\ target \in Sectors
  BY <1>0, <1>1, NewIn DEF Clean
<1>3. /\ AllRecs' = AllRecs /\ \A b \in AllRecs : b # n => SameAt(b)
      /\ At(n)'.st = "WRITE" /\ At(n)'.crcOk = At(n).crcOk
      /\ At(n)'.key = At(n).key /\ At(n)'.val = At(n).val
      /\ FlashAddr(n)' = FlashAddr(n)
      /\ \A s \in Sectors : sec'[s].dirty = sec[s].dirty /\ Len(sec'[s].recs) = Len(sec[s].recs)
  <2>1. SetStatus(n, "WRITE")
    BY <1>1 DEF Commit, New
  <2>2. Later(At(n).st, "WRITE") = "WRITE"
    BY <1>2, Ranks
  <2>3. "WRITE" \in Statuses
    BY DEF Statuses
  <2> HIDE DEF CInv, Steady
  <2>4. FlashOK
    BY DEF CInv
  <2> QED
    BY <2>1, <2>2, <2>3, <2>4, Marked
<1>4. New' = n
  BY <1>0, <1>1, <1>2, <1>3 DEF New, LastOf
<1>5. NewKey \in Keys
  BY <1>0, NewKeyIn DEF Writing
<1>6. /\ Old' = Old /\ NewKey' = NewKey /\ NewVal' = NewVal
      /\ Old = NoAddr \/ Old \in AllRecs
      /\ Old # n /\ NoAddr \notin AllRecs
      /\ job = "gc" => Old \in AllRecs
  <2>1. Old = NoAddr \/ Valid(Old)
    BY <1>0 DEF Pointers, Writing
  <2>2. job = "call" \/ Valid(cur)
    BY <1>0 DEF Pointers, Writing
  <2>3. \A a \in AllRecs : At(a)'.key = At(a).key /\ At(a)'.val = At(a).val
    BY <1>3 DEF SameAt
  <2>4. NewKey' = NewKey /\ NewVal' = NewVal
    BY <1>0, <2>2, <2>3, NewSame DEF Valid
  <2> QED
    BY <1>0, <1>1, <2>1, <2>2, <2>4, Addresses DEF Valid, Old, Pointers
<1>7. PICK fa : fa = FlashAddr(n) /\ fa \in Addrs
  BY <1>1, AddrIn
<1>8. /\ cache'[NewKey] = fa
      /\ \A j \in Keys \ {NewKey} : cache'[j] = cache[j] \/ cache'[j] = NoAddr
  <2>1. cache' \in CacheWith(NewKey, fa)
    BY <1>1, <1>7 DEF Commit, New
  <2> QED
    BY <1>5, <1>7, <2>1, CacheIn DEF Types
<1>9. ~Window' /\ ~Making'
  BY <1>0 DEF Window, Writing, Making
<1>10. Replaced' => Old \in AllRecs
  BY <1>0, <1>6 DEF Replaced
<1>11. Removing => FALSE
  BY <1>0 DEF Removing, Control, Requested, Writing
<1>12. pc' = "delete" => Replaced'
  BY <1>0, <1>11 DEF Removing, Replaced
<1>13. Clean'
  <2>1. \A a \in AllRecs : At(a)'.crcOk /\ At(a)'.st \in {"WRITE", "PRE_DELETE", "DELETED"}
    BY <1>1, <1>2, <1>3 DEF Clean, SameAt
  <2>2. ASSUME NEW a \in AllRecs, At(a)'.st = "PRE_DELETE" PROVE a = Old /\ Replaced'
    <3>1. a # n /\ At(a).st = "PRE_DELETE"
      BY <1>3, <2>2 DEF SameAt
    <3>2. a = Old
      BY <3>1 DEF Clean
    <3> QED
      BY <1>0, <1>6, <1>12, <3>2
  <2> QED
    BY <1>3, <1>6, <1>9, <2>1, <2>2 DEF Clean
<1>14. OldState'
  <2>1. \A a \in AllRecs : a = Old => At(a)'.st = "PRE_DELETE"
    BY <1>0, <1>1, <1>3, <1>6 DEF OldState, SameAt
  <2>2. \A a \in AllRecs : a = n => FlashAddr(a)' = fa
    BY <1>3, <1>7
  <2> QED
    BY <1>0, <1>2, <1>3, <1>4, <1>6, <1>8, <1>9, <1>12, <2>1, <2>2 DEF OldState, Replaced
<1>15. Unique'
  BY <1>0, <1>1, <1>2, <1>3, <1>9 DEF Unique, SameAt
<1>16. Cached'
  <2>1. ASSUME NEW k \in Keys, NEW a \in CacheHits(k)' PROVE At(a)'.st # "DELETED"
    <3>1. a \in AllRecs /\ At(a).key = k /\ FlashAddr(a) = cache'[k] /\ FlashAddr(a) # NoAddr
      <4>1. a \in AllRecs /\ At(a)'.key = k /\ FlashAddr(a)' = cache'[k]
        BY <1>3 DEF CacheHits
      <4> QED
        BY <1>3, <4>1, AddrIn DEF SameAt
    <3>2. CASE k = NewKey
      <4>1. a = n
        BY <1>7, <1>8, <3>1, <3>2, CleanApart
      <4> QED
        BY <1>3, <4>1
    <3>3. CASE k # NewKey
      <4>1. a \in CacheHits(k) /\ a # n
        BY <1>2, <1>8, <3>1, <3>3 DEF CacheHits
      <4> QED
        BY <1>3, <3>1, <4>1 DEF Cached, SameAt
    <3> QED
      BY <3>2, <3>3
  <2>2. lastComplete => Replaced'
    BY <1>0, <1>6, <1>12 DEF Cached
  <2> QED
    BY <1>0, <2>1, <2>2 DEF Cached
<1>17. Collected'
  <2>1. ASSUME job = "gc" PROVE pc' = "delete" /\ target # cur[1] /\ cur[1] \in Sectors
                                /\ sec[cur[1]].dirty = "GC"
    BY <1>0, <1>6, <2>1 DEF Collected, Writing, Pointers
  <2>2. ASSUME job = "gc", NEW a \in AllRecs, a[1] = cur[1], a[2] < cur[2]
        PROVE At(a)'.st = "DELETED"
    <3>1. At(a).st = "DELETED"
      BY <1>0, <2>2 DEF Collected, Moved
    <3> QED
      BY <1>2, <1>3, <3>1 DEF SameAt
  <2> QED
    BY <1>0, <1>3, <2>1, <2>2 DEF Collected, Moved
<1>18. Still'
  BY <1>0 DEF Still
<1>19. Wiped'
  <2>1. op.kind = "default" => /\ gcRet # "return"
                               /\ \A a \in AllRecs : a = n
    BY <1>0, <1>1 DEF Wiped, Writing
  <2>2. op.kind = "default" => Old = NoAddr
    BY <1>6, <2>1
  <2> QED
    BY <1>0, <2>1, <2>2 DEF Wiped
<1> QED
  BY <1>13, <1>14, <1>15, <1>16, <1>17, <1>18, <1>19

(* A sector is erased: nothing stored is in it.                             *)
LEMMA SteadyErase ==
    ASSUME CInv, Steady, Erase PROVE Steady'
<1> USE DEF Steady, CInv, TypeOK
<1>0. /\ UNCHANGED <<cache, lastComplete, old, cur, op, job, gcRet, target>>
      /\ pc = "erase" /\ pc' = "format" /\ job # "recover"
  BY DEF Erase, ram, place, call, Go, Still
<1>1. PICK s \in Sectors : s = cur[1]
  BY <1>0 DEF Pointers, Types
<1>2. /\ AllRecs' = {a \in AllRecs : a[1] # s} /\ \A a \in AllRecs' : At(a)' = At(a)
  <2>1. sec' = [sec EXCEPT ![s] = Blank]
    BY <1>1 DEF Erase
  <2> QED
    BY <2>1, SectorEmptied
<1>3. \A a \in AllRecs' : SameAt(a) /\ a \in AllRecs
  BY <1>2, AddrSame DEF SameAt
<1>4. ~Window /\ ~Making /\ ~Replaced /\ ~Window' /\ ~Making' /\ ~Replaced'
  BY <1>0 DEF Window, Writing, Making, Replaced
<1>5. Clean'
  BY <1>3, <1>4 DEF Clean, SameAt
<1>6. OldState'
  BY <1>0, <1>4 DEF OldState
<1>7. Unique'
  BY <1>3, <1>4 DEF Unique, SameAt
<1>8. Cached'
  BY <1>0, <1>3, <1>4 DEF Cached, CacheHits, SameAt
<1>9. Collected'
  BY <1>0, <1>1, <1>2 DEF Collected, Writing
<1>10. Still'
  BY <1>0 DEF Still
<1>11. Wiped'
  BY <1>0, <1>1, <1>2, <1>4 DEF Wiped, Writing
<1> QED
  BY <1>5, <1>6, <1>7, <1>8, <1>9, <1>10, <1>11

(* A record of no key is appended.                                          *)
LEMMA SteadyPreWrite ==
    ASSUME CInv, CInv', Steady, PreWrite PROVE Steady' /\ HeldKept
<1> USE DEF Steady, CInv, TypeOK
<1>0. /\ UNCHANGED <<cache, lastComplete, old, cur, op, job, gcRet, target>>
      /\ pc = "preWrite" /\ pc' = "header" /\ job # "recover" /\ target \in InUse
  BY DEF PreWrite, ram, place, call, Go, Still, Flash
<1>1. PICK n : n = New'
  OBVIOUS
<1>2. /\ \A a \in AllRecs : a \in AllRecs' /\ At(a)' = At(a) /\ a # n
      /\ n \in AllRecs' /\ n[1] = target
      /\ \A a \in AllRecs' : a \in AllRecs \/ a = n
      /\ \A s \in Sectors : sec'[s].dirty = sec[s].dirty
      /\ At(n)' = Started(EndOf(sec[target].recs))
  <2>1. /\ \A a \in AllRecs : a \in AllRecs' /\ At(a)' = At(a) /\ a # New'
        /\ New' \in AllRecs' /\ New' = <<target, Len(sec[target].recs) + 1>>
        /\ \A a \in AllRecs' : a \in AllRecs \/ a = New'
        /\ \A s \in Sectors : sec'[s].dirty = sec[s].dirty
        /\ At(New)' = Started(EndOf(sec[target].recs))
    BY <1>0, Begun
  <2> QED
    BY <1>1, <2>1 DEF At
<1>3. \A a \in AllRecs : SameAt(a)
  BY <1>2, AddrSame DEF SameAt
<1>4. At(n)'.st = "PRE_WRITE" /\ At(n)'.crcOk = FALSE /\ At(n)'.key = NoKey
  BY <1>2 DEF Started
<1>5. /\ Window /\ Window' /\ ~Making /\ Making' /\ ~Replaced /\ ~Replaced'
  BY <1>0 DEF Window, Writing, Making, Replaced
<1>6. /\ NewKey' = NewKey /\ Old' = Old
  <2>1. job = "call" \/ cur \in AllRecs
    BY <1>0 DEF Pointers, Writing, Valid
  <2> QED
    BY <1>0, <1>2, <2>1, NewSame DEF Old
<1>7. Clean'
  BY <1>0, <1>1, <1>2, <1>3, <1>4, <1>5, <1>6 DEF Clean, SameAt
<1>8. OldState'
  <2>1. Old # n
    BY <1>1, <1>5, <1>6 DEF Pointers
  <2> QED
    BY <1>0, <1>2, <1>3, <1>5, <1>6, <2>1 DEF OldState, SameAt
<1>9. Unique'
  BY <1>2, <1>3, <1>4, <1>5, <1>6 DEF Unique, SameAt
<1>10. Cached'
  <2>1. \A k \in Keys : \A a \in CacheHits(k)' : a # n
    BY <1>4, Constants DEF CacheHits
  <2>2. \A k \in Keys : \A a \in CacheHits(k)' : a \in CacheHits(k)
    BY <1>0, <1>2, <1>3, <2>1 DEF CacheHits, SameAt
  <2>3. \A k \in Keys : \A a \in CacheHits(k) : a \in AllRecs
    BY DEF CacheHits
  <2> QED
    BY <1>0, <1>2, <1>3, <1>5, <1>6, <2>2, <2>3 DEF Cached, SameAt
<1>11. Collected'
  <2>1. job = "gc" => target # cur[1] /\ cur[1] \in Sectors
    BY <1>0 DEF Collected, Writing, Pointers
  <2> QED
    BY <1>0, <1>2, <1>3, <2>1 DEF Collected, Moved, SameAt, Writing
<1>12. Still'
  BY <1>0 DEF Still
<1>13. Wiped'
  <2>1. op.kind = "default" => gcRet # "return" /\ AllRecs = {}
    BY <1>0, <1>5 DEF Wiped, Writing
  <2> QED
    BY <1>0, <1>1, <1>2, <1>5, <2>1 DEF Wiped
<1>14. HeldKept
  BY <1>2, <1>3, <1>4 DEF HeldKept, Held, SameAt
<1> QED
  BY <1>7, <1>8, <1>9, <1>10, <1>11, <1>12, <1>13, <1>14

(* Its data completes it, before it is committed.                           *)
LEMMA Bodied ==
    ASSUME FlashOK, Flash, WriteBody, Making, target' = target
    PROVE /\ AllRecs' = AllRecs /\ New' = New
          /\ \A s \in Sectors : sec'[s].dirty = sec[s].dirty
          /\ \A a \in AllRecs : At(a)' = IF a = New THEN [At(a) EXCEPT !.crcOk = TRUE] ELSE At(a)
<1> DEFINE n == Len(sec[target].recs)
           r == [At(New) EXCEPT !.crcOk = TRUE]
<1>1. /\ target \in InUse /\ target \in Sectors /\ sec[target].recs # <<>>
      /\ New \in AllRecs /\ New = <<target, n>>
      /\ At(New) = sec[target].recs[n] /\ At(New) \in Records /\ n \in DOMAIN sec[target].recs
  BY NewIn
<1>2. r \in Records
  <2>1. At(New).key # NoKey
    BY DEF WriteBody, Go, Flash
  <2> QED
    BY <1>1, <2>1 DEF Records
<1>3. sec' = [sec EXCEPT ![target].recs[n] = r]
  BY <1>1 DEF WriteBody
<1>4. /\ Others(target) /\ InUse' = InUse
      /\ Len(sec'[target].recs) = n /\ DOMAIN sec'[target].recs = DOMAIN sec[target].recs
      /\ \A i \in DOMAIN sec[target].recs :
            sec'[target].recs[i] = IF i = n THEN r ELSE sec[target].recs[i]
      /\ sec'[target].dirty = sec[target].dirty
  <2> HIDE DEF r
  <2> QED
    BY <1>1, <1>2, <1>3, LastSet
<1>5. \A s \in Sectors : DOMAIN sec'[s].recs = DOMAIN sec[s].recs /\ sec'[s].dirty = sec[s].dirty
  BY <1>4 DEF Others
<1>6. AllRecs' = AllRecs
  BY <1>4, <1>5 DEF AllRecs, InUse
<1>7. New' = New
  BY <1>4 DEF New, LastOf
<1>8. ASSUME NEW a \in AllRecs PROVE At(a)' = IF a = New THEN r ELSE At(a)
  <2>1. /\ a = <<a[1], a[2]>> /\ a[1] \in InUse /\ a[1] \in Sectors
        /\ a[2] \in DOMAIN sec[a[1]].recs
    BY Addresses
  <2>2. CASE a[1] = target
    <3>1. At(a)' = IF a[2] = n THEN r ELSE sec[target].recs[a[2]]
      BY <1>4, <2>1, <2>2 DEF At
    <3>2. a = New <=> a[2] = n
      BY <1>1, <2>1, <2>2
    <3>3. At(a) = sec[target].recs[a[2]]
      BY <2>2 DEF At
    <3> HIDE DEF r
    <3> QED
      BY <3>1, <3>2, <3>3
  <2>3. CASE a[1] # target
    BY <1>1, <1>4, <2>1, <2>3 DEF At, Others
  <2> QED
    BY <2>2, <2>3
<1> QED
  BY <1>5, <1>6, <1>7, <1>8

(* Header and data of the new record.                                       *)
LEMMA SteadyFills ==
    ASSUME CInv, CInv', Steady, WriteHeader \/ WriteBody PROVE Steady' /\ HeldKept
<1> USE DEF Steady, CInv, TypeOK
<1>0. /\ UNCHANGED <<cache, lastComplete, old, cur, op, job, gcRet, target>>
      /\ \/ WriteHeader /\ pc = "header" /\ pc' = "body"
         \/ WriteBody /\ pc = "body" /\ pc' = "commit"
      /\ job # "recover" /\ Making
  BY DEF WriteHeader, WriteBody, ram, place, call, Go, Still, Making
<1>1. PICK n \in AllRecs : n = New
  BY <1>0, NewIn
<1>2. /\ Window /\ Window' /\ Making' /\ ~Replaced /\ ~Replaced'
  BY <1>0 DEF Window, Writing, Making, Replaced
<1>3. At(n) \in Records /\ NewKey \in Keys /\ NewVal \in Vals
  BY <1>0, <1>1, NewIn, NewKeyIn DEF Writing
<1>4. /\ AllRecs' = AllRecs /\ New' = n
      /\ \A a \in AllRecs : a # n => At(a)' = At(a)
      /\ At(n)'.st = At(n).st /\ At(n)'.start = At(n).start
      /\ \A s \in Sectors : sec'[s].dirty = sec[s].dirty
      /\ WriteHeader => At(n)'.crcOk = At(n).crcOk /\ At(n)'.key = NewKey /\ At(n)'.val = NewVal
      /\ WriteBody => At(n)'.crcOk = TRUE /\ At(n)'.key = At(n).key /\ At(n)'.val = At(n).val
  <2>1. CASE WriteHeader
    <3>1. pc = "header"
      BY <2>1 DEF WriteHeader, Go
    <3>2. /\ AllRecs' = AllRecs /\ New' = New
          /\ \A s \in Sectors : sec'[s].dirty = sec[s].dirty
          /\ \A a \in AllRecs : At(a)' =
                IF a = New THEN [At(a) EXCEPT !.key = NewKey, !.val = NewVal] ELSE At(a)
      BY <1>0, <1>3, <2>1, <3>1, Headed
    <3>3. At(n)' = [At(n) EXCEPT !.key = NewKey, !.val = NewVal]
      BY <1>1, <3>2
    <3>4. ~WriteBody
      BY <3>1 DEF WriteBody, Go
    <3>5. \A a \in AllRecs : a # n => At(a)' = At(a)
      BY <1>1, <3>2
    <3>6. /\ At(n)'.st = At(n).st /\ At(n)'.start = At(n).start /\ At(n)'.crcOk = At(n).crcOk
          /\ At(n)'.key = NewKey /\ At(n)'.val = NewVal
      <4> HIDE DEF NewKey, NewVal
      <4> QED
        BY <1>3, <3>3 DEF Records
    <3> QED
      BY <1>1, <3>2, <3>4, <3>5, <3>6
  <2>2. CASE WriteBody
    <3>1. pc = "body"
      BY <2>2 DEF WriteBody, Go
    <3>2. /\ AllRecs' = AllRecs /\ New' = New
          /\ \A s \in Sectors : sec'[s].dirty = sec[s].dirty
          /\ \A a \in AllRecs : At(a)' = IF a = New THEN [At(a) EXCEPT !.crcOk = TRUE] ELSE At(a)
      BY <1>0, <2>2, Bodied
    <3>3. At(n)' = [At(n) EXCEPT !.crcOk = TRUE]
      BY <1>1, <3>2
    <3>4. ~WriteHeader
      BY <3>1 DEF WriteHeader, Go
    <3>5. \A a \in AllRecs : a # n => At(a)' = At(a)
      BY <1>1, <3>2
    <3>6. /\ At(n)'.st = At(n).st /\ At(n)'.start = At(n).start /\ At(n)'.crcOk = TRUE
          /\ At(n)'.key = At(n).key /\ At(n)'.val = At(n).val
      BY <1>3, <3>3 DEF Records
    <3> QED
      BY <1>1, <3>2, <3>4, <3>5, <3>6
  <2> QED
    BY <1>0, <2>1, <2>2
<1>5. \A a \in AllRecs : (a # n => SameAt(a)) /\ FlashAddr(a)' = FlashAddr(a)
  <2>1. \A a \in AllRecs : At(a)'.start = At(a).start
    BY <1>4
  <2> QED
    BY <1>4, <2>1, AddrSame DEF SameAt
<1>6. /\ Old' = Old /\ Old # n /\ NewKey' = NewKey /\ NewVal' = NewVal
  <2>1. Old' = Old /\ Old # n
    BY <1>0, <1>1 DEF Old, Pointers
  <2>2. job = "call" \/ (cur \in AllRecs /\ cur # n)
    BY <1>0, <2>1 DEF Pointers, Writing, Valid, Old
  <2>3. job # "call" => At(cur)' = At(cur)
    <3>1. PICK c : c = cur
      OBVIOUS
    <3>2. job # "call" => At(c)' = At(c)
      BY <1>4, <2>2, <3>1
    <3> QED
      BY <1>0, <3>1, <3>2 DEF At
  <2> QED
    BY <1>0, <2>1, <2>3 DEF NewKey, NewVal, At
<1>7. At(n).st = "PRE_WRITE" /\ (At(n).crcOk <=> pc = "commit")
      /\ (pc # "header" => At(n).key = NewKey /\ At(n).val = NewVal)
  BY <1>0, <1>1 DEF Clean
<1>8. Clean'
  <2>1. \A a \in AllRecs : a # n =>
           /\ At(a).crcOk /\ At(a).st \in {"WRITE", "PRE_DELETE", "DELETED"}
           /\ At(a).st = "PRE_DELETE" => a = Old
    BY <1>1 DEF Clean
  <2> QED
    BY <1>0, <1>2, <1>4, <1>6, <1>7, <2>1 DEF Clean
<1>9. OldState'
  BY <1>0, <1>2, <1>4, <1>6 DEF OldState
<1>10. Unique'
  BY <1>2, <1>4, <1>6, <1>7 DEF Unique
<1>11. Cached'
  <2>1. ASSUME NEW k \in Keys, NEW a \in CacheHits(k)' PROVE At(a)'.st # "DELETED"
    <3>1. a \in AllRecs /\ At(a)'.key = k /\ FlashAddr(a) = cache[k]
      BY <1>0, <1>4, <1>5 DEF CacheHits
    <3>2. CASE a = n
      BY <1>4, <1>7, <3>2
    <3>3. CASE a # n
      BY <1>4, <3>1, <3>3 DEF CacheHits, Cached
    <3> QED
      BY <3>2, <3>3
  <2> QED
    BY <1>0, <1>2, <1>4, <1>6, <2>1 DEF Cached
<1>12. Collected'
  <2>1. job = "gc" => /\ target # cur[1] /\ cur[1] \in Sectors /\ sec[cur[1]].dirty = "GC"
                      /\ \A a \in AllRecs : a[1] = cur[1] /\ a[2] < cur[2] => At(a).st = "DELETED"
    BY <1>0 DEF Collected, Writing, Pointers, Moved
  <2> QED
    BY <1>0, <1>4, <1>7, <2>1 DEF Collected, Moved
<1>13. Still'
  BY <1>0 DEF Still
<1>14. Wiped'
  <2>1. op.kind = "default" => gcRet # "return" /\ \A a \in AllRecs : a = n
    BY <1>0, <1>1 DEF Wiped, Writing
  <2> QED
    BY <1>0, <1>2, <1>4, <2>1 DEF Wiped
<1>15. HeldKept
  BY <1>4, <1>7 DEF HeldKept, Held
<1> QED
  BY <1>8, <1>9, <1>10, <1>11, <1>12, <1>13, <1>14, <1>15

-----------------------------------------------------------------------------
(* Steady is inductive, without power failures and with room.               *)
LEMMA SteadyInit == Init => Steady
<1> SUFFICES ASSUME Init PROVE Steady
  OBVIOUS
<1>1. AllRecs = {}
  BY Emptied DEF Init, AllRecs, InUse
<1>2. pc = "checkHdr" /\ job = "call" /\ ~lastComplete /\ op = NoReq /\ gcRet = "idle"
  BY DEF Init
<1> QED
  BY <1>1, <1>2 DEF Steady, Clean, OldState, Unique, Cached, Collected, Wiped, Still, CacheHits,
     Replaced, Window, Writing

LEMMA SteadySteps ==
    ASSUME CInv, Steady, ~Stuck, ~Crash, [Next]_vars PROVE Steady'
<1>1. CInv'
  BY Steps
<1>2. CASE UNCHANGED vars
  <2>1. UNCHANGED <<sec, cache, lastComplete, target, old, cur, op, gcRet, pc, job>>
    BY <1>2 DEF vars, call, ram, place
  <2>2. /\ AllRecs' = AllRecs /\ \A a \in AllRecs : SameAt(a)
        /\ Old' = Old /\ New' = New /\ NewKey' = NewKey /\ NewVal' = NewVal
    BY <2>1 DEF SameAt, At, AllRecs, InUse, FlashAddr, Old, New, LastOf, NewKey, NewVal
  <2>3. UNCHANGED <<Making, Window, Removing, Replaced>>
    BY <2>1 DEF Making, Window, Removing, Replaced
  <2>4. Clean' /\ OldState' /\ Unique'
    BY <2>1, <2>2, <2>3 DEF Steady, Clean, OldState, Unique, SameAt
  <2>5. Cached'
    BY <2>1, <2>2, <2>3 DEF Steady, Cached, CacheHits, SameAt
  <2>6. Collected' /\ Wiped' /\ Still'
    BY <2>1, <2>2, <2>3 DEF Steady, Collected, Moved, Wiped, Still, SameAt
  <2> QED
    BY <2>4, <2>5, <2>6 DEF Steady
<1>3. CASE CallStep
  BY <1>3, SteadyCalls
<1>4. CASE SetStep
  BY <1>1, <1>4, SteadyLooks, SteadyRests, SteadySectors, SteadyPreDelete, SteadyDelete,
     SteadyDirty, SteadyPreWrite, SteadyFills, SteadyCommit DEF SetStep, Finish, Return, Go
<1>5. CASE GcStep
  <2>1. CASE GcNext
    BY <2>1, SteadyTakes, SteadyRests
  <2>2. CASE Erase
    BY <2>2, SteadyErase
  <2>3. CASE MoveAlloc
    BY <2>3, SteadySectors
  <2>4. CASE GcCollect \/ GcPick \/ GcDone \/ Format
    <3>1. pc' # "preDelete"
      BY <2>4 DEF GcCollect, GcPick, GcDone, Format, FormatNext, Go, CInv, TypeOK, Types
    <3> QED
      BY <2>4, <3>1, SteadyRests
  <2> QED
    BY <1>5, <2>1, <2>2, <2>3, <2>4 DEF GcStep
<1>6. CASE BootStep
  <2>1. pc' # "preDelete"
    BY <1>6 DEF BootStep, Wipe, CheckHdr, RecoverGc, RecoverNext, RecoverEnd, Go
  <2> QED
    BY <1>6, <2>1, SteadyRests DEF BootStep
<1> QED
  BY <1>2, <1>3, <1>4, <1>5, <1>6 DEF Next

(* While no power failure has happened and no collection is stuck.          *)
LEMMA SteadyInvariant == Spec /\ []Quiet => []Steady
<1>1. Init => Steady
  BY SteadyInit
<1>2. CInv /\ Steady /\ Quiet /\ Quiet' /\ [Next]_vars => Steady'
  BY SteadySteps DEF Quiet, Crash
<1> QED
  BY <1>1, <1>2, Invariant, PTL DEF Spec

-----------------------------------------------------------------------------
(* What is stored for a key, told from the one record it is read from.      *)
RetainedIs ==
    \A k \in Keys :
        /\ \A a \in AllRecs : At(a).st = "WRITE" /\ At(a).key = k => Retained(k) = At(a).val
        /\ (\A a \in AllRecs : At(a).st = "WRITE" => At(a).key # k)
              => /\ \A a \in AllRecs : At(a).st = "PRE_DELETE" /\ At(a).key = k
                       => Retained(k) = At(a).val
                 /\ (\A a \in Held : At(a).key # k) => Retained(k) = NoVal

(* Steady gives every key the one record it is read from.                   *)
LEMMA RetainedNow == CInv /\ Steady => RetainedIs
<1> SUFFICES ASSUME CInv, Steady, NEW k \in Keys
             PROVE
               /\ \A a \in AllRecs : At(a).st = "WRITE" /\ At(a).key = k => Retained(k) = At(a).val
               /\ (\A a \in AllRecs : At(a).st = "WRITE" => At(a).key # k)
                     => /\ \A a \in AllRecs : At(a).st = "PRE_DELETE" /\ At(a).key = k
                              => Retained(k) = At(a).val
                        /\ (\A a \in Held : At(a).key # k) => Retained(k) = NoVal
  BY DEF RetainedIs
<1>1. \A a \in Held : At(a).crcOk
  BY DEF Held, Steady, Clean
<1>2. Live(k, "WRITE") \subseteq AllRecs /\ Live(k, "PRE_DELETE") \subseteq AllRecs
  BY DEF Live
<1>3. ASSUME NEW a \in AllRecs, At(a).st = "WRITE", At(a).key = k PROVE Retained(k) = At(a).val
  <2>1. a \in Live(k, "WRITE")
    BY <1>1, <1>3 DEF Live, Held
  <2>2. PICK f : f = First(Live(k, "WRITE"))
    OBVIOUS
  <2>3. f \in Live(k, "WRITE")
    BY <1>2, <2>1, <2>2, FirstIn DEF CInv, TypeOK
  <2>4. f = a
    BY <1>3, <2>3 DEF Live, Steady, Unique
  <2> QED
    BY <2>1, <2>2, <2>4 DEF Retained
<1>4. ASSUME \A a \in AllRecs : At(a).st = "WRITE" => At(a).key # k
      PROVE Live(k, "WRITE") = {}
  BY <1>4 DEF Live
<1>5. ASSUME Live(k, "WRITE") = {}, NEW a \in AllRecs, At(a).st = "PRE_DELETE", At(a).key = k
      PROVE Retained(k) = At(a).val
  <2>1. a \in Live(k, "PRE_DELETE")
    BY <1>1, <1>5 DEF Live, Held
  <2>2. PICK f : f = First(Live(k, "PRE_DELETE"))
    OBVIOUS
  <2>3. f \in Live(k, "PRE_DELETE")
    BY <1>2, <2>1, <2>2, FirstIn DEF CInv, TypeOK
  <2>4. f = a
    BY <1>5, <2>3 DEF Live, Steady, Clean
  <2> QED
    BY <1>5, <2>1, <2>2, <2>4 DEF Retained
<1>6. ASSUME Live(k, "WRITE") = {}, \A a \in Held : At(a).key # k PROVE Retained(k) = NoVal
  <2>1. Live(k, "PRE_DELETE") = {}
    BY <1>6 DEF Live, Held
  <2> QED
    BY <1>6, <2>1 DEF Retained
<1> QED
  BY <1>3, <1>4, <1>5, <1>6

LEMMA RetainedNext == CInv' /\ Steady' => RetainedIs'
BY RetainedNow, PTL

(* A step that leaves the records of a key leaves what is stored for it.   *)
HeldOf(k) == {a \in Held : At(a).key = k}
KeyKept(k) == HeldOf(k)' = HeldOf(k) /\ \A a \in HeldOf(k) : At(a)' = At(a)

LEMMA KeyRetained ==
    ASSUME FlashOK, NEW k, KeyKept(k)
    PROVE Retained(k)' = Retained(k)
<1>1. \A a \in HeldOf(k) : a \in AllRecs /\ At(a)' = At(a) /\ a \in AllRecs'
  BY DEF KeyKept, HeldOf, Held
<1>2. ASSUME NEW st \in {"WRITE", "PRE_DELETE"}
      PROVE /\ Live(k, st)' = Live(k, st) /\ Live(k, st) \subseteq HeldOf(k)
            /\ Live(k, st) # {} => At(First(Live(k, st)))' = At(First(Live(k, st)))
  <2>1. Live(k, st) = {a \in HeldOf(k) : At(a).crcOk /\ At(a).st = st}
    BY DEF Live, HeldOf, Held
  <2>2. Live(k, st)' = {a \in HeldOf(k)' : At(a)'.crcOk /\ At(a)'.st = st}
    BY DEF Live, HeldOf, Held
  <2>3. Live(k, st)' = Live(k, st)
    BY <1>1, <2>1, <2>2 DEF KeyKept
  <2>4. ASSUME Live(k, st) # {} PROVE At(First(Live(k, st)))' = At(First(Live(k, st)))
    <3>1. PICK L : L = Live(k, st)
      OBVIOUS
    <3>2. PICK f : f = First(L)
      OBVIOUS
    <3>3. L # {} /\ L \subseteq AllRecs /\ L \subseteq HeldOf(k)
      BY <1>1, <2>1, <2>4, <3>1
    <3>4. f \in L
      BY <3>2, <3>3, FirstIn
    <3>5. At(f)' = At(f)
      BY <1>1, <3>3, <3>4
    <3>6. First(Live(k, st))' = f
      BY <2>3, <3>1, <3>2 DEF First, Before
    <3>7. At(First(Live(k, st)))' = At(f)'
      BY <3>6 DEF At
    <3> QED
      BY <3>1, <3>2, <3>5, <3>7
  <2> QED
    BY <2>1, <2>3, <2>4
<1>3. CASE Live(k, "WRITE") # {}
  BY <1>2, <1>3 DEF Retained
<1>4. CASE Live(k, "WRITE") = {} /\ Live(k, "PRE_DELETE") # {}
  BY <1>2, <1>4 DEF Retained
<1>5. CASE Live(k, "WRITE") = {} /\ Live(k, "PRE_DELETE") = {}
  BY <1>2, <1>5 DEF Retained
<1> QED
  BY <1>3, <1>4, <1>5

LEMMA KeptRetained ==
    ASSUME FlashOK, HeldKept, NEW k
    PROVE Retained(k)' = Retained(k)
<1>1. KeyKept(k)
  BY DEF HeldKept, KeyKept, HeldOf
<1> QED
  BY <1>1, KeyRetained

(* Between calls get finds what is stored.                                  *)
LEMMA Reads == CInv /\ Steady => ReadBack
<1> SUFFICES ASSUME CInv, Steady PROVE ReadBack
  OBVIOUS
<1>1. ASSUME pc = "idle", NEW k \in Keys PROVE Get(k) = Retained(k)
  <2>1. Outside /\ ~Window /\ ~Replaced
    BY <1>1 DEF Outside, Window, Writing, Replaced
  <2>2. PICK f : f = FindEnv(k)
    OBVIOUS
  <2>3. /\ f # NoAddr => f \in AllRecs /\ At(f).key = k /\ At(f).st = "WRITE"
        /\ f = NoAddr => \A a \in AllRecs : At(a).st = "WRITE" => At(a).key # k
    BY <2>1, <2>2, FindsWritten DEF CInv, Steady
  <2>4. RetainedIs
    BY RetainedNow
  <2>5. CASE f # NoAddr
    BY <2>2, <2>3, <2>4, <2>5 DEF RetainedIs, Get
  <2>6. CASE f = NoAddr
    <3>1. \A a \in Held : At(a).key # k
      BY <2>1, <2>3, <2>6 DEF Held, Steady, Clean
    <3> QED
      BY <2>2, <2>3, <2>4, <2>6, <3>1 DEF RetainedIs, Get
  <2> QED
    BY <2>5, <2>6
<1> QED
  BY <1>1 DEF ReadBack, CInv

(* Between calls get returns what is stored: the cache, which look-ups,     *)
(* sets and moves fill and deletes empty, never leads to a record that was  *)
(* replaced, deleted or collected (ef_env.c 736-758, 1097, 1168, 1346).     *)
THEOREM ReadsWhatIsStored == Spec /\ []Quiet => []ReadBack
BY Reads, Invariant, SteadyInvariant, PTL

-----------------------------------------------------------------------------
(* The store is the map it promises.                                        *)
MapKept == \A k \in Keys : Retained(k)' = Retained(k)
MapStep == [Map!Next]_<<[k \in Keys |-> Retained(k)], op, Applied>>

(* The steps of the map the abstract specification allows.                  *)
LEMMA MapStays ==
    ASSUME MapKept, op' = op, Applied' = Applied PROVE MapStep
BY DEF MapKept, MapStep

LEMMA MapCalls ==
    ASSUME MapKept, op = NoReq, op' \in Map!Requests, ~Applied' PROVE MapStep
<1>1. Map!Call(op')
  BY DEF MapKept, Map!Call, Map!NoReq, NoReq, Applied
<1> QED
  BY <1>1 DEF MapStep, Map!Next

LEMMA MapReturns ==
    ASSUME MapKept, op # NoReq, op' = NoReq PROVE MapStep
<1>1. Map!Return
  BY DEF MapKept, Map!Return, Map!NoReq, NoReq, Applied
<1> QED
  BY <1>1 DEF MapStep, Map!Next

LEMMA MapApplies ==
    ASSUME op # NoReq, op' = op, ~Applied, Applied', NEW j \in Keys, j = op.key,
           Retained(j)' = op.val, \A k \in Keys \ {j} : Retained(k)' = Retained(k)
    PROVE MapStep
<1>1. Map!Apply
  BY DEF Map!Apply, Map!NoReq, NoReq, Applied
<1> QED
  BY <1>1 DEF MapStep, Map!Next

LEMMA MapForgets ==
    ASSUME op = Map!SetDefault, op' = op, ~Applied, ~Applied',
           \A k \in Keys : Retained(k)' = Retained(k) \/ Retained(k)' = NoVal
    PROVE MapStep
<1> DEFINE gone == {k \in Keys : Retained(k)' = NoVal}
<1>1. Applied = FALSE /\ Applied' = FALSE
  BY DEF Applied
<1>2. [k \in Keys |-> Retained(k)]'
         = [k \in Keys |-> IF k \in gone THEN NoVal ELSE [j \in Keys |-> Retained(j)][k]]
  OBVIOUS
<1>3. Map!Forget(gone)
  BY <1>1, <1>2 DEF Map!Forget
<1>4. gone \in SUBSET Keys
  OBVIOUS
<1> QED
  BY <1>4, <1>3 DEF MapStep, Map!Next

(* Steps that leave every record alone.                                     *)
LEMMA RestsMap ==
    ASSUME CInv, RetainedIs, RetainedIs', HeldKept,
           \/ CallStep \/ NewEnv \/ FindOld \/ PreDirty \/ UpdateSecStatus \/ PreWrite
           \/ WriteHeader \/ WriteBody \/ Dirty \/ Finish \/ Return
           \/ MoveAlloc \/ GcCollect \/ GcPick \/ GcNext \/ Format \/ GcDone \/ BootStep
    PROVE MapStep
<1> USE DEF CInv, TypeOK
<1>1. MapKept
  BY KeptRetained DEF MapKept
<1>2. /\ op = NoReq <=> op.kind = "none"
      /\ op.kind \in {"none", "set", "del", "default"}
  BY Kinds DEF Types
<1>3. CASE CallStep
  <2>1. ASSUME NEW k \in Keys, GetEnv(k) PROVE MapStep
    <3>1. op' = op /\ Applied' = Applied
      BY <2>1 DEF GetEnv, place, call, Applied, Old
    <3> QED
      BY <1>1, <3>1, MapStays
  <2>2. ASSUME ~(\E k \in Keys : GetEnv(k)) PROVE MapStep
    <3>1. op' \in Map!Requests /\ pc = "idle" /\ pc' \in {"alloc", "find", "wipe"} /\ gcRet' = gcRet
      BY <1>3, <2>2 DEF CallStep, CallSet, CallDel, CallDefault, Begin, Go, Map!Requests
    <3>2. op = NoReq /\ gcRet = "idle"
      BY <3>1 DEF Control, Requested, Returns
    <3>3. ~Applied'
      BY <3>1, <3>2 DEF Applied
    <3> QED
      BY <1>1, <3>1, <3>2, <3>3, MapCalls
  <2> QED
    BY <2>1, <2>2
<1>4. CASE Return
  <2>1. op # NoReq
    BY <1>4 DEF Return, Go, Control, Jobs, Returns, Requested
  <2>2. op' = NoReq
    BY <1>4 DEF Return
  <2> QED
    BY <1>1, <2>1, <2>2, MapReturns
<1>5. CASE CheckHdr
  <2>1. op = NoReq /\ gcRet = "idle" /\ gcRet' = "idle" /\ pc' \in {"checkHdr", "wipe", "recGc"}
    BY <1>5 DEF CheckHdr, Control, Requested, Returns
  <2>2. op' = NoReq \/ op' = Map!SetDefault
    BY <1>5, <2>1 DEF CheckHdr
  <2>3. ~Applied /\ ~Applied'
    BY <2>1 DEF Applied
  <2>4. Map!SetDefault \in Map!Requests
    BY DEF Map!Requests
  <2>5. Applied' = Applied
    BY <2>3 DEF Applied
  <2> QED
    BY <1>1, <2>1, <2>2, <2>3, <2>4, <2>5, MapStays, MapCalls
<1>6. CASE ~CallStep /\ ~Return /\ ~CheckHdr
  <2>1. op' = op
    BY <1>6
       DEF NewEnv, FindOld, PreDirty, UpdateSecStatus, PreWrite, WriteHeader, WriteBody, Dirty,
       Finish, MoveAlloc, GcCollect, GcPick, GcNext, Format, GcDone, BootStep, Wipe, RecoverGc,
       RecoverNext, RecoverEnd, call
  <2>2. Applied' = Applied
    <3> USE DEF Control, Jobs, Returns, Requested
    <3>1. CASE NewEnv \/ FindOld
      <4>1. pc \in {"alloc", "find"} /\ job = "call" /\ job' = "call" /\ gcRet # "return"
        BY <3>1 DEF NewEnv, FindOld, call
      <4>2. gcRet' # "return"
        BY <3>1, <4>1 DEF NewEnv, FindOld, call
      <4>3. NewEnv => old' = NoAddr /\ pc' \notin {"delete", "finish", "dirty"}
        BY DEF NewEnv, Pointers, Writing, Replacing
      <4>4. FindOld => /\ pc' \notin {"dirty", "finish"}
                       /\ pc' = "return" => old' = NoAddr
                       /\ pc' = "delete" => op.kind = "del"
        BY DEF FindOld
      <4>5. ~Applied /\ ~Applied'
        BY <2>1, <3>1, <4>1, <4>2, <4>3, <4>4 DEF Applied, Old
      <4> QED
        BY <4>5 DEF Applied
    <3>2. CASE PreDirty \/ UpdateSecStatus \/ PreWrite \/ WriteHeader \/ WriteBody \/ MoveAlloc
      <4>1. gcRet' = gcRet /\ job' = job
        BY <3>2 DEF PreDirty, UpdateSecStatus, PreWrite, WriteHeader, WriteBody, MoveAlloc, call
      <4>2. job = "call" => /\ pc \notin {"dirty", "finish", "return", "delete"}
                            /\ pc' \notin {"dirty", "finish", "return", "delete"}
        BY <3>2 DEF PreDirty, UpdateSecStatus, PreWrite, WriteHeader, WriteBody, MoveAlloc, Go
      <4> QED
        BY <2>1, <4>1, <4>2 DEF Applied
    <3>3. CASE Dirty
      <4>1. gcRet' = gcRet /\ job' = job /\ old' = old /\ pc = "dirty" /\ pc' = DirtyAfter
        BY <3>3 DEF Dirty, Go, place, call
      <4>2. job = "call" => Old # NoAddr /\ old # NoAddr /\ pc' \in {"finish", "return"}
        BY <4>1, Addresses DEF Pointers, Replacing, Valid, DirtyAfter, Old
      <4> QED
        BY <2>1, <4>1, <4>2 DEF Applied, Old
    <3>4. CASE Finish
      <4>1. pc = "finish" /\ gcRet' = "return" /\ job = "call" /\ op # NoReq /\ op.kind # "del"
        BY <1>2, <3>4 DEF Finish, Go
      <4> QED
        BY <2>1, <4>1 DEF Applied
    <3>5. CASE GcCollect \/ GcPick \/ GcNext
      <4>1. gcRet' = gcRet /\ job' = "gc" /\ (job = "gc" \/ pc = "gc")
        BY <3>5 DEF GcCollect, GcPick, GcNext, call, Go, Collecting
      <4> QED
        BY <2>1, <4>1 DEF Applied
    <3>6. CASE GcDone
      <4>1. gcRet' = gcRet /\ job = "gc" /\ pc' = gcRet
        BY <3>6 DEF GcDone, Go, call, Collecting
      <4> QED
        BY <2>1, <4>1 DEF Applied, Types
    <3>7. CASE Format \/ BootStep
      <4>1. op = NoReq \/ job = "gc" \/ (job = "call" /\ gcRet = "idle")
        BY <1>6, <3>7 DEF Format, BootStep, Wipe, RecoverGc, RecoverNext, RecoverEnd, Go, Types
      <4>2. op = NoReq \/ (gcRet' = gcRet /\ job' = job)
        BY <1>6, <3>7 DEF Format, BootStep, Wipe, RecoverGc, RecoverNext, RecoverEnd, Go, call
      <4>3. \/ op = NoReq
            \/ pc \in {"wipe", "format"} /\ pc' \in {"erase", "gcPick", "alloc", "wipe"}
        BY <1>6, <3>7
           DEF Format, FormatNext, BootStep, Wipe, RecoverGc, RecoverNext, RecoverEnd, Go
      <4> QED
        BY <2>1, <4>1, <4>2, <4>3 DEF Applied
    <3> QED
      BY <1>6, <3>1, <3>2, <3>3, <3>4, <3>5, <3>6, <3>7
  <2> QED
    BY <1>1, <2>1, <2>2, MapStays
<1> QED
  BY <1>3, <1>4, <1>5, <1>6

(* PRE_DELETE still tells the value.                                        *)
LEMMA PreDeleteMaps ==
    ASSUME CInv, Steady, RetainedIs, RetainedIs', PreDelete PROVE MapStep
<1> USE DEF CInv, TypeOK
<1>0. /\ UNCHANGED <<old, cur, op, job, gcRet>> /\ pc = "preDelete" /\ pc' = "preDirty"
      /\ Valid(Old)
  BY DEF PreDelete, place, call, Go, Pointers, Replacing
<1>1. PICK o \in AllRecs : o = Old
  BY <1>0 DEF Valid
<1>2. At(o).st = "WRITE" /\ At(o).key \in Keys
  <2>1. At(o).st = "WRITE"
    BY <1>0, <1>1 DEF Steady, OldState
  <2> QED
    BY <1>0, <1>1, <2>1, SizeOf, Addresses DEF Valid
<1>3. /\ AllRecs' = AllRecs /\ \A b \in AllRecs : b # o => At(b)' = At(b)
      /\ At(o)'.st = "PRE_DELETE" /\ At(o)'.key = At(o).key /\ At(o)'.val = At(o).val
  BY <1>1, <1>2, Marked, Ranks DEF PreDelete, Statuses, SameAt
<1>4. PICK j \in Keys : j = At(o).key
  BY <1>2
<1>5. Retained(j)' = Retained(j)
  <2>1. \A b \in AllRecs : At(b).st = "WRITE" /\ At(b).key = j => b = o
    BY <1>2, <1>4 DEF Steady, Unique
  <2>2. \A b \in AllRecs' : At(b)'.st = "WRITE" => At(b)'.key # j
    BY <1>3, <2>1
  <2>3. Retained(j) = At(o).val
    BY <1>2, <1>4 DEF RetainedIs
  <2>4. Retained(j)' = At(o)'.val
    BY <1>3, <1>4, <2>2 DEF RetainedIs
  <2> QED
    BY <1>3, <2>3, <2>4
<1>6. ASSUME NEW k \in Keys, k # j PROVE Retained(k)' = Retained(k)
  BY <1>3, <1>4, <1>6, KeyRetained DEF KeyKept, HeldOf, Held
<1>7. MapKept
  BY <1>5, <1>6 DEF MapKept
<1>8. Applied' = Applied
  BY <1>0 DEF Applied
<1> QED
  BY <1>0, <1>7, <1>8, MapStays

(* The new record is written: a set takes effect, a move changes nothing.   *)
LEMMA CommitMaps ==
    ASSUME CInv, Steady, Steady', RetainedIs, RetainedIs', Commit PROVE MapStep
<1> USE DEF CInv, TypeOK
<1>0. /\ UNCHANGED <<old, cur, op, job, gcRet, target>> /\ pc = "commit"
      /\ pc' = IF Old = NoAddr THEN "finish" ELSE "delete"
      /\ job # "recover" /\ Making /\ Window
  BY DEF Commit, place, call, Go, Steady, Still, Making, Window, Writing
<1>1. PICK n \in AllRecs : n = New
  BY <1>0, NewIn
<1>2. /\ At(n).st = "PRE_WRITE" /\ At(n).key = NewKey /\ At(n).val = NewVal
      /\ NewKey \in Keys /\ NewVal \in Vals
  BY <1>0, <1>1, NewIn, NewKeyIn DEF Steady, Clean, Writing
<1>3. /\ AllRecs' = AllRecs /\ \A b \in AllRecs : b # n => At(b)' = At(b)
      /\ At(n)'.st = "WRITE" /\ At(n)'.key = At(n).key /\ At(n)'.val = At(n).val
  <2>1. SetStatus(n, "WRITE")
    BY <1>1 DEF Commit, New
  <2>2. Later(At(n).st, "WRITE") = "WRITE"
    BY <1>2, Ranks
  <2>3. "WRITE" \in Statuses
    BY DEF Statuses
  <2>4. FlashOK
    BY DEF CInv
  <2> HIDE DEF CInv
  <2> QED
    BY <2>1, <2>2, <2>3, <2>4, Marked DEF SameAt
<1>4. PICK j \in Keys : j = NewKey
  BY <1>2
<1>5. PICK v : v = NewVal
  OBVIOUS
<1>6. Retained(j)' = v
  BY <1>2, <1>3, <1>4, <1>5 DEF RetainedIs
<1>7. ASSUME NEW k \in Keys, k # j PROVE Retained(k)' = Retained(k)
  BY <1>2, <1>3, <1>4, <1>7, KeyRetained DEF KeyKept, HeldOf, Held
<1>8. CASE job = "gc"
  <2>1. PICK o \in AllRecs : o = cur
    BY <1>0, <1>8 DEF Pointers, Valid, Writing
  <2>2. At(o).st = "PRE_DELETE" /\ At(o).key = j /\ At(o).val = v
    BY <1>0, <1>4, <1>5, <1>8, <2>1 DEF Steady, OldState, Old, NewKey, NewVal
  <2>3. \A a \in AllRecs : At(a).st = "WRITE" => At(a).key # j
    BY <1>0, <1>4 DEF Steady, Unique
  <2>4. Retained(j) = v
    BY <2>2, <2>3 DEF RetainedIs
  <2>5. MapKept
    BY <1>6, <1>7, <2>4 DEF MapKept
  <2>6. Applied' = Applied
    BY <1>0, <1>8 DEF Applied
  <2> QED
    BY <1>0, <2>5, <2>6, MapStays
<1>9. CASE job = "call"
  <2>1. op # NoReq /\ op.kind # "del" /\ gcRet # "return"
    BY <1>0, <1>9, Kinds DEF Types, Control, Requested, Returns, Writing
  <2>2. ~Applied /\ Applied'
    BY <1>0, <1>9, <2>1 DEF Applied
  <2>3. j = op.key /\ v = op.val
    BY <1>4, <1>5, <1>9 DEF NewKey, NewVal
  <2> QED
    BY <1>0, <1>6, <1>7, <2>1, <2>2, <2>3, MapApplies
<1> QED
  BY <1>0, <1>8, <1>9 DEF Types

(* The old record is deleted: a delete takes effect, the rest was done.     *)
LEMMA DeleteMaps ==
    ASSUME CInv, Steady, RetainedIs, RetainedIs', Delete PROVE MapStep
<1> USE DEF CInv, TypeOK
<1>0. /\ UNCHANGED <<old, cur, op, job, gcRet, target>> /\ pc = "delete" /\ pc' = "dirty"
      /\ Valid(Old) /\ job # "recover"
  BY DEF Delete, place, call, Go, Pointers, Replacing, Steady, Still
<1>1. PICK o \in AllRecs : o = Old
  BY <1>0 DEF Valid
<1>2. /\ Removing => At(o).st = "WRITE"
      /\ ~Removing => At(o).st = "PRE_DELETE"
      /\ ~Window
  BY <1>0, <1>1 DEF Steady, OldState, Window, Writing, Replaced
<1>3. /\ AllRecs' = AllRecs /\ \A b \in AllRecs : b # o => At(b)' = At(b)
      /\ At(o)'.st = "DELETED" /\ At(o)'.key = At(o).key /\ At(o)'.val = At(o).val
  BY <1>1, <1>2, Marked, Ranks DEF Delete, Statuses, SameAt
<1>4. /\ At(o).key \in Keys /\ NewKey = At(o).key
      /\ job = "call" => At(o).key = op.key
  <2>1. job = "call" => old = o /\ At(old).key = op.key
    BY <1>0, <1>1, Addresses DEF Old, Pointers, Replacing
  <2>2. At(o) \in Records /\ At(o).key # NoKey
    BY <1>0, <1>1, Addresses DEF Valid
  <2> QED
    BY <1>0, <1>1, <2>1, <2>2, SizeOf DEF Old, NewKey
<1>5. PICK j \in Keys : j = At(o).key
  BY <1>4
<1>6. ASSUME NEW k \in Keys, k # j PROVE Retained(k)' = Retained(k)
  BY <1>3, <1>5, <1>6, KeyRetained DEF KeyKept, HeldOf, Held
<1>7. CASE Removing
  <2>1. \A b \in AllRecs : At(b).key = j /\ At(b).st \in {"WRITE", "PRE_DELETE"} => b = o
    BY <1>2, <1>5, <1>7 DEF Steady, Clean, Unique, Replaced
  <2>2. \A b \in AllRecs' : At(b)'.key = j => At(b)'.st \notin {"WRITE", "PRE_DELETE"}
    BY <1>3, <2>1
  <2>3. Retained(j)' = NoVal
    BY <2>2 DEF RetainedIs, Held
  <2>4. op # NoReq /\ op.val = NoVal /\ gcRet # "return"
    BY <1>0, <1>7 DEF Types, Control, Returns, Removing, Map!Requests, Map!SetDefault, NoReq
  <2>5. ~Applied
    BY <1>0, <1>7, <2>4 DEF Applied, Removing
  <2>6. Old' # NoAddr
    BY <1>0, <1>1, Addresses DEF Old
  <2>7. Applied'
    BY <1>0, <1>7, <2>4, <2>6 DEF Applied, Removing
  <2> QED
    BY <1>0, <1>4, <1>5, <1>6, <1>7, <2>3, <2>4, <2>5, <2>7, MapApplies DEF Removing
<1>8. CASE ~Removing
  <2>1. PICK n \in AllRecs : n = New
    BY <1>0, <1>8 DEF Steady, OldState, Replaced
  <2>2. At(n).st = "WRITE" /\ At(n).key = j /\ n # o
    BY <1>0, <1>2, <1>4, <1>5, <1>8, <2>1 DEF Steady, OldState, Replaced
  <2>3. At(n)' = At(n) /\ n \in AllRecs'
    BY <1>3, <2>2
  <2>4. Retained(j) = At(n).val
    BY <2>2 DEF RetainedIs
  <2>5. Retained(j)' = At(n)'.val
    BY <2>2, <2>3 DEF RetainedIs
  <2>6. MapKept
    BY <1>6, <2>3, <2>4, <2>5 DEF MapKept
  <2>7. Old # NoAddr /\ Old' = Old
    BY <1>0, <1>1, Addresses DEF Old
  <2>8. Applied' = Applied
    BY <1>0, <1>8, <2>7 DEF Applied, Removing
  <2> QED
    BY <1>0, <2>6, <2>8, MapStays
<1> QED
  BY <1>7, <1>8

(* An erased sector holds nothing, unless the defaults are being set.       *)
LEMMA EraseMaps ==
    ASSUME CInv, Steady, RetainedIs, RetainedIs', Erase PROVE MapStep
<1> USE DEF CInv, TypeOK
<1>0. /\ UNCHANGED <<cur, old, op, job, gcRet>> /\ pc = "erase" /\ pc' = "format" /\ job # "recover"
  BY DEF Erase, ram, place, call, Go, Steady, Still
<1>1. PICK s \in Sectors : s = cur[1]
  BY <1>0 DEF Pointers, Types
<1>2. /\ AllRecs' = {a \in AllRecs : a[1] # s} /\ \A a \in AllRecs' : At(a)' = At(a)
  <2>1. sec' = [sec EXCEPT ![s] = Blank]
    BY <1>1 DEF Erase
  <2> QED
    BY <2>1, SectorEmptied
<1>3. \A a \in AllRecs : At(a).st \in {"WRITE", "DELETED"}
  BY <1>0 DEF Steady, Clean, Making, Window, Replaced, Writing
<1>4. CASE job = "gc"
  <2>1. \A a \in AllRecs : a[1] = s => At(a).st = "DELETED"
    BY <1>0, <1>1, <1>4 DEF Steady, Collected, Moved
  <2>2. HeldKept
    BY <1>2, <2>1 DEF HeldKept, Held
  <2>3. MapKept
    BY <2>2, KeptRetained DEF MapKept
  <2>4. Applied' = Applied
    BY <1>0, <1>4 DEF Applied
  <2> QED
    BY <1>0, <2>3, <2>4, MapStays
<1>5. CASE job = "call"
  <2>1. op = Map!SetDefault /\ gcRet = "idle"
    BY <1>0, <1>5, Kinds DEF Control, Requested, Types
  <2>2. ~Applied /\ ~Applied'
    BY <1>0, <2>1 DEF Applied
  <2>3. ASSUME NEW k \in Keys PROVE Retained(k)' = Retained(k) \/ Retained(k)' = NoVal
    <3>1. CASE \E a \in AllRecs' : At(a)'.st = "WRITE" /\ At(a)'.key = k
      BY <1>2, <3>1 DEF RetainedIs
    <3>2. CASE \A a \in AllRecs' : At(a)'.st = "WRITE" => At(a)'.key # k
      <4>1. \A a \in Held' : At(a)'.key # k
        BY <1>2, <1>3, <3>2 DEF Held
      <4> QED
        BY <3>2, <4>1 DEF RetainedIs
    <3> QED
      BY <3>1, <3>2
  <2> QED
    BY <1>0, <2>1, <2>2, <2>3, MapForgets
<1> QED
  BY <1>0, <1>4, <1>5 DEF Types

(* All steps together.                                                      *)
LEMMA MapInit == Init => Map!Init
<1> SUFFICES ASSUME Init PROVE Map!Init
  OBVIOUS
<1>1. AllRecs = {}
  BY Emptied DEF Init, AllRecs, InUse
<1>2. \A k \in Keys : Retained(k) = NoVal
  BY <1>1 DEF Retained, Live
<1>3. op = NoReq /\ Applied = FALSE
  BY DEF Init, Applied
<1> QED
  BY <1>2, <1>3 DEF Map!Init, Map!NoReq, NoReq

LEMMA MapSteps ==
    ASSUME CInv, CInv', Steady, Steady', ~Stuck, ~Crash, [Next]_vars PROVE MapStep
<1>1. RetainedIs /\ RetainedIs'
  BY RetainedNow, RetainedNext
<1>2. CASE UNCHANGED vars
  BY <1>2 DEF MapStep, vars, ram, place, call, Retained, Live, At, AllRecs, InUse, Applied, Old
<1>3. CASE Delete
  BY <1>1, <1>3, DeleteMaps
<1>4. CASE Commit
  BY <1>1, <1>4, CommitMaps
<1>5. CASE PreDelete
  BY <1>1, <1>5, PreDeleteMaps
<1>6. CASE Erase
  BY <1>1, <1>6, EraseMaps
<1>7. ASSUME HeldKept,
             \/ CallStep \/ NewEnv \/ FindOld \/ PreDirty \/ UpdateSecStatus \/ PreWrite
             \/ WriteHeader \/ WriteBody \/ Dirty \/ Finish \/ Return
             \/ MoveAlloc \/ GcCollect \/ GcPick \/ GcNext \/ Format \/ GcDone \/ BootStep
      PROVE MapStep
  BY <1>1, <1>7, RestsMap
<1>8. CASE CallStep
  BY <1>7, <1>8, SteadyCalls
<1>9. CASE NewEnv \/ FindOld
  BY <1>7, <1>9, SteadyLooks
<1>10. CASE PreDirty \/ UpdateSecStatus \/ MoveAlloc
  BY <1>7, <1>10, SteadySectors
<1>11. CASE PreWrite \/ WriteHeader \/ WriteBody
  BY <1>7, <1>11, SteadyPreWrite, SteadyFills
<1>12. CASE Dirty
  BY <1>7, <1>12, SteadyDirty
<1>13. CASE GcNext /\ pc' = "preDelete"
  BY <1>7, <1>13, SteadyTakes
<1>14. ASSUME pc' # "preDelete", \/ Finish \/ Return \/ GcCollect \/ GcPick \/ GcNext
                                 \/ GcDone \/ Format \/ BootStep
       PROVE MapStep
  BY <1>7, <1>14, SteadyRests DEF BootStep
<1>15. Finish \/ Return \/ GcCollect \/ GcPick \/ GcDone \/ Format \/ BootStep => pc' # "preDelete"
  BY DEF Finish, Return, GcCollect, GcPick, GcDone, Format, FormatNext, BootStep, Wipe, CheckHdr,
     RecoverGc, RecoverNext, RecoverEnd, Go, CInv, TypeOK, Types
<1> QED
  BY <1>2, <1>3, <1>4, <1>5, <1>6, <1>8, <1>9, <1>10, <1>11, <1>12, <1>13, <1>14, <1>15
     DEF Next, SetStep, GcStep

(* Every step of the store is a step of the map of EnvStore or leaves it    *)
(* alone: a set and a delete take effect at one flash write, and collection *)
(* changes no key.                                                          *)
THEOREM ImplementsMap == Spec /\ []Quiet => IsMap
<1>1. CInv /\ CInv' /\ Steady /\ Steady' /\ Quiet /\ Quiet' /\ [Next]_vars
        => [Map!Next]_<<[k \in Keys |-> Retained(k)], op, Applied>>
  BY MapSteps DEF Quiet, Crash, MapStep
<1> QED
  BY <1>1, MapInit, Invariant, SteadyInvariant, PTL DEF Spec, IsMap, Map!Spec

-----------------------------------------------------------------------------
(* One power failure, and the boot that mends it.                           *)

(* A move finds no room, and no written record has the value it would copy: *)
(* the collection is about to lose it.  The hypothesis of what follows is   *)
(* that there is one failure, and that no value is lost so, before the      *)
(* failure or in the boot after it.                                         *)
Lost == Stuck /\ \A a \in Found(NewKey) : At(a).val # NewVal
Mendable == crashes <= 1 /\ (crashes = 0 \/ booting => ~Lost)

Written == {a \in AllRecs : At(a).st = "WRITE"}
Pending == {a \in AllRecs : At(a).st = "PRE_DELETE"}
Differ(a, b) == At(a).key = At(b).key /\ At(a).val # At(b).val

Copying == pc \in Writing \cup {"preDirty"}
Moving == job # "call" /\ (Copying \/ pc \in {"delete", "alloc"})

(* What a move writes is a copy, and no valid record is damaged.            *)
Whole ==
    /\ \A a \in AllRecs : Making /\ a = New =>
          /\ At(a).st = "PRE_WRITE" /\ (At(a).crcOk <=> pc = "commit")
          /\ pc # "header" => At(a).key = NewKey /\ At(a).val = NewVal
    /\ \A a \in Held : At(a).crcOk
    /\ pc = "checkHdr" => ~lastComplete

(* The record that is moved, step by step.                                  *)
Taken ==
    /\ pc = "preDelete" => cur \in Written
    /\ Moving => cur \in Pending
    /\ pc = "dirty" => cur \notin Held

(* A key has one written record, and none while it is copied.               *)
Once ==
    /\ \A a, b \in Written : At(a).key = At(b).key => a = b
    /\ Copying => \A a \in Written : At(a).key # NewKey
    /\ pc = "delete" => \E a \in Written : At(a).key = NewKey

(* A marked record with another value than a second one of its key is the   *)
(* older: it is in a sector to collect,                                     *)
Outdated == \A a \in Pending, b \in Held : Differ(a, b) => a[1] \in Garbage

(* only a collection marks the second one as well, and moves it at once,    *)
Agreed ==
    \A a, b \in Pending : Differ(a, b) =>
        /\ Moving /\ job = "gc" /\ (a = cur \/ b = cur)
        /\ pc = "alloc" => \A c \in Written : At(c).key # NewKey

(* before the older, so a search finds it first.                            *)
FirstMoved == Moving => \A a \in Pending : Differ(a, cur) => Before(cur, a)

(* Collection goes through the sectors in order; what it could not move out *)
(* of the one at hand has a written copy.                                   *)
Passed ==
    job = "gc" /\ pc \notin {"gcPick", "gcDone"} =>
        /\ pc # "format" => sec[cur[1]].dirty = "GC"
        /\ \A s \in Garbage : ~(s < cur[1])
        /\ \A a \in Held : a[1] = cur[1] /\ Moved(a) =>
              /\ a \in Pending /\ \A b \in Held : ~Differ(a, b)
              /\ \/ Moving /\ NewKey = At(a).key
                 \/ \E b \in Written : At(b).key = At(a).key
        /\ pc = "format" => \A a \in AllRecs : a[1] # cur[1]
        /\ pc \in Writing \cup {"delete", "dirty"} => target # cur[1]

Repair == op = NoReq /\ Whole /\ Taken /\ Once /\ Outdated /\ Agreed /\ FirstMoved /\ Passed

(* The search for marked records has gone through those behind it, and when *)
(* it has found the last one none is left, unless it was stopped.           *)
Sought ==
    /\ pc = "recGc" => cur = NoAddr
    /\ pc = "recNext" \/ (job = "recover" /\ pc # "recEnd") =>
          \A a \in Pending : Before(cur, a) \/ (Moving /\ a = cur)
    /\ pc = "recEnd" => stopped \/ gcRequest \/ Pending = {}

(* The cache leads to written records only, or to the one being made, or to *)
(* one that collection has marked to copy it at once.                       *)
Marking(a) ==
    /\ a = cur /\ job = "gc" /\ pc \in Writing \cup {"preDirty", "alloc"}
    /\ \A w \in Written : At(w).key # NewKey
Readable(a) == a \in Written \/ (Making /\ a = New) \/ Marking(a)
Led == \A k \in Keys : \A a \in CacheHits(k) : Readable(a)

Restoring == Sought /\ Led

(* All the sector headers were bad: the defaults are set again.             *)
Wiping ==
    /\ op = Map!SetDefault /\ job = "call" /\ pc \in {"wipe", "erase", "format"}
    /\ Wiped /\ ~lastComplete

Mend == /\ crashes = 0 => Steady
        /\ crashes = 1 /\ booting => Steady \/ (Repair /\ Restoring) \/ Wiping

(* A set has its old record's sector to be collected before it writes.      *)
SetDirty ==
    /\ \A s \in Sectors : sec[s].magic => sec[s].dirty # "UNUSED"
    /\ job = "call" /\ op.kind = "set" /\ pc \in Writing \cup {"delete"} /\ old # NoAddr
          => old[1] \in Garbage

-----------------------------------------------------------------------------
(* Sector headers, and what collection sees of them.                        *)
SameHeads == \A s \in Sectors : sec'[s].magic = sec[s].magic /\ sec'[s].dirty = sec[s].dirty

LEMMA HeadsGarbage ==
    ASSUME SameHeads PROVE Garbage' = Garbage
BY DEF SameHeads, Garbage

LEMMA RecsHeads ==
    ASSUME FlashOK, NEW t, NEW R, sec' = [sec EXCEPT ![t].recs = R]
    PROVE SameHeads
<1>1. DOMAIN sec = Sectors /\ \A s \in Sectors : sec[s] \in SectorStates
  BY DEF FlashOK
<1>2. sec' = [sec EXCEPT ![t] = [sec[t] EXCEPT !.recs = R]]
  OBVIOUS
<1>3. ASSUME NEW s \in Sectors PROVE sec'[s].magic = sec[s].magic /\ sec'[s].dirty = sec[s].dirty
  <2>1. sec[s] \in SectorStates
    BY <1>1
  <2>2. sec'[s] = IF s = t THEN [sec[s] EXCEPT !.recs = R] ELSE sec[s]
    BY <1>1, <1>2
  <2> HIDE DEF Records
  <2> QED
    BY <2>1, <2>2 DEF SectorStates
<1> QED
  BY <1>3 DEF SameHeads

LEMMA StatusHeads ==
    ASSUME FlashOK, NEW a, NEW st, SetStatus(a, st)
    PROVE SameHeads
<1>1. sec' = [sec EXCEPT ![a[1]].recs =
                 [sec[a[1]].recs EXCEPT ![a[2]].st = Later(sec[a[1]].recs[a[2]].st, st)]]
  BY DEF SetStatus
<1> QED
  BY <1>1, RecsHeads

LEMMA MarkHeads ==
    ASSUME FlashOK, MarkDirty
    PROVE \A s \in Sectors :
            /\ sec'[s].magic = sec[s].magic
            /\ sec'[s].dirty = IF s = Old[1] /\ sec[s].dirty = "FALSE" THEN "TRUE" ELSE sec[s].dirty
<1>1. DOMAIN sec = Sectors /\ \A s \in Sectors : sec[s] \in SectorStates
  BY DEF FlashOK
<1>2. PICK o : o = Old[1]
  OBVIOUS
<1>3. sec' = [sec EXCEPT ![o] = [sec[o] EXCEPT !.dirty = IF sec[o].dirty = "FALSE" THEN "TRUE"
                                                         ELSE sec[o].dirty]]
  BY <1>2 DEF MarkDirty
<1>4. ASSUME NEW s \in Sectors
      PROVE /\ sec'[s].magic = sec[s].magic
            /\ sec'[s].dirty = IF s = o /\ sec[s].dirty = "FALSE" THEN "TRUE" ELSE sec[s].dirty
  <2>1. sec[s] \in SectorStates
    BY <1>1
  <2>2. sec'[s] = IF s = o THEN [sec[s] EXCEPT !.dirty = IF sec[s].dirty = "FALSE" THEN "TRUE"
                                                         ELSE sec[s].dirty]
                  ELSE sec[s]
    BY <1>1, <1>3
  <2> HIDE DEF Records
  <2> QED
    BY <2>1, <2>2 DEF SectorStates
<1> QED
  BY <1>2, <1>4

(* Which steps keep every header.                                           *)
LEMMA HeadsKept ==
    ASSUME CInv, \/ PreDelete \/ Delete \/ Commit \/ UpdateSecStatus \/ PreWrite
                 \/ WriteHeader \/ WriteBody
    PROVE SameHeads
<1> USE DEF CInv, TypeOK
<1>1. CASE PreDelete \/ Delete \/ Commit
  <2>1. PICK a, st : SetStatus(a, st)
    <3>1. PICK o : o = Old
      OBVIOUS
    <3>2. PICK n : n = LastOf(target)
      OBVIOUS
    <3>3. PreDelete \/ Delete => \E st : SetStatus(o, st)
      BY <3>1 DEF PreDelete, Delete
    <3>4. Commit => SetStatus(n, "WRITE")
      BY <3>2 DEF Commit
    <3> QED
      BY <1>1, <3>3, <3>4
  <2> QED
    BY <2>1, StatusHeads
<1>2. CASE UpdateSecStatus
  <2>1. target \in Sectors /\ sec[target].magic
    BY <1>2 DEF UpdateSecStatus, Go, Flash, Allocated
  <2> QED
    BY <1>2, <2>1, StatusOfSector DEF SameHeads
<1>3. CASE PreWrite
  <2>1. sec' = [sec EXCEPT ![target].recs = Append(sec[target].recs, Started(EndOf(sec[target].recs)))]
    BY <1>3 DEF PreWrite
  <2> QED
    BY <2>1, RecsHeads
<1>4. CASE WriteHeader
  <2>1. PICK R : sec' = [sec EXCEPT ![target].recs = R]
    BY <1>4 DEF WriteHeader
  <2> QED
    BY <2>1, RecsHeads
<1>5. CASE WriteBody
  <2>1. PICK R : sec' = [sec EXCEPT ![target].recs = R]
    BY <1>5 DEF WriteBody
  <2> QED
    BY <2>1, RecsHeads
<1> QED
  BY <1>1, <1>2, <1>3, <1>4, <1>5

(* A power failure keeps the headers, and every record but a torn one.      *)
LEMMA CrashHeads ==
    ASSUME CInv, Crash
    PROVE /\ \A s \in Sectors : /\ sec'[s].magic = sec[s].magic
                                /\ sec'[s].dirty = sec[s].dirty
                                /\ sec'[s].store = sec[s].store
          /\ SameHeads
<1> USE DEF CInv, TypeOK
<1>0. DOMAIN sec = Sectors /\ \A s \in Sectors : sec[s] \in SectorStates
  BY DEF FlashOK
<1>1. PICK f : f \in {sec, TornFlash} /\ sec' = Reread(f)
  BY DEF Crash, TornFlash
<1>2. ASSUME NEW s \in Sectors
      PROVE /\ f[s].magic = sec[s].magic /\ f[s].dirty = sec[s].dirty
            /\ f[s].store = sec[s].store /\ f[s] = [f[s] EXCEPT !.recs = f[s].recs]
  <2>1. f[s] = sec[s] \/ \E R : f[s] = [sec[s] EXCEPT !.recs = R]
    BY <1>0, <1>1 DEF TornFlash
  <2> HIDE DEF Records
  <2> QED
    BY <1>0, <2>1 DEF SectorStates
<1>3. ASSUME NEW s \in Sectors
      PROVE /\ sec'[s].magic = f[s].magic /\ sec'[s].dirty = f[s].dirty
            /\ sec'[s].store = f[s].store
  <2>1. sec'[s] = f[s] \/ \E R : sec'[s] = [f[s] EXCEPT !.recs = R]
    BY <1>1 DEF Reread
  <2>2. f[s] = sec[s] \/ \E R : f[s] = [sec[s] EXCEPT !.recs = R]
    BY <1>0, <1>1 DEF TornFlash
  <2> HIDE DEF Records
  <2> QED
    BY <1>0, <2>1, <2>2 DEF SectorStates
<1> QED
  BY <1>2, <1>3 DEF SameHeads

(* SetDirty is inductive.                                                   *)
LEMMA SetDirtyInit == Init => SetDirty
BY DEF Init, SetDirty, Blank, Writing

LEMMA SetDirtySteps ==
    ASSUME CInv, SetDirty, [Next]_vars PROVE SetDirty'
<1> USE DEF CInv, TypeOK
<1>0. DOMAIN sec = Sectors /\ \A s \in Sectors : sec[s] \in SectorStates
  BY DEF FlashOK
<1> DEFINE Heads == \A s \in Sectors : sec[s].magic => sec[s].dirty # "UNUSED"
           Olds == job = "call" /\ op.kind = "set" /\ pc \in Writing \cup {"delete"} /\ old # NoAddr
                      => old[1] \in Garbage
<1>1. CASE SameHeads /\ UNCHANGED <<job, op, old>> /\ pc \in Writing \cup {"delete"}
  <2>1. Heads'
    BY <1>1 DEF SetDirty, SameHeads
  <2>2. Olds'
    BY <1>1, HeadsGarbage DEF SetDirty
  <2> QED
    BY <2>1, <2>2 DEF SetDirty
<1>2. CASE Delete \/ Commit \/ UpdateSecStatus \/ PreWrite \/ WriteHeader \/ WriteBody
  <2>1. SameHeads
    BY <1>2, HeadsKept
  <2>2. UNCHANGED <<job, op, old>> /\ pc \in Writing \cup {"delete"}
    BY <1>2 DEF Delete, Commit, UpdateSecStatus, PreWrite, WriteHeader, WriteBody, Go, Writing,
       place, call
  <2> QED
    BY <1>1, <2>1, <2>2
<1>3. CASE PreDirty
  <2>1. Valid(Old) /\ UNCHANGED <<job, old>>
    BY <1>3 DEF PreDirty, Go, Pointers, Replacing, place
  <2>2. \A s \in Sectors :
            /\ sec'[s].magic = sec[s].magic
            /\ sec'[s].dirty = IF s = Old[1] /\ sec[s].dirty = "FALSE" THEN "TRUE" ELSE sec[s].dirty
    BY <1>3, MarkHeads DEF PreDirty
  <2>3. PICK o \in AllRecs : o = Old
    BY <2>1 DEF Valid
  <2>4. o[1] \in Sectors /\ sec[o[1]].magic
    BY Addresses DEF InUse
  <2>5. sec[o[1]].dirty \in {"FALSE", "TRUE", "GC"}
    BY <1>0, <2>4 DEF SetDirty, SectorStates
  <2>6. o[1] \in Garbage'
    BY <2>2, <2>3, <2>4, <2>5 DEF Garbage
  <2>7. Olds'
    BY <2>1, <2>3, <2>6 DEF Old
  <2>8. Heads'
    BY <2>2 DEF SetDirty
  <2> QED
    BY <2>7, <2>8 DEF SetDirty
<1>4. ASSUME Heads', job' # "call" \/ pc' \notin Writing \cup {"delete"} \/ old' = NoAddr
                     \/ op'.kind # "set"
      PROVE SetDirty'
  BY <1>4 DEF SetDirty
<1>5. CASE PreDelete \/ Dirty
  <2>1. Heads'
    <3>1. CASE PreDelete
      BY <3>1, HeadsKept DEF SetDirty, SameHeads
    <3>2. CASE Dirty
      BY <3>2, MarkHeads DEF Dirty, SetDirty
    <3> QED
      BY <1>5, <3>1, <3>2
  <2>2. pc' \notin Writing \cup {"delete"}
    BY <1>5 DEF PreDelete, Dirty, DirtyAfter, Go, Writing
  <2> QED
    BY <1>4, <2>1, <2>2
<1>6. CASE sec' = sec
  <2>1. Heads'
    BY <1>6 DEF SetDirty
  <2>2. CASE UNCHANGED vars
    BY <1>6, <2>2 DEF vars, call, place, SetDirty, Garbage
  <2>3. CASE CallStep
    <3>1. pc' \notin Writing \cup {"delete"}
      BY <2>3 DEF CallStep, CallSet, CallDel, CallDefault, GetEnv, Begin, Go, Writing
    <3> QED
      BY <1>4, <2>1, <3>1
  <2>4. CASE NewEnv
    <3>1. old = NoAddr /\ old' = old
      BY <2>4 DEF NewEnv, Pointers, Writing, Replacing, Control, Returns
    <3> QED
      BY <1>4, <2>1, <3>1
  <2>5. CASE FindOld
    <3>1. pc' \notin Writing \cup {"delete"} \/ old' = NoAddr \/ op.kind # "set"
      BY <2>5 DEF FindOld, Writing
    <3>2. op' = op
      BY <2>5 DEF FindOld, call
    <3> QED
      BY <1>4, <2>1, <3>1, <3>2
  <2>6. CASE MoveAlloc
    BY <1>4, <2>1, <2>6 DEF MoveAlloc
  <2>7. CASE Finish \/ Return \/ GcCollect \/ GcPick \/ GcNext \/ GcDone \/ BootStep
    <3>1. pc' \notin Writing \cup {"delete"}
      BY <2>7 DEF Finish, Return, GcCollect, GcPick, GcNext, GcDone, BootStep, Wipe, CheckHdr,
         RecoverGc, RecoverNext, RecoverEnd, Go, Writing, Types
    <3> QED
      BY <1>4, <2>1, <3>1
  <2>8. CASE PreDelete \/ PreDirty \/ UpdateSecStatus \/ PreWrite \/ WriteHeader \/ WriteBody
             \/ Commit \/ Delete \/ Dirty
    BY <1>2, <1>3, <1>5, <2>8
  <2>9. CASE Erase \/ Format \/ Crash
    <3>1. pc' \notin Writing \cup {"delete"} \/ old' = NoAddr \/ job' # "call" \/ op'.kind # "set"
      BY <2>9 DEF Erase, Format, FormatNext, Crash, Reset, Go, Writing
    <3> QED
      BY <1>4, <2>1, <3>1
  <2> QED
    BY <2>2, <2>3, <2>4, <2>5, <2>6, <2>7, <2>8, <2>9 DEF Next, SetStep, GcStep
<1>7. CASE GcPick /\ sec' # sec
  <2>1. PICK s \in Sectors : sec' = [sec EXCEPT ![s].dirty = "GC"]
    BY <1>7, MinIn DEF GcPick, Garbage
  <2>2. \A t \in Sectors : sec'[t].magic = sec[t].magic
                           /\ sec'[t].dirty \in {sec[t].dirty, "GC"}
    <3> HIDE DEF Records
    <3> QED
      BY <1>0, <2>1 DEF SectorStates
  <2>3. Heads'
    BY <2>2 DEF SetDirty
  <2>4. pc' \notin Writing \cup {"delete"}
    BY <1>7 DEF GcPick, Writing
  <2> QED
    BY <1>4, <2>3, <2>4
<1>8. CASE (Erase \/ Format \/ CheckHdr) /\ sec' # sec
  <2>1. PICK s, x : x \in {Blank, Formatted} /\ sec' = [sec EXCEPT ![s] = x]
    BY <1>8 DEF Erase, Format, CheckHdr
  <2>2. \A t \in Sectors : sec'[t] \in {sec[t], Blank, Formatted}
    BY <1>0, <2>1
  <2>3. Heads'
    BY <2>2 DEF SetDirty, Blank, Formatted
  <2>4. pc' \notin Writing \cup {"delete"}
    BY <1>8 DEF Erase, Format, FormatNext, CheckHdr, Go, Writing
  <2> QED
    BY <1>4, <2>3, <2>4
<1>9. CASE RecoverNext /\ sec' # sec
  <2>1. PICK a, st : SetStatus(a, st)
    BY <1>9 DEF RecoverNext
  <2>2. SameHeads
    BY <2>1, StatusHeads
  <2>3. Heads'
    BY <2>2 DEF SetDirty, SameHeads
  <2>4. pc' \notin Writing \cup {"delete"}
    BY <1>9 DEF RecoverNext, Writing
  <2> QED
    BY <1>4, <2>3, <2>4
<1>10. CASE Crash
  <2>1. Heads'
    BY <1>10, CrashHeads DEF SetDirty
  <2>2. pc' \notin Writing \cup {"delete"}
    BY <1>10 DEF Crash, Reset, Writing
  <2> QED
    BY <1>4, <2>1, <2>2
<1>11. \/ sec' = sec \/ Delete \/ Commit \/ UpdateSecStatus \/ PreWrite \/ WriteHeader \/ WriteBody
       \/ PreDirty \/ PreDelete \/ Dirty \/ Crash
       \/ ((GcPick \/ Erase \/ Format \/ CheckHdr \/ RecoverNext) /\ sec' # sec)
  BY DEF Next, vars, CallStep, CallSet, CallDel, CallDefault, GetEnv, Begin, SetStep, NewEnv,
     FindOld, Finish, Return, GcStep, MoveAlloc, GcCollect, GcNext, GcDone, BootStep, Wipe,
     RecoverGc, RecoverEnd
<1> QED
  BY <1>2, <1>3, <1>5, <1>6, <1>7, <1>8, <1>9, <1>10, <1>11

LEMMA SetDirtyInvariant == Spec => []SetDirty
<1>1. CInv /\ SetDirty /\ [Next]_vars => SetDirty'
  BY SetDirtySteps
<1> QED
  BY <1>1, SetDirtyInit, Invariant, PTL DEF Spec

-----------------------------------------------------------------------------
(* What is stored, while a key may have several marked records.             *)
Tells ==
    \A k \in Keys :
        /\ \A a \in Written : At(a).key = k => Retained(k) = At(a).val
        /\ \A a \in Pending :
              At(a).key = k /\ (\A b \in Written : At(b).key # k)
              /\ (\A b \in Pending : Differ(b, a) => Before(a, b)) => Retained(k) = At(a).val

Singular == \A a, b \in Written : At(a).key = At(b).key => a = b

LEMMA BeforeOnce ==
    ASSUME FlashOK, NEW a \in AllRecs, NEW b \in AllRecs, Before(a, b)
    PROVE ~Before(b, a)
BY Addresses DEF Before

LEMMA TellsNow == FlashOK /\ Singular /\ (\A a \in Held : At(a).crcOk) => Tells
<1> SUFFICES ASSUME FlashOK, Singular, \A a \in Held : At(a).crcOk, NEW k \in Keys
             PROVE
               /\ \A a \in Written : At(a).key = k => Retained(k) = At(a).val
               /\ \A a \in Pending :
                     At(a).key = k /\ (\A b \in Written : At(b).key # k)
                     /\ (\A b \in Pending : Differ(b, a) => Before(a, b)) => Retained(k) = At(a).val
  BY DEF Tells
<1>1. /\ Live(k, "WRITE") = {a \in Written : At(a).key = k}
      /\ Live(k, "PRE_DELETE") = {a \in Pending : At(a).key = k}
      /\ Written \subseteq AllRecs /\ Pending \subseteq AllRecs
  BY DEF Live, Written, Pending, Held
<1>2. ASSUME NEW a \in Written, At(a).key = k PROVE Retained(k) = At(a).val
  <2>1. PICK f : f = First(Live(k, "WRITE"))
    OBVIOUS
  <2>2. Live(k, "WRITE") # {} /\ Live(k, "WRITE") \subseteq AllRecs
    BY <1>1, <1>2
  <2>3. f \in Live(k, "WRITE")
    BY <2>1, <2>2, FirstIn
  <2>4. f = a
    BY <1>1, <1>2, <2>3 DEF Singular
  <2> QED
    BY <2>1, <2>2, <2>4 DEF Retained
<1>3. ASSUME NEW a \in Pending, At(a).key = k, \A b \in Written : At(b).key # k,
             \A b \in Pending : Differ(b, a) => Before(a, b)
      PROVE Retained(k) = At(a).val
  <2>1. PICK f : f = First(Live(k, "PRE_DELETE"))
    OBVIOUS
  <2>2. Live(k, "WRITE") = {} /\ Live(k, "PRE_DELETE") # {} /\ Live(k, "PRE_DELETE") \subseteq AllRecs
    BY <1>1, <1>3
  <2>3. f \in Live(k, "PRE_DELETE") /\ \A b \in Live(k, "PRE_DELETE") \ {f} : Before(f, b)
    BY <2>1, <2>2, FirstIn
  <2>4. At(f).val = At(a).val
    <3>1. SUFFICES ASSUME At(f).val # At(a).val PROVE FALSE
      OBVIOUS
    <3>2. f \in Pending /\ At(f).key = k /\ f # a
      BY <1>1, <2>3, <3>1
    <3>3. Before(a, f) /\ Before(f, a)
      BY <1>1, <1>3, <2>3, <3>1, <3>2 DEF Differ
    <3> QED
      BY <1>1, <3>2, <3>3, BeforeOnce
  <2> QED
    BY <2>1, <2>2, <2>4 DEF Retained
<1> QED
  BY <1>2, <1>3

LEMMA TellsNext == CInv /\ Repair => Tells
BY TellsNow DEF CInv, TypeOK, Repair, Once, Whole, Singular

LEMMA TellsThen == CInv' /\ Repair' => Tells'
BY TellsNext, PTL

LEMMA HeldMapKept == FlashOK /\ HeldKept => MapKept
BY KeptRetained DEF MapKept

-----------------------------------------------------------------------------
(* Repair, step by step: what all of its steps have in common.              *)
LEMMA KeptSets ==
    ASSUME HeldKept
    PROVE /\ Written' = Written /\ Pending' = Pending /\ Held' = Held
          /\ \A a \in Held : At(a)' = At(a)
          /\ \A a, b \in Held : Differ(a, b)' <=> Differ(a, b)
          /\ Held = Written \cup Pending /\ Written \cap Pending = {}
BY DEF HeldKept, Written, Pending, Held, Differ

(* In Repair, only moves are under way.                                     *)
LEMMA RepairControl ==
    ASSUME CInv, op = NoReq
    PROVE /\ pc \notin {"find", "finish", "wipe"}
          /\ pc \in Writing \cup Replacing \cup {"alloc", "erase", "format"} => job # "call"
          /\ pc \in Replacing => cur \in AllRecs /\ cur[1] \in Sectors /\ sec[cur[1]].magic
          /\ job # "call" /\ pc \in Writing \cup {"alloc"} => cur \in AllRecs
          /\ job = "gc" /\ pc \notin {"gcPick", "gcDone"} => cur[1] \in Sectors
<1> USE DEF CInv, TypeOK
<1>1. op.kind = "none"
  BY Kinds DEF Types
<1>2. /\ pc \notin {"find", "finish", "wipe"}
      /\ pc \in Writing \cup Replacing \cup {"alloc", "erase", "format"} => job # "call"
  BY <1>1 DEF Control, Jobs, Requested
<1>3. pc \in Replacing => cur \in AllRecs
  BY <1>2 DEF Pointers, Valid, Old
<1>4. pc \in Replacing => cur[1] \in Sectors /\ sec[cur[1]].magic
  BY <1>3, Addresses DEF InUse
<1> QED
  BY <1>2, <1>3, <1>4 DEF Pointers, Valid

(* Between two moves, and at the start of one.                              *)
LEMMA RepairRests ==
    ASSUME Repair, HeldKept, op' = NoReq,
           \A a \in Held : a[1] \in Garbage => a[1] \in Garbage',
           \A a, b \in Pending : ~Differ(a, b),
           pc' \notin Writing \cup {"preDirty", "delete", "dirty"},
           pc' = "preDelete" => cur' \in Written,
           pc' = "alloc" => job' = "call" \/ cur' \in Pending,
           pc' = "checkHdr" => ~lastComplete',
           Passed'
    PROVE Repair'
<1>1. /\ Written' = Written /\ Pending' = Pending /\ Held' = Held
      /\ \A a \in Held : At(a)' = At(a)
      /\ \A a, b \in Held : Differ(a, b)' <=> Differ(a, b)
      /\ Held = Written \cup Pending
  BY KeptSets
<1>2. ~Making' /\ ~Copying'
  BY DEF Making, Copying, Writing
<1>3. Whole'
  BY <1>1, <1>2 DEF Repair, Whole
<1>4. Taken'
  BY <1>1, <1>2 DEF Taken, Moving
<1>5. Once'
  BY <1>1, <1>2 DEF Repair, Once
<1>6. Outdated'
  BY <1>1 DEF Repair, Outdated
<1>7. Agreed'
  BY <1>1 DEF Agreed
<1>8. FirstMoved'
  <2>1. SUFFICES ASSUME Moving', NEW a \in Pending', Differ(a, cur)' PROVE FALSE
    BY DEF FirstMoved
  <2>2. PICK c : c = cur'
    OBVIOUS
  <2>3. c \in Pending
    BY <1>2, <2>1, <2>2 DEF Moving
  <2>4. Differ(a, c)'
    BY <2>1, <2>2 DEF Differ, At
  <2> QED
    BY <1>1, <2>1, <2>3, <2>4
<1> QED
  BY <1>3, <1>4, <1>5, <1>6, <1>7, <1>8 DEF Repair

(* A move goes on.                                                          *)
LEMMA RepairMoves ==
    ASSUME CInv, Repair, HeldKept, UNCHANGED <<op, job, cur>>, Garbage' = Garbage,
           Moving, Moving', pc' # "delete" => pc # "delete",
           \A a \in AllRecs' : (Making /\ a = New)' =>
              /\ At(a)'.st = "PRE_WRITE" /\ (At(a)'.crcOk <=> pc' = "commit")
              /\ pc' # "header" => At(a)'.key = NewKey' /\ At(a)'.val = NewVal',
           pc' # "delete" /\ pc = "alloc" => \A a \in Written : At(a).key # NewKey,
           pc' = "delete" => \E a \in Written : At(a).key = NewKey,
           pc' = "alloc" => pc # "alloc",
           job = "gc" => sec'[cur[1]].dirty = sec[cur[1]].dirty,
           job = "gc" /\ pc' \in Writing \cup {"delete"} => target' # cur[1]
    PROVE Repair'
<1> USE DEF CInv, TypeOK
<1>1. /\ Written' = Written /\ Pending' = Pending /\ Held' = Held
      /\ \A a \in Held : At(a)' = At(a)
      /\ \A a, b \in Held : Differ(a, b)' <=> Differ(a, b)
      /\ Held = Written \cup Pending
  BY KeptSets
<1>2. PICK c : c = cur /\ c = cur' /\ c \in Pending
  BY DEF Repair, Taken
<1>3. At(c)' = At(c) /\ NewKey = At(c).key /\ NewKey' = At(c).key /\ NewKey' = NewKey
  <2>1. At(c)' = At(c)
    BY <1>1, <1>2
  <2>2. job # "call"
    BY DEF Moving
  <2>3. NewKey = At(c).key /\ NewKey' = At(c)'.key
    BY <1>2, <2>2 DEF NewKey, At
  <2> QED
    BY <2>1, <2>3
<1>4. /\ pc \in Writing \cup {"preDirty", "delete", "alloc"}
      /\ pc' \in Writing \cup {"preDirty", "delete", "alloc"}
  BY DEF Moving, Copying
<1>5. pc' # "delete" => \A a \in Written : At(a).key # NewKey
  BY <1>4 DEF Repair, Once, Copying
<1>6. Whole'
  <2>1. pc' # "checkHdr"
    BY <1>4 DEF Writing
  <2> QED
    BY <1>1, <2>1 DEF Repair, Whole
<1>7. Taken'
  BY <1>1, <1>2, <1>4 DEF Taken, Writing
<1>8. Once'
  <2>1. Copying' => pc' # "delete"
    BY DEF Copying, Writing
  <2> QED
    BY <1>1, <1>3, <1>5, <2>1 DEF Repair, Once
<1>9. Outdated'
  BY <1>1 DEF Repair, Outdated
<1>10. Agreed'
  BY <1>1, <1>2, <1>3, <1>5 DEF Repair, Agreed
<1>11. FirstMoved'
  <2>1. ASSUME NEW a \in Pending, Differ(a, cur)' PROVE Before(cur', a)
    <3>1. Differ(a, c)'
      BY <1>2, <2>1 DEF Differ, At
    <3>2. Differ(a, c)
      BY <1>1, <1>2, <3>1
    <3>3. Differ(a, cur)
      BY <1>2, <3>2
    <3>4. Before(cur, a)
      BY <3>3 DEF Repair, FirstMoved
    <3> QED
      BY <1>2, <3>4
  <2> QED
    BY <1>1, <2>1 DEF FirstMoved
<1>12. Passed'
  <2>1. SUFFICES ASSUME job = "gc" PROVE Passed'
    BY DEF Passed
  <2>2. /\ pc \notin {"gcPick", "gcDone", "format", "gcNext", "erase", "dirty"}
        /\ pc' \notin {"gcPick", "gcDone", "format", "gcNext", "erase", "dirty"}
    BY <1>4 DEF Writing
  <2>3. /\ sec[cur[1]].dirty = "GC"
        /\ \A s \in Garbage : ~(s < cur[1])
        /\ \A a \in Held : a[1] = cur[1] /\ Moved(a) =>
              /\ a \in Pending /\ \A b \in Held : ~Differ(a, b)
              /\ \/ NewKey = At(a).key
                 \/ \E b \in Written : At(b).key = At(a).key
    BY <2>1, <2>2 DEF Repair, Passed
  <2>4. \A a : Moved(a)' <=> Moved(a)
    BY <2>2 DEF Moved
  <2>5. sec'[cur'[1]].dirty = "GC"
    BY <2>1, <2>3
  <2>6. \A a \in Held' : a[1] = cur'[1] /\ Moved(a)' =>
              /\ a \in Pending' /\ \A b \in Held' : ~Differ(a, b)'
              /\ \/ NewKey' = At(a)'.key
                 \/ \E b \in Written' : At(b)'.key = At(a)'.key
    BY <1>1, <1>3, <2>3, <2>4
  <2> QED
    BY <2>1, <2>2, <2>3, <2>5, <2>6 DEF Passed
<1> QED
  BY <1>6, <1>7, <1>8, <1>9, <1>10, <1>11, <1>12 DEF Repair

(* The written record of a key found without the cache.                     *)
LEMMA FoundWritten ==
    ASSUME FlashOK, \A a \in Held : At(a).crcOk, NEW k
    PROVE /\ Found(k) = {a \in Written : At(a).key = k}
          /\ FindNoCache(k) = NoAddr <=> \A a \in Written : At(a).key # k
<1>1. Found(k) = {a \in Written : At(a).key = k}
  BY DEF Found, Written, Held
<1>2. Found(k) # {} => FindNoCache(k) \in AllRecs
  <2>1. Found(k) \subseteq AllRecs
    BY DEF Found
  <2> QED
    BY <2>1, FirstIn DEF FindNoCache
<1>3. NoAddr \notin AllRecs
  BY Addresses
<1> QED
  BY <1>1, <1>2, <1>3 DEF FindNoCache

(* Marking the sector of the moved record, and the header of the new one's. *)
LEMMA RepairSectors ==
    ASSUME CInv, Repair, PreDirty \/ UpdateSecStatus PROVE Repair' /\ HeldKept
<1> USE DEF CInv, TypeOK
<1>0. /\ UNCHANGED <<op, job, cur, target>> /\ job # "call"
      /\ \/ PreDirty /\ pc = "preDirty" /\ pc' = "alloc" /\ job = "gc"
         \/ UpdateSecStatus /\ pc = "status" /\ pc' = "preWrite"
  BY RepairControl DEF Repair, PreDirty, UpdateSecStatus, Go, place, call, Writing, Replacing,
     Control, Jobs, Types
<1>1. Moving /\ Moving' /\ ~Making'
  BY <1>0 DEF Moving, Copying, Writing, Making
<1>2. Same
  <2>1. CASE PreDirty
    BY <2>1, MarkKeeps, UntouchedSame DEF PreDirty
  <2>2. CASE UpdateSecStatus
    <3>1. target \in Sectors /\ sec[target].magic
      BY <2>2 DEF UpdateSecStatus, Go, Flash, Allocated
    <3> QED
      BY <2>2, <3>1, StatusOfSector, UntouchedSame
  <2> QED
    BY <1>0, <2>1, <2>2
<1>3. SameHeads
  <2>1. CASE UpdateSecStatus
    BY <2>1, HeadsKept
  <2>2. CASE PreDirty
    <3>1. pc = "preDirty" /\ job = "gc"
      BY <1>0, <2>2 DEF PreDirty, Go
    <3>2. sec[Old[1]].dirty = "GC"
      BY <3>1 DEF Repair, Passed, Old
    <3> QED
      BY <2>2, <3>2, MarkHeads DEF PreDirty, SameHeads
  <2> QED
    BY <1>0, <2>1, <2>2
<1>4. HeldKept /\ Garbage' = Garbage
  BY <1>2, <1>3, SameKept, HeadsGarbage
<1>5. job = "gc" => cur[1] \in Sectors
  BY <1>0, RepairControl DEF Repair, Writing, Replacing
<1>6. job = "gc" => sec'[cur[1]].dirty = sec[cur[1]].dirty
  BY <1>3, <1>5 DEF SameHeads
<1>7. job = "gc" /\ pc' \in Writing \cup {"delete"} => target' # cur[1]
  BY <1>0 DEF Repair, Passed, Writing
<1> QED
  BY <1>0, <1>1, <1>4, <1>6, <1>7, RepairMoves

(* A sector for the copy, if one is needed and there is one.                *)
LEMMA RepairAllocs ==
    ASSUME CInv, CInv', Repair, booting, ~Lost, MoveAlloc PROVE Repair' /\ HeldKept
<1> USE DEF CInv, TypeOK
<1>0. /\ UNCHANGED <<sec, op, job, cur, booting>> /\ pc = "alloc" /\ job # "call"
      /\ target' = Alloc(Size[NewVal])
  BY DEF MoveAlloc, call
<1>1. Same /\ HeldKept /\ SameHeads /\ Garbage' = Garbage /\ Moving
  BY <1>0, SecSame, SameKept, HeadsGarbage DEF SameHeads, Moving
<1>2. PICK k : k = NewKey
  OBVIOUS
<1>3. FindNoCache(k) = NoAddr <=> \A a \in Written : At(a).key # k
  BY FoundWritten DEF Repair, Whole
<1>4. CASE target' # 0
  <2>1. /\ pc' = "delete" => ~(\A a \in Written : At(a).key # NewKey)
        /\ pc' # "delete" => pc' = "status" /\ \A a \in Written : At(a).key # NewKey
    BY <1>2, <1>3, <1>4 DEF MoveAlloc
  <2>2. pc' \in {"delete", "status"}
    BY <2>1
  <2>3. Moving' /\ ~Making'
    BY <1>0, <2>2 DEF Moving, Copying, Making, Writing
  <2>4. sec[target'].dirty # "GC"
    BY <1>0, <1>4, AllocIn
  <2>5. job = "gc" => sec[cur[1]].dirty = "GC"
    BY <1>0 DEF Repair, Passed
  <2>6. job = "gc" => target' # cur[1]
    BY <2>4, <2>5
  <2> QED
    BY <1>0, <1>1, <2>1, <2>2, <2>3, <2>6, RepairMoves
<1>5. CASE target' = 0
  <2>1. pc' = IF job = "gc" THEN "gcNext" ELSE "recEnd"
    BY <1>5 DEF MoveAlloc
  <2>2. PICK c \in Pending : c = cur /\ c = cur'
    BY <1>0, <1>1 DEF Repair, Taken
  <2>3. k = At(c).key /\ NewVal = At(c).val
    BY <1>0, <1>2, <2>2 DEF NewKey, NewVal
  <2>4. job = "gc" => \E a \in Written : At(a).key = k /\ At(a).val = At(c).val
    <3>1. SUFFICES ASSUME job = "gc" PROVE \E a \in Written : At(a).key = k /\ At(a).val = At(c).val
      OBVIOUS
    <3>2. Stuck
      BY <1>0, <1>5, <3>1 DEF Stuck
    <3>3. PICK a \in Found(k) : At(a).val = NewVal
      BY <1>2, <3>2 DEF Lost
    <3>4. Found(k) = {b \in Written : At(b).key = k}
      BY FoundWritten DEF Repair, Whole
    <3> QED
      BY <2>3, <3>3, <3>4
  <2>5. \A a, b \in Pending : ~Differ(a, b)
    BY <1>0, <1>2, <2>4 DEF Repair, Agreed
  <2>6. Passed'
    <3>1. SUFFICES ASSUME job = "gc" PROVE Passed'
      BY <1>0 DEF Passed
    <3>2. /\ pc' = "gcNext" /\ pc' \notin Writing
          /\ sec[cur[1]].dirty = "GC" /\ \A s \in Garbage : ~(s < cur[1])
          /\ \A a \in Held : a[1] = cur[1] /\ Moved(a) =>
                /\ a \in Pending /\ \A b \in Held : ~Differ(a, b)
                /\ \/ NewKey = At(a).key
                   \/ \E b \in Written : At(b).key = At(a).key
      BY <1>0, <2>1, <3>1 DEF Repair, Passed, Writing
    <3>3. PICK w \in Written : At(w).key = k /\ At(w).val = At(c).val
      BY <2>4, <3>1
    <3>4. ASSUME NEW a \in Held, a[1] = cur[1], Moved(a)'
          PROVE /\ a \in Pending /\ \A b \in Held : ~Differ(a, b)
                /\ \E b \in Written : At(b).key = At(a).key
      <4>1. CASE Moved(a)
        <5>1. NewKey = At(a).key => At(w).key = At(a).key
          BY <1>2, <3>3
        <5> QED
          BY <3>2, <3>3, <3>4, <4>1, <5>1
      <4>2. CASE a[2] = cur[2]
        <5>1. a = c
          <6>1. a \in AllRecs /\ c \in AllRecs
            BY <2>2 DEF Held, Pending
          <6> QED
            BY <2>2, <3>4, <4>2, <6>1, Addresses
        <5>2. \A b \in Written : ~Differ(c, b)
          <6>1. SUFFICES ASSUME NEW b \in Written, Differ(c, b) PROVE FALSE
            OBVIOUS
          <6>2. b = w
            BY <2>3, <3>3, <6>1 DEF Repair, Once, Differ
          <6> QED
            BY <3>3, <6>1, <6>2 DEF Differ
        <5>3. \A b \in Held : b \in Written \/ b \in Pending
          BY DEF Held, Written, Pending
        <5> QED
          BY <2>3, <2>5, <3>3, <5>1, <5>2, <5>3
      <4> QED
        BY <1>0, <3>2, <3>4, <4>1, <4>2 DEF Moved
    <3>5. /\ Written' = Written /\ Pending' = Pending /\ Held' = Held
          /\ \A a \in Held : At(a)' = At(a)
          /\ \A a, b \in Held : Differ(a, b)' <=> Differ(a, b)
          /\ Held = Written \cup Pending
      BY <1>1, KeptSets
    <3>6. \A a \in Held' : a[1] = cur'[1] /\ Moved(a)' =>
                /\ a \in Pending' /\ \A b \in Held' : ~Differ(a, b)'
                /\ \E b \in Written' : At(b)'.key = At(a)'.key
      BY <1>0, <3>4, <3>5
    <3>7. /\ sec'[cur'[1]].dirty = "GC" /\ \A s \in Garbage' : ~(s < cur'[1])
      BY <1>0, <1>1, <3>2
    <3> QED
      BY <3>2, <3>6, <3>7 DEF Passed
  <2>7. op' = NoReq
    BY <1>0 DEF Repair
  <2>8. pc' \in {"gcNext", "recEnd"}
    BY <2>1
  <2> QED
    BY <1>1, <2>5, <2>6, <2>7, <2>8, RepairRests DEF Writing
<1> QED
  BY <1>4, <1>5

(* The copy is written.                                                     *)
LEMMA RepairWrites ==
    ASSUME CInv, Repair, PreWrite \/ WriteHeader \/ WriteBody PROVE Repair' /\ HeldKept
<1> USE DEF CInv, TypeOK
<1>0. /\ UNCHANGED <<op, job, cur, target>> /\ job # "call" /\ op = NoReq
      /\ \/ PreWrite /\ pc = "preWrite" /\ pc' = "header"
         \/ WriteHeader /\ pc = "header" /\ pc' = "body"
         \/ WriteBody /\ pc = "body" /\ pc' = "commit"
  BY RepairControl DEF Repair, PreWrite, WriteHeader, WriteBody, Go, place, call, Writing
<1>1. Moving /\ Moving' /\ pc \in Writing /\ pc' \in Writing
  BY <1>0 DEF Moving, Copying, Writing
<1>2. SameHeads /\ Garbage' = Garbage
  BY <1>0, HeadsKept, HeadsGarbage
<1>3. job = "gc" => cur[1] \in Sectors /\ target # cur[1]
  BY <1>0, <1>1, RepairControl DEF Repair, Passed, Writing
<1>4. PICK c \in Pending : c = cur
  BY <1>1 DEF Repair, Taken
<1>5. c \in AllRecs /\ NewKey = At(c).key /\ NewVal = At(c).val /\ At(c).st = "PRE_DELETE"
  BY <1>0, <1>4 DEF NewKey, NewVal, Pending
<1>6. NewKey \in Keys /\ NewVal \in Vals
  BY <1>1, NewKeyIn
<1>7. /\ NewKey' = At(c)'.key /\ NewVal' = At(c)'.val
  BY <1>0, <1>4 DEF NewKey, NewVal, At
<1>8. /\ HeldKept
      /\ \A a \in AllRecs' : (Making /\ a = New)' =>
            /\ At(a)'.st = "PRE_WRITE" /\ (At(a)'.crcOk <=> pc' = "commit")
            /\ pc' # "header" => At(a)'.key = NewKey' /\ At(a)'.val = NewVal'
  <2>1. CASE PreWrite
    <3>1. target \in InUse
      BY <1>0, <2>1 DEF Flash, PreWrite, Go
    <3>2. PICK n : n = New'
      OBVIOUS
    <3>3. /\ \A a \in AllRecs : a \in AllRecs' /\ At(a)' = At(a) /\ a # New'
          /\ \A a \in AllRecs' : a \in AllRecs \/ a = New'
          /\ At(New)' = Started(EndOf(sec[target].recs))
      BY <2>1, <3>1, Begun
    <3>4. At(n)' = Started(EndOf(sec[target].recs))
      BY <3>2, <3>3 DEF At
    <3>5. At(n)'.st = "PRE_WRITE" /\ ~At(n)'.crcOk
      BY <3>4 DEF Started
    <3>6. HeldKept
      BY <3>2, <3>3, <3>5 DEF HeldKept, Held
    <3>7. pc' = "header"
      BY <2>1 DEF PreWrite, Go
    <3> QED
      BY <3>2, <3>5, <3>6, <3>7
  <2>2. CASE WriteHeader
    <3>0. pc = "header" /\ pc' = "body" /\ Making
      BY <2>2 DEF WriteHeader, Go, Making
    <3>1. /\ AllRecs' = AllRecs /\ New' = New
          /\ \A a \in AllRecs : At(a)' =
                IF a = New THEN [At(a) EXCEPT !.key = NewKey, !.val = NewVal] ELSE At(a)
      BY <1>0, <1>6, <2>2, <3>0, Headed
    <3>2. PICK n \in AllRecs : n = New /\ n = New' /\ At(n) \in Records
      BY <3>0, <3>1, NewIn
    <3>3. At(n).st = "PRE_WRITE" /\ ~At(n).crcOk
      BY <3>0, <3>2 DEF Repair, Whole
    <3>4. At(n)' = [At(n) EXCEPT !.key = NewKey, !.val = NewVal]
      BY <3>1, <3>2
    <3>5. At(n)'.st = "PRE_WRITE" /\ ~At(n)'.crcOk /\ At(n)'.key = NewKey /\ At(n)'.val = NewVal
      BY <3>2, <3>3, <3>4 DEF Records
    <3>6. At(c)' = At(c)
      BY <1>5, <3>1, <3>2, <3>3
    <3>7. HeldKept
      BY <3>1, <3>2, <3>3, <3>5 DEF HeldKept, Held
    <3> QED
      BY <1>5, <1>7, <3>0, <3>2, <3>5, <3>6, <3>7
  <2>3. CASE WriteBody
    <3>0. pc = "body" /\ pc' = "commit" /\ Making
      BY <2>3 DEF WriteBody, Go, Making
    <3>1. /\ AllRecs' = AllRecs /\ New' = New
          /\ \A a \in AllRecs : At(a)' = IF a = New THEN [At(a) EXCEPT !.crcOk = TRUE] ELSE At(a)
      BY <1>0, <2>3, <3>0, Bodied
    <3>2. PICK n \in AllRecs : n = New /\ n = New' /\ At(n) \in Records
      BY <3>0, <3>1, NewIn
    <3>3. At(n).st = "PRE_WRITE" /\ At(n).key = NewKey /\ At(n).val = NewVal
      BY <3>0, <3>2 DEF Repair, Whole
    <3>4. At(n)' = [At(n) EXCEPT !.crcOk = TRUE]
      BY <3>1, <3>2
    <3>5. At(n)'.st = "PRE_WRITE" /\ At(n)'.crcOk /\ At(n)'.key = NewKey /\ At(n)'.val = NewVal
      BY <3>2, <3>3, <3>4 DEF Records
    <3>6. At(c)' = At(c)
      BY <1>5, <3>1, <3>2, <3>3
    <3>7. HeldKept
      BY <3>1, <3>2, <3>3, <3>5 DEF HeldKept, Held
    <3> QED
      BY <1>5, <1>7, <3>0, <3>2, <3>5, <3>6, <3>7
  <2> QED
    BY <1>0, <2>1, <2>2, <2>3
<1>9. job = "gc" => sec'[cur[1]].dirty = sec[cur[1]].dirty
  BY <1>2, <1>3 DEF SameHeads
<1>10. pc # "delete" /\ pc' # "delete" /\ pc # "alloc" /\ pc' # "alloc"
  BY <1>0
<1>11. job = "gc" /\ pc' \in Writing \cup {"delete"} => target' # cur[1]
  BY <1>0, <1>3
<1> QED
  BY <1>0, <1>1, <1>2, <1>8, <1>9, <1>10, <1>11, RepairMoves

(* Boot, up to the records it moves.                                        *)
LEMMA RepairLoads ==
    ASSUME CInv, Repair, CheckHdr \/ RecoverGc \/ RecoverNext \/ RecoverEnd, pc' # "wipe"
    PROVE Repair' /\ HeldKept
<1> USE DEF CInv, TypeOK
<1>0. /\ op = NoReq /\ op' = NoReq /\ lastComplete' = lastComplete
      /\ pc \in {"checkHdr", "recGc", "recNext", "recEnd"}
      /\ pc' \in {"checkHdr", "recGc", "recNext", "recEnd", "gc", "alloc", "idle"}
      /\ pc' = "checkHdr" => pc = "checkHdr"
  BY DEF Repair, CheckHdr, RecoverGc, RecoverNext, RecoverEnd, Go, ram, call
<1>1. job' # "gc"
  BY <1>0 DEF CheckHdr, RecoverGc, RecoverNext, RecoverEnd, Go, Control, Jobs
<1>2. \A a, b \in Pending : ~Differ(a, b)
  BY <1>0 DEF Repair, Agreed, Moving, Copying, Writing
<1>3. CASE sec' = sec
  <2>1. HeldKept /\ Garbage' = Garbage
    BY <1>3, SecSame, SameKept DEF Garbage
  <2>2. pc' = "alloc" => cur' \in Pending
    <3>1. SUFFICES ASSUME pc' = "alloc" PROVE cur' \in Pending
      OBVIOUS
    <3>2. PICK T : T = {a \in AllRecs : Unfinished(a) /\ Before(cur, a)}
      OBVIOUS
    <3>3. PICK a : a = First(T)
      OBVIOUS
    <3>4. RecoverNext
      BY <1>0, <3>1 DEF CheckHdr, RecoverGc, RecoverNext, RecoverEnd, Go
    <3>5. T # {} /\ T \subseteq AllRecs /\ cur' = a /\ At(a).st = "PRE_DELETE"
      BY <3>1, <3>2, <3>3, <3>4 DEF RecoverNext, PreDeleted
    <3> QED
      BY <3>3, <3>5, FirstIn DEF Pending
  <2> QED
    BY <1>0, <1>1, <1>2, <2>1, <2>2, RepairRests DEF Repair, Whole, Writing, Passed
<1>4. CASE RecoverNext /\ sec' # sec
  <2>1. PICK T : T = {a \in AllRecs : Unfinished(a) /\ Before(cur, a)}
    OBVIOUS
  <2>2. PICK a : a = First(T)
    OBVIOUS
  <2>3. /\ T # {} /\ T \subseteq AllRecs /\ SetStatus(a, "ERR_HDR") /\ pc' = "recEnd"
        /\ ~(At(a).crcOk /\ At(a).st = "PRE_DELETE")
    BY <1>4, <2>1, <2>2 DEF RecoverNext, PreDeleted
  <2>4. a \in T /\ a \in AllRecs
    BY <2>2, <2>3, FirstIn
  <2>5. At(a).st = "PRE_WRITE"
    BY <2>1, <2>3, <2>4 DEF Unfinished, PreDeleted
  <2>6. /\ AllRecs' = AllRecs /\ \A b \in AllRecs : b # a => SameAt(b)
        /\ At(a)'.st = "ERR_HDR"
    BY <2>3, <2>4, <2>5, Marked, Ranks DEF Statuses
  <2>7. HeldKept
    BY <2>4, <2>5, <2>6 DEF HeldKept, Held, SameAt
  <2>8. Garbage' = Garbage
    BY <2>3, StatusHeads, HeadsGarbage
  <2> QED
    BY <1>0, <1>1, <1>2, <2>3, <2>7, <2>8, RepairRests DEF Writing, Passed
<1>5. CASE CheckHdr /\ sec' # sec
  <2>1. PICK bad : bad = {s \in Sectors : ~sec[s].magic}
    OBVIOUS
  <2>2. PICK s \in Sectors : s = Min(bad) /\ ~sec[s].magic /\ sec' = [sec EXCEPT ![s] = Formatted]
    BY <1>5, <2>1, MinIn DEF CheckHdr
  <2>3. \A a \in AllRecs : a[1] # s
    BY <2>2, Addresses DEF InUse
  <2>4. AllRecs' = AllRecs /\ \A a \in AllRecs' : At(a)' = At(a)
    <3>1. AllRecs' = {a \in AllRecs : a[1] # s} /\ \A a \in AllRecs' : At(a)' = At(a)
      BY <2>2, SectorEmptied
    <3> QED
      BY <2>3, <3>1
  <2>5. HeldKept
    BY <2>4 DEF HeldKept, Held
  <2>6. \A t \in Sectors : t # s => sec'[t] = sec[t]
    BY <2>2, SectorEmptied DEF Others
  <2>7. \A t \in Garbage : t \in Garbage'
    BY <2>2, <2>6 DEF Garbage
  <2>8. pc' = "checkHdr"
    BY <1>5 DEF CheckHdr
  <2> QED
    BY <1>0, <1>1, <1>2, <2>5, <2>7, <2>8, RepairRests DEF Repair, Whole, Writing, Passed
<1>6. sec' = sec \/ ((RecoverNext \/ CheckHdr) /\ sec' # sec)
  BY DEF RecoverGc, RecoverEnd
<1> QED
  BY <1>3, <1>4, <1>5, <1>6

LEMMA MinLeast ==
    ASSUME NEW T \in SUBSET Sectors, T # {}
    PROVE Min(T) \in T /\ \A t \in T : ~(t < Min(T))
<1>1. T \in SUBSET Nat
  BY Constants DEF Sectors
<1>2. PICK k \in T : \A j \in T : k <= j
  BY <1>1, Least
<1>3. Min(T) \in T /\ \A j \in T : Min(T) <= j
  BY <1>2 DEF Min
<1>4. \A j \in T : j \in Nat
  BY <1>1
<1> QED
  BY <1>3, <1>4

(* Collection, between two moves.                                           *)
LEMMA RepairCollects ==
    ASSUME CInv, Repair, GcCollect \/ GcPick \/ GcDone \/ Format \/ Return
    PROVE Repair' /\ HeldKept
<1> USE DEF CInv, TypeOK
<1>0. /\ op = NoReq /\ op' = NoReq /\ pc \in {"gc", "gcPick", "gcDone", "format", "return"}
      /\ pc = "format" => job = "gc" /\ cur[1] \in Sectors
      /\ pc = "return" => job = "call"
      /\ gcRet \notin {"alloc", "return"}
  <2>1. op.kind = "none" /\ op = NoReq
    BY Kinds DEF Repair, Types
  <2>2. pc = "format" => job = "gc" /\ cur[1] \in Sectors
    BY <2>1, RepairControl DEF Control, Jobs, Types
  <2>3. pc = "return" => job = "call"
    BY DEF Control, Jobs
  <2>4. op' = NoReq /\ pc \in {"gc", "gcPick", "gcDone", "format", "return"}
    BY <2>1 DEF GcCollect, GcPick, GcDone, Format, Return, Go, call
  <2>5. gcRet \notin {"alloc", "return"}
    BY <2>1, <2>4 DEF Control, Requested, Returns
  <2> QED
    BY <2>1, <2>2, <2>3, <2>4, <2>5
<1>1. /\ pc' \in {"gcPick", "gcDone", "gcNext", "idle", "recNext", "recGc"}
      /\ pc' = "gcNext" => GcPick /\ Garbage # {}
      /\ job' = "gc" => pc' \in {"gcPick", "gcDone", "gcNext"}
  BY <1>0 DEF GcCollect, GcPick, GcDone, Format, FormatNext, Return, Go, Types
<1>2. \A a, b \in Pending : ~Differ(a, b)
  BY <1>0 DEF Repair, Agreed, Moving, Copying, Writing
<1>3. CASE sec' = sec /\ pc' # "gcNext"
  <2>1. HeldKept /\ Garbage' = Garbage
    BY <1>3, SecSame, SameKept DEF Garbage
  <2> QED
    BY <1>0, <1>1, <1>2, <1>3, <2>1, RepairRests DEF Writing, Passed
<1>4. CASE GcPick /\ Garbage # {}
  <2>1. PICK s \in Sectors : s = Min(Garbage) /\ s \in Garbage /\ \A t \in Garbage : ~(t < s)
    BY <1>4, MinLeast, MinIn DEF Garbage
  <2>2. sec' = [sec EXCEPT ![s].dirty = "GC"] /\ cur' = <<s, 0>> /\ pc' = "gcNext"
    BY <1>4, <2>1 DEF GcPick
  <2>3. Untouched /\ sec'[s].dirty = "GC"
    BY <2>1, <2>2, DirtySet
  <2>4. HeldKept
    BY <2>3, UntouchedSame, SameKept
  <2>5. \A t \in Sectors : t # s => sec'[t] = sec[t]
    BY <2>2 DEF FlashOK
  <2>6. Garbage' = Garbage
    BY <2>1, <2>3, <2>5 DEF Garbage, Untouched
  <2>7. \A a \in Held' : ~Moved(a)'
    <3>1. SUFFICES ASSUME NEW a \in Held, Moved(a)' PROVE FALSE
      BY <2>4 DEF HeldKept
    <3>2. a[2] \in Nat /\ a[2] >= 1
      BY Addresses DEF Held
    <3>3. a[2] < 0 \/ a[2] = 0
      BY <2>2, <3>1 DEF Moved
    <3> QED
      BY <3>2, <3>3
  <2>8. Passed'
    BY <2>1, <2>2, <2>3, <2>6, <2>7 DEF Passed, Writing
  <2> QED
    BY <1>0, <1>1, <1>2, <2>2, <2>4, <2>6, <2>8, RepairRests DEF Writing
<1>5. CASE Format
  <2>1. PICK s \in Sectors : s = cur[1] /\ sec' = [sec EXCEPT ![s] = Formatted]
    BY <1>0, <1>5 DEF Format, Go
  <2>2. \A a \in AllRecs : a[1] # s
    BY <1>0, <1>5, <2>1 DEF Repair, Passed, Format, Go
  <2>3. AllRecs' = AllRecs /\ \A a \in AllRecs' : At(a)' = At(a)
    <3>1. AllRecs' = {a \in AllRecs : a[1] # s} /\ \A a \in AllRecs' : At(a)' = At(a)
      BY <2>1, SectorEmptied
    <3> QED
      BY <2>2, <3>1
  <2>4. HeldKept
    BY <2>3 DEF HeldKept, Held
  <2>5. \A t \in Sectors : t # s => sec'[t] = sec[t]
    BY <2>1, SectorEmptied DEF Others
  <2>6. \A a \in Held : a[1] \in Garbage => a[1] \in Garbage'
    BY <2>2, <2>5 DEF Garbage, Held
  <2>7. pc' = "gcPick"
    BY <1>0, <1>5 DEF Format, FormatNext, Go
  <2> QED
    BY <1>0, <1>1, <1>2, <2>4, <2>6, <2>7, RepairRests DEF Writing, Passed
<1>6. sec' = sec \/ Format \/ (GcPick /\ Garbage # {})
  BY DEF GcCollect, GcPick, GcDone, Return
<1> QED
  BY <1>1, <1>3, <1>4, <1>5, <1>6

(* Collection takes the next record to move, or has moved them all.         *)
LEMMA RepairTakes ==
    ASSUME CInv, Repair, GcNext PROVE Repair' /\ HeldKept
<1> USE DEF CInv, TypeOK
<1>0. /\ pc = "gcNext" /\ job = "gc" /\ job' = "gc" /\ sec' = sec /\ op' = NoReq
      /\ cur[1] \in Sectors
  BY RepairControl DEF Repair, GcNext, Control, Jobs, Collecting, call
<1>1. HeldKept /\ Garbage' = Garbage
  BY <1>0, SecSame, SameKept DEF Garbage
<1>2. \A a, b \in Pending : ~Differ(a, b)
  BY <1>0 DEF Repair, Agreed, Moving, Copying, Writing
<1>3. PICK T : T = ToMove(cur[1])
  OBVIOUS
<1>4. T = {a \in Held : a[1] = cur[1] /\ a[2] > cur[2]}
  BY <1>3 DEF ToMove, Held, Repair, Whole
<1>5. /\ sec[cur[1]].dirty = "GC" /\ \A s \in Garbage : ~(s < cur[1])
      /\ \A a \in Held : a[1] = cur[1] /\ Moved(a) =>
            a \in Pending /\ (\A b \in Held : ~Differ(a, b))
            /\ \E b \in Written : At(b).key = At(a).key
  BY <1>0 DEF Repair, Passed, Moving, Copying, Writing
<1>6. PICK c \in Nat : c = cur[2]
  BY DEF Types, Addrs
<1>7. \A a \in Held : a[1] \in Sectors /\ a[2] \in Nat
  BY Addresses DEF Held
<1>8. \A a \in Held : a[1] = cur[1] /\ a \notin T => Moved(a)
  BY <1>0, <1>4, <1>6, <1>7 DEF Moved
<1>9. /\ Written' = Written /\ Pending' = Pending /\ Held' = Held
      /\ \A a \in Held : At(a)' = At(a)
      /\ \A a, b \in Held : Differ(a, b)' <=> Differ(a, b)
      /\ Held = Written \cup Pending
  BY <1>1, KeptSets
<1>10. /\ cur'[1] = cur[1] /\ pc' \in {"erase", "preDelete", "alloc"}
       /\ pc' = "preDelete" => cur' \in Written
       /\ pc' = "alloc" => cur' \in Pending
       /\ \A a \in Held : a[1] = cur[1] /\ Moved(a)' => a \notin T
  <2>1. CASE T = {}
    <3>1. pc' = "erase" /\ cur' = cur
      BY <1>3, <2>1 DEF GcNext
    <3> QED
      BY <2>1, <3>1
  <2>2. CASE T # {}
    <3>1. PICK f : f = First(T)
      OBVIOUS
    <3>2. T \subseteq AllRecs /\ T \subseteq Held
      BY <1>4 DEF Held
    <3>3. f \in T /\ \A b \in T \ {f} : Before(f, b)
      BY <2>2, <3>1, <3>2, FirstIn
    <3>4. cur' = f /\ pc' = IF At(f).st = "WRITE" THEN "preDelete" ELSE "alloc"
      BY <1>3, <2>2, <3>1 DEF GcNext
    <3>5. f \in Held /\ f[1] = cur[1]
      BY <1>4, <3>3
    <3>6. At(f).st = "WRITE" => f \in Written
      BY <3>5 DEF Held, Written
    <3>7. At(f).st # "WRITE" => f \in Pending
      BY <3>5 DEF Held, Pending
    <3>8. \A a \in T : ~(a[2] < f[2])
      <4>1. SUFFICES ASSUME NEW a \in T, a[2] < f[2] PROVE FALSE
        OBVIOUS
      <4>2. a[2] \in Nat /\ f[2] \in Nat /\ a[1] = f[1] /\ f[1] \in Nat
        BY <1>0, <1>4, <1>7, <3>3, Constants DEF Sectors
      <4>3. a # f /\ ~Before(f, a)
        BY <4>1, <4>2 DEF Before
      <4> QED
        BY <3>3, <4>1, <4>3
    <3>9. pc' \in {"preDelete", "alloc"}
      BY <3>4
    <3>10. \A a : Moved(a)' => a[2] < f[2]
      BY <3>4, <3>9 DEF Moved
    <3> QED
      BY <3>4, <3>5, <3>6, <3>7, <3>8, <3>9, <3>10
  <2> QED
    BY <2>1, <2>2
<1>11. sec'[cur'[1]].dirty = "GC" /\ \A s \in Garbage' : ~(s < cur'[1])
  BY <1>0, <1>1, <1>5, <1>10
<1>12. \A a \in Held' : a[1] = cur'[1] /\ Moved(a)' =>
            a \in Pending' /\ (\A b \in Held' : ~Differ(a, b)')
            /\ \E b \in Written' : At(b)'.key = At(a)'.key
  BY <1>5, <1>8, <1>9, <1>10
<1>13. Passed'
  BY <1>10, <1>11, <1>12 DEF Passed, Writing
<1> QED
  BY <1>0, <1>1, <1>2, <1>10, <1>13, RepairRests DEF Writing

(* The sector of the record moved is marked; then the search goes on.       *)
LEMMA RepairDirty ==
    ASSUME CInv, Repair, Dirty PROVE Repair' /\ HeldKept
<1> USE DEF CInv, TypeOK
<1>0. /\ pc = "dirty" /\ op' = NoReq /\ UNCHANGED <<job, cur>> /\ MarkDirty /\ job # "call"
      /\ cur \in AllRecs /\ cur[1] \in Sectors
  BY RepairControl DEF Repair, Dirty, Go, place, call, Replacing
<1>1. pc' = IF job = "gc" THEN "gcNext" ELSE "recNext"
  BY <1>0 DEF Dirty, Go, DirtyAfter, Types
<1>2. HeldKept
  BY <1>0, MarkKeeps, UntouchedSame, SameKept
<1>3. \A a, b \in Pending : ~Differ(a, b)
  BY <1>0 DEF Repair, Agreed, Moving, Copying, Writing
<1>4. \A s \in Sectors :
            /\ sec'[s].magic = sec[s].magic
            /\ sec'[s].dirty = IF s = cur[1] /\ sec[s].dirty = "FALSE" THEN "TRUE" ELSE sec[s].dirty
  BY <1>0, MarkHeads DEF Old
<1>5. Garbage \subseteq Garbage'
  BY <1>4 DEF Garbage
<1>6. Passed'
  <2>1. SUFFICES ASSUME job = "gc" PROVE Passed'
    BY <1>0 DEF Passed
  <2>2. /\ sec[cur[1]].dirty = "GC" /\ \A s \in Garbage : ~(s < cur[1])
        /\ \A a \in Held : a[1] = cur[1] /\ Moved(a) =>
              a \in Pending /\ (\A b \in Held : ~Differ(a, b))
              /\ \E b \in Written : At(b).key = At(a).key
    BY <1>0, <2>1 DEF Repair, Passed, Moving, Copying, Writing
  <2>3. Garbage' = Garbage
    BY <1>4, <2>2 DEF Garbage
  <2>4. ASSUME NEW a \in Held, a[1] = cur[1], Moved(a)' PROVE Moved(a)
    <3>1. a # cur
      BY <1>0 DEF Repair, Taken
    <3>2. a = <<a[1], a[2]>> /\ cur = <<cur[1], cur[2]>>
      BY <1>0, Addresses DEF Held
    <3>3. a[2] # cur[2]
      BY <2>4, <3>1, <3>2
    <3> QED
      BY <1>0, <1>1, <2>1, <2>4, <3>3 DEF Moved
  <2>5. /\ Written' = Written /\ Pending' = Pending /\ Held' = Held
        /\ \A a \in Held : At(a)' = At(a)
        /\ \A a, b \in Held : Differ(a, b)' <=> Differ(a, b)
        /\ Held = Written \cup Pending
    BY <1>2, KeptSets
  <2>6. \A a \in Held' : a[1] = cur'[1] /\ Moved(a)' =>
              a \in Pending' /\ (\A b \in Held' : ~Differ(a, b)')
              /\ \E b \in Written' : At(b)'.key = At(a)'.key
    BY <1>0, <2>2, <2>4, <2>5
  <2>7. sec'[cur'[1]].dirty = "GC" /\ \A s \in Garbage' : ~(s < cur'[1])
    BY <1>0, <1>4, <2>2, <2>3
  <2>8. pc' = "gcNext"
    BY <1>1, <2>1
  <2> QED
    BY <2>6, <2>7, <2>8 DEF Passed, Writing
<1> QED
  BY <1>0, <1>1, <1>2, <1>3, <1>5, <1>6, RepairRests DEF Writing

(* A written record is marked, to be moved.                                 *)
LEMMA RepairPreDelete ==
    ASSUME CInv, CInv', Repair, PreDelete PROVE Repair' /\ MapKept
<1> USE DEF CInv, TypeOK
<1>0. /\ UNCHANGED <<op, job, cur>>
      /\ pc = "preDelete" /\ pc' = "preDirty" /\ job = "gc"
      /\ SetStatus(Old, "PRE_DELETE") /\ op' = NoReq
  <2>1. UNCHANGED <<op, job, cur>> /\ pc = "preDelete" /\ pc' = "preDirty" /\ SetStatus(Old, "PRE_DELETE")
    BY DEF PreDelete, Go, place, call
  <2> QED
    BY <2>1, RepairControl DEF Repair, Replacing, Control, Jobs, Types
<1>1. PICK c \in AllRecs : c = cur /\ c = Old /\ c \in Written /\ c[1] \in Sectors /\ sec[c[1]].magic
  BY <1>0, RepairControl DEF Repair, Taken, Replacing, Old
<1>2. At(c).st = "WRITE"
  BY <1>1 DEF Written
<1>3. /\ AllRecs' = AllRecs /\ \A b \in AllRecs : b # c => SameAt(b)
      /\ At(c)'.st = "PRE_DELETE" /\ At(c)'.crcOk = At(c).crcOk
      /\ At(c)'.key = At(c).key /\ At(c)'.val = At(c).val
  BY <1>0, <1>1, <1>2, Marked, Ranks DEF Statuses
<1>4. SameHeads /\ Garbage' = Garbage
  BY HeadsKept, HeadsGarbage
<1>5. /\ Written' = Written \ {c} /\ Pending' = Pending \cup {c} /\ Held' = Held
      /\ \A a \in Held : At(a)'.key = At(a).key /\ At(a)'.val = At(a).val /\ At(a)'.crcOk = At(a).crcOk
      /\ \A a \in Held : a # c => At(a)' = At(a)
      /\ Held = Written \cup Pending /\ Written \cap Pending = {}
  BY <1>2, <1>3 DEF Written, Pending, Held, SameAt
<1>6. \A a, b \in Held : Differ(a, b)' <=> Differ(a, b)
  BY <1>5 DEF Differ
<1>7. NewKey' = At(c).key
  BY <1>0, <1>1, <1>3 DEF NewKey, At
<1>8. Moving' /\ ~Making' /\ ~Moving
  BY <1>0 DEF Moving, Making, Copying, Writing
<1>9. /\ sec[c[1]].dirty = "GC" /\ \A s \in Garbage : ~(s < c[1])
      /\ \A a \in Held : a[1] = c[1] /\ Moved(a) =>
            a \in Pending /\ (\A b \in Held : ~Differ(a, b))
            /\ \E b \in Written : At(b).key = At(a).key
  BY <1>0, <1>1, <1>8 DEF Repair, Passed
<1>10. \A a, b \in Pending : ~Differ(a, b)
  BY <1>8 DEF Repair, Agreed
<1>11. Whole'
  BY <1>0, <1>5, <1>8 DEF Repair, Whole
<1>12. Taken'
  BY <1>0, <1>1, <1>5 DEF Taken
<1>13. Once'
  <2>1. \A a \in Written' : At(a)'.key # NewKey'
    BY <1>1, <1>5, <1>7 DEF Repair, Once
  <2>2. \A a, b \in Written' : At(a)'.key = At(b)'.key => a = b
    BY <1>5 DEF Repair, Once
  <2> QED
    BY <1>0, <2>1, <2>2 DEF Once
<1>14. Outdated'
  <2>1. c[1] \in Garbage
    BY <1>1, <1>9 DEF Garbage
  <2> QED
    BY <1>4, <1>5, <1>6, <2>1 DEF Repair, Outdated
<1>15. Agreed'
  <2>1. \A a, b \in Pending' : Differ(a, b)' => a = cur' \/ b = cur'
    BY <1>0, <1>1, <1>5, <1>6, <1>10
  <2> QED
    BY <1>0, <1>8, <2>1 DEF Agreed
<1>16. \A a \in Pending' : Differ(a, c)' => Before(c, a)
  <2>1. SUFFICES ASSUME NEW a \in Pending', Differ(a, c)', ~Before(c, a) PROVE FALSE
    OBVIOUS
  <2>2. a \in Pending /\ Differ(a, c) /\ a \in Held /\ c \in Held
    BY <1>1, <1>5, <1>6, <2>1 DEF Differ
  <2>3. a[1] \in Garbage
    BY <2>2 DEF Repair, Outdated
  <2>4. a = <<a[1], a[2]>> /\ c = <<c[1], c[2]>> /\ a[2] \in Nat /\ c[2] \in Nat
        /\ a[1] \in Nat /\ c[1] \in Nat
    BY <1>1, <2>2, Addresses DEF Held
  <2>5. a # c
    BY <2>2 DEF Differ
  <2>6. ~(a[1] < c[1])
    BY <1>9, <2>3
  <2>7. a[1] = c[1] /\ a[2] < c[2]
    BY <2>1, <2>4, <2>5, <2>6 DEF Before
  <2>8. Moved(a)
    BY <1>1, <2>7 DEF Moved
  <2> QED
    BY <1>9, <2>2, <2>7, <2>8
<1>17. FirstMoved'
  <2>1. \A a : Differ(a, cur)' = Differ(a, c)'
    BY <1>0, <1>1 DEF Differ, At
  <2> QED
    BY <1>0, <1>1, <1>16, <2>1 DEF FirstMoved
<1>18. Passed'
  <2>1. \A a : Moved(a)' <=> Moved(a)
    BY <1>0 DEF Moved
  <2>2. \A a \in Held' : a[1] = c[1] /\ Moved(a)' =>
              /\ a \in Pending' /\ \A b \in Held' : ~Differ(a, b)'
              /\ NewKey' = At(a)'.key \/ \E b \in Written' : At(b)'.key = At(a)'.key
    <3>1. SUFFICES ASSUME NEW a \in Held, a[1] = c[1], Moved(a)
                   PROVE /\ a \in Pending' /\ \A b \in Held' : ~Differ(a, b)'
                         /\ NewKey' = At(a)'.key \/ \E b \in Written' : At(b)'.key = At(a)'.key
      BY <1>5, <2>1
    <3>2. PICK b \in Written : At(b).key = At(a).key
      BY <1>9, <3>1
    <3>3. b = c => NewKey' = At(a)'.key
      BY <1>5, <1>7, <3>1, <3>2
    <3>4. b # c => b \in Written' /\ At(b)'.key = At(a)'.key
      BY <1>5, <3>1, <3>2
    <3> QED
      BY <1>5, <1>6, <1>9, <3>1, <3>3, <3>4
  <2>3. sec'[c[1]].dirty = "GC"
    BY <1>1, <1>4, <1>9 DEF SameHeads
  <2> QED
    BY <1>0, <1>1, <1>4, <1>8, <1>9, <2>2, <2>3 DEF Passed, Writing
<1>19. Repair'
  BY <1>0, <1>11, <1>12, <1>13, <1>14, <1>15, <1>17, <1>18 DEF Repair
<1>20. ASSUME NEW k \in Keys PROVE Retained(k)' = Retained(k)
  <2>1. CASE At(c).key = k
    <3>1. Retained(k) = At(c).val
      BY <1>1, <2>1, TellsNext DEF Tells
    <3>2. \A b \in Written' : At(b)'.key # k
      BY <1>0, <1>7, <1>13, <2>1 DEF Once, Copying
    <3>3. c \in Pending' /\ At(c)'.key = k
      BY <1>3, <1>5, <2>1
    <3>4. Retained(k)' = At(c)'.val
      BY <1>16, <1>19, <3>2, <3>3, TellsThen DEF Tells
    <3> QED
      BY <1>3, <3>1, <3>4
  <2>2. CASE At(c).key # k
    <3>1. KeyKept(k)
      BY <1>5, <2>2 DEF KeyKept, HeldOf
    <3> QED
      BY <3>1, KeyRetained
  <2> QED
    BY <2>1, <2>2
<1> QED
  BY <1>19, <1>20 DEF MapKept

(* The copy is written: the key has a written record again.                 *)
LEMMA RepairCommit ==
    ASSUME CInv, CInv', Repair, Commit PROVE Repair' /\ MapKept
<1> USE DEF CInv, TypeOK
<1>0. /\ UNCHANGED <<op, job, cur, target>> /\ pc = "commit" /\ job # "call" /\ op' = NoReq
      /\ cur \in AllRecs /\ SetStatus(New, "WRITE")
  <2>1. UNCHANGED <<op, job, cur, target>> /\ pc = "commit" /\ SetStatus(New, "WRITE")
    BY DEF Commit, Go, place, call, New
  <2> QED
    BY <2>1, RepairControl DEF Repair, Writing
<1>1. pc' = "delete"
  <2>1. Old # NoAddr
    BY <1>0, Addresses DEF Old
  <2> QED
    BY <2>1 DEF Commit, Go
<1>2. Moving /\ Moving' /\ Copying /\ ~Making' /\ Making
  BY <1>0, <1>1 DEF Moving, Copying, Making, Writing
<1>3. PICK c \in Pending : c = cur
  BY <1>2 DEF Repair, Taken
<1>4. PICK n \in AllRecs : n = New /\ n[1] = target
  BY <1>2, NewIn
<1>5. At(n).st = "PRE_WRITE" /\ At(n).crcOk /\ At(n).key = NewKey /\ At(n).val = NewVal
  BY <1>0, <1>2, <1>4 DEF Repair, Whole
<1>6. At(n).key = At(c).key /\ At(n).val = At(c).val /\ NewKey = At(c).key
  BY <1>0, <1>3, <1>5 DEF NewKey, NewVal
<1>7. /\ AllRecs' = AllRecs /\ \A b \in AllRecs : b # n => SameAt(b)
      /\ At(n)'.st = "WRITE" /\ At(n)'.crcOk
      /\ At(n)'.key = At(n).key /\ At(n)'.val = At(n).val
  BY <1>0, <1>4, <1>5, Marked, Ranks DEF Statuses
<1>8. SameHeads /\ Garbage' = Garbage
  BY HeadsKept, HeadsGarbage
<1>9. /\ Written' = Written \cup {n} /\ Pending' = Pending /\ Held' = Held \cup {n}
      /\ \A a \in Held : At(a)' = At(a) /\ a # n
      /\ Held = Written \cup Pending /\ Written \cap Pending = {}
  BY <1>5, <1>7 DEF Written, Pending, Held, SameAt
<1>10. \A a, b \in Held : /\ Differ(a, b)' <=> Differ(a, b)
                          /\ Differ(a, n)' <=> Differ(a, c)
                          /\ ~Differ(n, n)'
  BY <1>3, <1>6, <1>7, <1>9 DEF Differ
<1>11. NewKey' = NewKey
  BY <1>0, <1>3, <1>6, <1>9 DEF NewKey, At
<1>12. Whole'
  BY <1>1, <1>2, <1>7, <1>9 DEF Repair, Whole
<1>13. Taken'
  BY <1>0, <1>1, <1>3, <1>9 DEF Taken
<1>14. \A a \in Written : At(a).key # NewKey
  BY <1>2 DEF Repair, Once
<1>15. Once'
  <2>1. ~Copying'
    BY <1>1 DEF Copying, Writing
  <2>2. n \in Written' /\ At(n)'.key = NewKey'
    BY <1>5, <1>7, <1>9, <1>11
  <2>3. \A a, b \in Written' : At(a)'.key = At(b)'.key => a = b
    BY <1>5, <1>7, <1>9, <1>14 DEF Repair, Once
  <2> QED
    BY <2>1, <2>2, <2>3 DEF Once
<1>16. Outdated'
  BY <1>3, <1>8, <1>9, <1>10 DEF Repair, Outdated
<1>17. Agreed'
  BY <1>0, <1>1, <1>2, <1>9, <1>10 DEF Repair, Agreed
<1>18. FirstMoved'
  <2>1. Differ(c, cur)' = Differ(c, c)' /\ \A a : Differ(a, cur)' = Differ(a, c)'
    BY <1>0, <1>3 DEF Differ, At
  <2> QED
    BY <1>0, <1>2, <1>3, <1>9, <1>10, <2>1 DEF Repair, FirstMoved
<1>19. Passed'
  <2>1. SUFFICES ASSUME job = "gc" PROVE Passed'
    BY <1>0 DEF Passed
  <2>2. /\ sec[cur[1]].dirty = "GC" /\ \A s \in Garbage : ~(s < cur[1])
        /\ \A a \in Held : a[1] = cur[1] /\ Moved(a) =>
              /\ a \in Pending /\ \A b \in Held : ~Differ(a, b)
              /\ NewKey = At(a).key \/ \E b \in Written : At(b).key = At(a).key
        /\ target # cur[1]
    BY <1>0, <2>1 DEF Repair, Passed, Writing
  <2>3. \A a : Moved(a)' <=> Moved(a)
    BY <1>0, <1>1 DEF Moved
  <2>4. \A a \in Held' : a[1] = cur[1] => a \in Held
    BY <1>4, <1>9, <2>2
  <2>5. \A a \in Held' : a[1] = cur[1] /\ Moved(a)' =>
              /\ a \in Pending' /\ \A b \in Held' : ~Differ(a, b)'
              /\ NewKey' = At(a)'.key \/ \E b \in Written' : At(b)'.key = At(a)'.key
    <3>1. SUFFICES ASSUME NEW a \in Held, a[1] = cur[1], Moved(a)
                   PROVE /\ a \in Pending' /\ \A b \in Held' : ~Differ(a, b)'
                         /\ NewKey' = At(a)'.key \/ \E b \in Written' : At(b)'.key = At(a)'.key
      BY <2>3, <2>4
    <3>2. a \in Pending /\ \A b \in Held : ~Differ(a, b)
      BY <2>2, <3>1
    <3>3. \A b \in Held' : ~Differ(a, b)'
      BY <1>3, <1>9, <1>10, <3>1, <3>2
    <3>4. NewKey = At(a).key \/ \E b \in Written : At(b).key = At(a).key
      BY <2>2, <3>1
    <3> QED
      BY <1>9, <1>11, <3>1, <3>2, <3>3, <3>4
  <2>6. sec'[cur[1]].dirty = "GC"
    BY <1>8, <2>1, <2>2, RepairControl, <1>0 DEF SameHeads, Repair
  <2> QED
    BY <1>0, <1>1, <1>2, <1>8, <2>2, <2>5, <2>6 DEF Passed, Writing
<1>20. Repair'
  BY <1>0, <1>12, <1>13, <1>15, <1>16, <1>17, <1>18, <1>19 DEF Repair
<1>21. ASSUME NEW k \in Keys PROVE Retained(k)' = Retained(k)
  <2>1. CASE At(c).key = k
    <3>1. Retained(k) = At(c).val
      BY <1>2, <1>3, <1>6, <1>14, <2>1, TellsNext DEF Tells, Repair, FirstMoved
    <3>2. n \in Written' /\ At(n)'.key = k /\ At(n)'.val = At(c).val
      BY <1>6, <1>7, <1>9, <2>1
    <3>3. Retained(k)' = At(n)'.val
      BY <1>20, <3>2, TellsThen DEF Tells
    <3> QED
      BY <3>1, <3>2, <3>3
  <2>2. CASE At(c).key # k
    <3>1. KeyKept(k)
      BY <1>6, <1>7, <1>9, <2>2 DEF KeyKept, HeldOf
    <3> QED
      BY <3>1, KeyRetained
  <2> QED
    BY <2>1, <2>2
<1> QED
  BY <1>20, <1>21 DEF MapKept

(* The record moved is deleted.                                             *)
LEMMA RepairDelete ==
    ASSUME CInv, CInv', Repair, Delete PROVE Repair' /\ MapKept
<1> USE DEF CInv, TypeOK
<1>0. /\ UNCHANGED <<op, job, cur, target>> /\ pc = "delete" /\ pc' = "dirty" /\ job # "call"
      /\ op' = NoReq /\ SetStatus(Old, "DELETED")
  <2>1. UNCHANGED <<op, job, cur, target>> /\ pc = "delete" /\ pc' = "dirty" /\ SetStatus(Old, "DELETED")
    BY DEF Delete, Go, place, call
  <2> QED
    BY <2>1, RepairControl DEF Repair, Replacing
<1>1. Moving /\ ~Moving' /\ ~Making' /\ ~Copying'
  BY <1>0 DEF Moving, Copying, Making, Writing
<1>2. PICK c \in Pending : c = cur /\ c = Old
  BY <1>0, <1>1 DEF Repair, Taken, Old
<1>3. c \in AllRecs /\ At(c).st = "PRE_DELETE"
  BY <1>2 DEF Pending
<1>4. /\ AllRecs' = AllRecs /\ \A b \in AllRecs : b # c => SameAt(b)
      /\ At(c)'.st = "DELETED"
  BY <1>0, <1>2, <1>3, Marked, Ranks DEF Statuses
<1>5. SameHeads /\ Garbage' = Garbage
  BY HeadsKept, HeadsGarbage
<1>6. /\ Written' = Written /\ Pending' = Pending \ {c} /\ Held' = Held \ {c}
      /\ \A a \in Held' : At(a)' = At(a)
      /\ Held = Written \cup Pending /\ Written \cap Pending = {}
  BY <1>3, <1>4 DEF Written, Pending, Held, SameAt
<1>7. \A a, b \in Held' : Differ(a, b)' <=> Differ(a, b)
  BY <1>6 DEF Differ
<1>8. PICK w \in Written : At(w).key = At(c).key
  BY <1>0, <1>2 DEF Repair, Once, NewKey
<1>9. Whole'
  BY <1>0, <1>1, <1>6 DEF Repair, Whole
<1>10. Taken'
  BY <1>0, <1>1, <1>2, <1>6 DEF Taken
<1>11. Once'
  BY <1>0, <1>1, <1>6 DEF Repair, Once
<1>12. Outdated'
  BY <1>5, <1>6, <1>7 DEF Repair, Outdated
<1>13. Agreed'
  BY <1>2, <1>6, <1>7 DEF Repair, Agreed
<1>14. FirstMoved'
  BY <1>1 DEF FirstMoved
<1>15. Passed'
  <2>1. SUFFICES ASSUME job = "gc" PROVE Passed'
    BY <1>0 DEF Passed
  <2>2. /\ sec[cur[1]].dirty = "GC" /\ \A s \in Garbage : ~(s < cur[1])
        /\ \A a \in Held : a[1] = cur[1] /\ Moved(a) =>
              /\ a \in Pending /\ \A b \in Held : ~Differ(a, b)
              /\ NewKey = At(a).key \/ \E b \in Written : At(b).key = At(a).key
        /\ target # cur[1]
    BY <1>0, <2>1 DEF Repair, Passed, Writing
  <2>3. \A a : Moved(a)' <=> Moved(a)
    BY <1>0 DEF Moved
  <2>4. NewKey = At(c).key
    BY <1>0, <1>2 DEF NewKey
  <2>5. \A a \in Held' : a[1] = cur[1] /\ Moved(a)' =>
              /\ a \in Pending' /\ \A b \in Held' : ~Differ(a, b)'
              /\ \E b \in Written' : At(b)'.key = At(a)'.key
    <3>1. SUFFICES ASSUME NEW a \in Held', a[1] = cur[1], Moved(a)
                   PROVE /\ a \in Pending' /\ \A b \in Held' : ~Differ(a, b)'
                         /\ \E b \in Written' : At(b)'.key = At(a)'.key
      BY <2>3
    <3>2. a \in Pending /\ \A b \in Held : ~Differ(a, b)
      BY <1>6, <2>2, <3>1
    <3>3. PICK b \in Written : At(b).key = At(a).key
      BY <1>6, <1>8, <2>2, <2>4, <3>1
    <3>4. b \in Written' /\ b \in Held'
      BY <1>2, <1>6
    <3>5. At(b)'.key = At(a)'.key
      BY <1>6, <3>1, <3>3, <3>4
    <3> QED
      BY <1>6, <1>7, <3>1, <3>2, <3>4, <3>5
  <2>6. sec'[cur[1]].dirty = "GC"
    BY <1>5, <2>1, <2>2, RepairControl, <1>0 DEF SameHeads, Repair
  <2> QED
    BY <1>0, <1>1, <1>5, <2>2, <2>5, <2>6 DEF Passed
<1>16. Repair'
  BY <1>0, <1>9, <1>10, <1>11, <1>12, <1>13, <1>14, <1>15 DEF Repair
<1>17. ASSUME NEW k \in Keys PROVE Retained(k)' = Retained(k)
  <2>1. CASE At(c).key = k
    <3>1. Retained(k) = At(w).val
      BY <1>8, <2>1, TellsNext DEF Tells
    <3>2. w \in Written' /\ At(w)' = At(w)
      BY <1>2, <1>6
    <3>3. Retained(k)' = At(w)'.val
      BY <1>8, <1>16, <2>1, <3>2, TellsThen DEF Tells
    <3> QED
      BY <3>1, <3>2, <3>3
  <2>2. CASE At(c).key # k
    <3>1. KeyKept(k)
      BY <1>6, <2>2 DEF KeyKept, HeldOf
    <3> QED
      BY <3>1, KeyRetained
  <2> QED
    BY <2>1, <2>2
<1> QED
  BY <1>16, <1>17 DEF MapKept

(* The sector collected is erased: what it still had is written elsewhere.  *)
LEMMA RepairErase ==
    ASSUME CInv, CInv', Repair, Erase PROVE Repair' /\ MapKept
<1> USE DEF CInv, TypeOK
<1>0. /\ UNCHANGED <<op, job, cur>> /\ pc = "erase" /\ pc' = "format" /\ job = "gc"
      /\ op' = NoReq /\ cur[1] \in Sectors /\ sec' = [sec EXCEPT ![cur[1]] = Blank]
  <2>1. UNCHANGED <<op, job, cur>> /\ pc = "erase" /\ pc' = "format"
        /\ sec' = [sec EXCEPT ![cur[1]] = Blank]
    BY DEF Erase, Go, place, call
  <2> QED
    BY <2>1, RepairControl DEF Repair, Control, Jobs, Types
<1>1. PICK s \in Sectors : s = cur[1]
  BY <1>0
<1>2. /\ AllRecs' = {a \in AllRecs : a[1] # s} /\ \A a \in AllRecs' : At(a)' = At(a)
      /\ \A t \in Sectors : t # s => sec'[t] = sec[t]
      /\ sec'[s] = Blank
  BY <1>0, <1>1, SectorEmptied DEF Others
<1>3. \A t : t \in Garbage' <=> t \in Garbage /\ t # s
  BY <1>2 DEF Garbage, Blank
<1>4. ~Moving /\ ~Moving' /\ ~Making' /\ ~Copying'
  BY <1>0 DEF Moving, Copying, Making, Writing
<1>5. /\ \A t \in Garbage : ~(t < s)
      /\ \A a \in Held : a[1] = s =>
            /\ a \in Pending /\ \A b \in Held : ~Differ(a, b)
            /\ \E b \in Written : At(b).key = At(a).key
  BY <1>0, <1>1, <1>4 DEF Repair, Passed, Moved
<1>6. /\ Held = Written \cup Pending /\ Written \cap Pending = {}
      /\ Held \subseteq AllRecs
  BY DEF Held, Written, Pending
<1>7. \A b \in Written : b[1] # s
  BY <1>5, <1>6
<1>8. /\ Written' = Written /\ Pending' = {a \in Pending : a[1] # s}
      /\ Held' = {a \in Held : a[1] # s} /\ \A a \in Held' : At(a)' = At(a)
  BY <1>2, <1>7 DEF Held, Written, Pending
<1>9. \A a, b \in Held' : Differ(a, b)' <=> Differ(a, b)
  BY <1>8 DEF Differ
<1>10. \A a, b \in Pending : ~Differ(a, b)
  BY <1>4 DEF Repair, Agreed
<1>11. Whole'
  BY <1>0, <1>4, <1>8 DEF Repair, Whole
<1>12. Taken'
  BY <1>0, <1>4 DEF Taken
<1>13. Once'
  BY <1>0, <1>4, <1>6, <1>7, <1>8 DEF Repair, Once
<1>14. Outdated'
  BY <1>3, <1>6, <1>8, <1>9 DEF Repair, Outdated
<1>15. Agreed'
  BY <1>6, <1>8, <1>9, <1>10 DEF Agreed
<1>16. FirstMoved'
  BY <1>4 DEF FirstMoved
<1>17. Passed'
  <2>1. pc' \notin Writing \cup {"delete", "dirty"} /\ cur' = cur
    BY <1>0 DEF Writing
  <2> QED
    BY <1>0, <1>1, <1>2, <1>3, <1>5, <1>8, <2>1 DEF Passed
<1>18. Repair'
  BY <1>0, <1>11, <1>12, <1>13, <1>14, <1>15, <1>16, <1>17 DEF Repair
<1>19. ASSUME NEW k \in Keys PROVE Retained(k)' = Retained(k)
  <2>1. CASE \E a \in Held : a[1] = s /\ At(a).key = k
    <3>1. PICK w \in Written : At(w).key = k
      BY <1>5, <2>1
    <3>2. Retained(k) = At(w).val
      BY <3>1, TellsNext DEF Tells
    <3>3. w \in Written' /\ At(w)' = At(w)
      BY <1>6, <1>7, <1>8
    <3>4. Retained(k)' = At(w)'.val
      BY <1>18, <3>1, <3>3, TellsThen DEF Tells
    <3> QED
      BY <3>2, <3>3, <3>4
  <2>2. CASE \A a \in Held : a[1] = s => At(a).key # k
    <3>1. KeyKept(k)
      BY <1>8, <2>2 DEF KeyKept, HeldOf
    <3> QED
      BY <3>1, KeyRetained
  <2> QED
    BY <2>1, <2>2
<1> QED
  BY <1>18, <1>19 DEF MapKept

(* Until boot ends, a repair goes on, or starts the store afresh.           *)
LEMMA RepairSteps ==
    ASSUME CInv, CInv', Repair, booting, ~Lost, ~Crash, [Next]_vars
    PROVE (Repair' \/ (CheckHdr /\ pc' = "wipe")) /\ MapKept
<1> USE DEF CInv, TypeOK
<1>0. op = NoReq /\ pc # "idle"
  BY DEF Repair, Control, Requested
<1>1. CASE UNCHANGED vars
  <2>1. UNCHANGED <<sec, lastComplete, target, cur, op, pc, job>>
    BY <1>1 DEF vars, call, ram, place
  <2>2. /\ AllRecs' = AllRecs /\ \A a : At(a)' = At(a)
        /\ New' = New /\ NewKey' = NewKey /\ NewVal' = NewVal
    BY <2>1 DEF At, AllRecs, InUse, New, LastOf, NewKey, NewVal
  <2>3. /\ Written' = Written /\ Pending' = Pending /\ Held' = Held
        /\ \A a, b : Differ(a, b)' <=> Differ(a, b)
    BY <2>2 DEF Written, Pending, Held, Differ
  <2>4. UNCHANGED <<Making, Copying, Moving, Garbage>> /\ \A a : Moved(a)' <=> Moved(a)
    BY <2>1 DEF Making, Copying, Moving, Garbage, Moved
  <2>5. Whole' /\ Taken' /\ Once' /\ Outdated'
    BY <2>1, <2>2, <2>3, <2>4 DEF Repair, Whole, Taken, Once, Outdated
  <2>6. Agreed' /\ FirstMoved' /\ Passed'
    BY <2>1, <2>2, <2>3, <2>4 DEF Repair, Agreed, FirstMoved, Passed
  <2>7. HeldKept
    BY <2>2, <2>3 DEF HeldKept
  <2> QED
    BY <1>0, <2>1, <2>5, <2>6, <2>7, HeldMapKept DEF Repair
<1>2. ASSUME Repair', HeldKept PROVE Repair' /\ MapKept
  BY <1>2, HeldMapKept
<1>3. ~CallStep
  BY <1>0 DEF CallStep, CallSet, CallDel, CallDefault, GetEnv, Begin, Go
<1>4. ~NewEnv /\ ~FindOld /\ ~Finish /\ ~Wipe
  BY <1>0, RepairControl DEF NewEnv, FindOld, Finish, Wipe, Go
<1>5. CASE SetStep
  <2>1. CASE PreDelete \/ Commit \/ Delete
    BY <2>1, RepairPreDelete, RepairCommit, RepairDelete
  <2>2. CASE PreDirty \/ UpdateSecStatus
    BY <1>2, <2>2, RepairSectors
  <2>3. CASE PreWrite \/ WriteHeader \/ WriteBody
    BY <1>2, <2>3, RepairWrites
  <2>4. CASE Dirty
    BY <1>2, <2>4, RepairDirty
  <2>5. CASE Return
    BY <1>2, <2>5, RepairCollects
  <2> QED
    BY <1>4, <1>5, <2>1, <2>2, <2>3, <2>4, <2>5 DEF SetStep
<1>6. CASE GcStep
  <2>1. CASE MoveAlloc
    BY <1>2, <2>1, RepairAllocs
  <2>2. CASE GcNext
    BY <1>2, <2>2, RepairTakes
  <2>3. CASE Erase
    BY <2>3, RepairErase
  <2>4. CASE GcCollect \/ GcPick \/ Format \/ GcDone
    BY <1>2, <2>4, RepairCollects
  <2> QED
    BY <1>6, <2>1, <2>2, <2>3, <2>4 DEF GcStep
<1>7. CASE BootStep /\ pc' # "wipe"
  BY <1>2, <1>4, <1>7, RepairLoads DEF BootStep
<1>8. CASE BootStep /\ pc' = "wipe"
  <2>1. CheckHdr
    BY <1>4, <1>8 DEF BootStep, RecoverGc, RecoverNext, RecoverEnd, Go
  <2>2. sec' = sec
    BY <1>8, <2>1 DEF CheckHdr
  <2> QED
    BY <1>8, <2>1, <2>2, SecSame, SameKept, HeldMapKept
<1> QED
  BY <1>1, <1>3, <1>5, <1>6, <1>7, <1>8 DEF Next

-----------------------------------------------------------------------------
(* What the cache leads to during a repair, and how far the search is.      *)
LEMMA LedKept ==
    ASSUME FlashOK, Led, cache' = cache,
           \A a \in AllRecs' :
              \/ At(a)'.key = NoKey \/ Readable(a)'
              \/ /\ a \in AllRecs /\ At(a)'.key = At(a).key /\ FlashAddr(a)' = FlashAddr(a)
                 /\ Readable(a) => Readable(a)'
    PROVE Led'
<1>1. SUFFICES ASSUME NEW k \in Keys, NEW a \in CacheHits(k)' PROVE Readable(a)'
  BY DEF Led
<1>2. a \in AllRecs' /\ At(a)'.key = k /\ FlashAddr(a)' = cache[k]
  BY DEF CacheHits
<1>3. At(a)'.key # NoKey
  BY <1>2, Constants
<1>4. CASE a \in AllRecs /\ At(a)'.key = At(a).key /\ FlashAddr(a)' = FlashAddr(a)
           /\ (Readable(a) => Readable(a)')
  <2>1. a \in CacheHits(k)
    BY <1>2, <1>4 DEF CacheHits
  <2> QED
    BY <1>4, <2>1 DEF Led
<1> QED
  BY <1>2, <1>3, <1>4

(* Between two moves.                                                       *)
LEMMA LedRests ==
    ASSUME FlashOK, Led, cache' = cache, pc \notin Writing \cup {"preDirty", "alloc"},
           \A a \in AllRecs' : /\ a \in AllRecs /\ At(a)'.key = At(a).key
                               /\ FlashAddr(a)' = FlashAddr(a),
           \A a \in Written : a \in AllRecs' => a \in Written'
    PROVE Led'
<1>1. \A a : Readable(a) => a \in Written
  BY DEF Readable, Making, Marking, Writing
<1>2. \A a : a \in Written' => Readable(a)'
  BY DEF Readable
<1>3. \A a \in AllRecs' : Readable(a) => Readable(a)'
  BY <1>1, <1>2
<1> QED
  BY <1>3, LedKept

LEMMA SoughtKept ==
    ASSUME Sought, pc' \notin {"recGc", "recNext", "recEnd"},
           job' = "recover" => /\ job = "recover" /\ pc # "recEnd" /\ cur' = cur
                               /\ \A a \in Pending' : a \in Pending
                               /\ \A a \in Pending' : Moving /\ a = cur => Moving'
    PROVE Sought'
BY DEF Sought

(* A move goes on, up to the header of the copy.                            *)
LEMMA RestoringSectors ==
    ASSUME CInv, Repair, Restoring, PreDirty \/ UpdateSecStatus PROVE Restoring'
<1> USE DEF CInv, TypeOK
<1>0. /\ UNCHANGED <<op, job, cur, target, cache>> /\ job # "call" /\ cur \in AllRecs
      /\ \/ PreDirty /\ pc = "preDirty" /\ pc' = "alloc" /\ job = "gc"
         \/ UpdateSecStatus /\ pc = "status" /\ pc' = "preWrite"
  BY RepairControl DEF Repair, PreDirty, UpdateSecStatus, Go, place, call, ram, Writing, Replacing,
     Control, Jobs, Types
<1>1. Moving /\ Moving' /\ ~Making /\ ~Making'
  BY <1>0 DEF Moving, Copying, Writing, Making
<1>2. Same
  <2>1. CASE PreDirty
    BY <2>1, MarkKeeps, UntouchedSame DEF PreDirty
  <2>2. CASE UpdateSecStatus
    <3>1. target \in Sectors /\ sec[target].magic
      BY <2>2 DEF UpdateSecStatus, Go, Flash, Allocated
    <3> QED
      BY <2>2, <3>1, StatusOfSector, UntouchedSame
  <2> QED
    BY <1>0, <2>1, <2>2
<1>3. Written' = Written /\ Pending' = Pending /\ \A a \in AllRecs : At(a)' = At(a)
  BY <1>2, SameKept, KeptSets DEF Same, SameAt
<1>4. NewKey' = NewKey
  BY <1>0, <1>3, NewSame
<1>5. \A a : Readable(a) => Readable(a)'
  <2>1. \A a : Marking(a) => Marking(a)'
    <3>1. \A w \in Written : At(w)' = At(w)
      BY <1>3 DEF Written
    <3>2. pc' \in Writing \cup {"preDirty", "alloc"}
      BY <1>0 DEF Writing
    <3> QED
      BY <1>0, <1>3, <1>4, <3>1, <3>2 DEF Marking
  <2> QED
    BY <1>1, <1>3, <2>1 DEF Readable
<1>6. Led'
  BY <1>0, <1>2, <1>5, LedKept DEF Restoring, Same, SameAt
<1>7. Sought'
  BY <1>0, <1>1, <1>3, SoughtKept DEF Restoring
<1> QED
  BY <1>6, <1>7 DEF Restoring

(* A sector for the copy. One that is not found leaves no marked record in  *)
(* the cache: a written one has its value.                                  *)
LEMMA RestoringAllocs ==
    ASSUME CInv, Repair, Restoring, booting, ~Lost, MoveAlloc PROVE Restoring'
<1> USE DEF CInv, TypeOK
<1>0. /\ UNCHANGED <<sec, cache, op, job, cur, booting>> /\ pc = "alloc" /\ job # "call"
      /\ target' = Alloc(Size[NewVal]) /\ cur \in AllRecs
  BY RepairControl DEF Repair, MoveAlloc, call
<1>1. Same /\ Moving /\ ~Making
  BY <1>0, SecSame DEF Moving, Making
<1>2. /\ Written' = Written /\ Pending' = Pending
      /\ \A a \in AllRecs : At(a)' = At(a)
  BY <1>1, SameKept, KeptSets DEF Same, SameAt
<1>3. PICK k : k = NewKey /\ k = NewKey'
  BY <1>0, <1>2, NewSame
<1>4. /\ Found(k) = {a \in Written : At(a).key = k}
      /\ FindNoCache(k) = NoAddr <=> \A a \in Written : At(a).key # k
  BY FoundWritten DEF Repair, Whole
<1>5. ASSUME NEW a, Marking(a) PROVE Marking(a)'
  <2>1. job = "gc" /\ a = cur /\ \A w \in Written : At(w).key # k
    BY <1>3, <1>5 DEF Marking
  <2>2. Found(k) = {} /\ FindNoCache(k) = NoAddr
    BY <1>4, <2>1
  <2>3. ~Stuck
    BY <1>3, <2>2 DEF Lost
  <2>4. target' # 0
    BY <1>0, <2>1, <2>3 DEF Stuck
  <2>5. pc' = "status"
    BY <1>3, <2>2, <2>4 DEF MoveAlloc
  <2>6. \A w \in Written : At(w)' = At(w)
    BY <1>2 DEF Written
  <2> QED
    BY <1>0, <1>2, <1>3, <2>1, <2>5, <2>6 DEF Marking, Writing
<1>6. Led'
  BY <1>0, <1>1, <1>2, <1>5, LedKept DEF Restoring, Same, SameAt, Readable
<1>7. Sought'
  <2>1. CASE pc' \in {"status", "delete"}
    <3>1. Moving'
      BY <1>0, <2>1 DEF Moving, Copying, Writing
    <3> QED
      BY <1>0, <1>2, <2>1, <3>1, SoughtKept DEF Restoring
  <2>2. CASE pc' = "gcNext"
    <3>1. job = "gc"
      BY <2>2 DEF MoveAlloc
    <3> QED
      BY <1>0, <2>2, <3>1, SoughtKept DEF Restoring
  <2>3. CASE pc' = "recEnd"
    BY <2>3 DEF MoveAlloc, Sought
  <2> QED
    BY <2>1, <2>2, <2>3 DEF MoveAlloc
<1> QED
  BY <1>6, <1>7 DEF Restoring

(* The copy is written.                                                     *)
LEMMA RestoringWrites ==
    ASSUME CInv, Repair, Restoring, PreWrite \/ WriteHeader \/ WriteBody PROVE Restoring'
<1> USE DEF CInv, TypeOK
<1>0. /\ UNCHANGED <<op, job, cur, target, cache>> /\ job # "call" /\ op = NoReq
      /\ \/ PreWrite /\ pc = "preWrite" /\ pc' = "header"
         \/ WriteHeader /\ pc = "header" /\ pc' = "body"
         \/ WriteBody /\ pc = "body" /\ pc' = "commit"
  BY RepairControl DEF Repair, PreWrite, WriteHeader, WriteBody, Go, place, call, ram, Writing
<1>1. Moving /\ Moving' /\ pc \in Writing /\ pc' \in Writing /\ Making'
  BY <1>0 DEF Moving, Copying, Writing, Making
<1>2. HeldKept
  BY <1>0, RepairWrites
<1>3. Written' = Written /\ Pending' = Pending /\ \A a \in Held : At(a)' = At(a)
  BY <1>2, KeptSets
<1>4. PICK c \in Held : c = cur
  BY <1>1 DEF Repair, Taken, Pending, Held
<1>5. NewKey' = NewKey
  <2>1. NewKey = At(c).key /\ NewKey' = At(c)'.key
    BY <1>0, <1>4 DEF NewKey, At
  <2> QED
    BY <1>3, <2>1
<1>6. \A a : Marking(a) => Marking(a)'
  <2>1. \A w \in Written : At(w)' = At(w)
    BY <1>3 DEF Written, Held
  <2> QED
    BY <1>0, <1>1, <1>3, <1>5, <2>1 DEF Marking
<1>7. \A a \in AllRecs' : \/ a = New'
                         \/ /\ a \in AllRecs /\ (a # New \/ ~Making)
                            /\ At(a)'.key = At(a).key /\ FlashAddr(a)' = FlashAddr(a)
  <2>1. CASE PreWrite
    <3>1. target \in InUse /\ ~Making
      BY <1>0, <2>1 DEF Flash, PreWrite, Go, Making
    <3>2. /\ \A a \in AllRecs : At(a)' = At(a)
          /\ \A a \in AllRecs' : a \in AllRecs \/ a = New'
      BY <2>1, <3>1, Begun
    <3> QED
      BY <3>1, <3>2, AddrSame
  <2>2. CASE WriteHeader
    <3>1. Making /\ pc = "header"
      BY <2>2 DEF WriteHeader, Go, Making
    <3>2. NewKey \in Keys /\ NewVal \in Vals
      BY <1>1, NewKeyIn
    <3>3. /\ AllRecs' = AllRecs /\ New' = New
          /\ \A a \in AllRecs : At(a)' =
                IF a = New THEN [At(a) EXCEPT !.key = NewKey, !.val = NewVal] ELSE At(a)
      BY <1>0, <2>2, <3>1, <3>2, Headed
    <3> QED
      BY <3>3, AddrSame
  <2>3. CASE WriteBody
    <3>1. Making
      BY <2>3 DEF WriteBody, Go, Making
    <3>2. /\ AllRecs' = AllRecs /\ New' = New
          /\ \A a \in AllRecs : At(a)' = IF a = New THEN [At(a) EXCEPT !.crcOk = TRUE] ELSE At(a)
      BY <1>0, <2>3, <3>1, Bodied
    <3> QED
      BY <3>2, AddrSame
  <2> QED
    BY <1>0, <2>1, <2>2, <2>3
<1>8. Led'
  <2>1. ASSUME NEW a \in AllRecs', a # New'
        PROVE /\ a \in AllRecs /\ At(a)'.key = At(a).key /\ FlashAddr(a)' = FlashAddr(a)
              /\ Readable(a) => Readable(a)'
    <3>1. /\ a \in AllRecs /\ (a # New \/ ~Making)
          /\ At(a)'.key = At(a).key /\ FlashAddr(a)' = FlashAddr(a)
      BY <1>7, <2>1
    <3>2. Readable(a) => a \in Written \/ Marking(a)
      BY <3>1 DEF Readable
    <3>3. a \in Written' \/ Marking(a)' => Readable(a)'
      BY DEF Readable
    <3>4. Readable(a) => Readable(a)'
      BY <1>3, <1>6, <3>2, <3>3
    <3> QED
      BY <3>1, <3>4
  <2>2. \A a \in AllRecs' : a = New' => Readable(a)'
    BY <1>1 DEF Readable
  <2> QED
    BY <1>0, <2>1, <2>2, LedKept DEF Restoring
<1>9. Sought'
  BY <1>0, <1>1, <1>3, SoughtKept DEF Restoring
<1> QED
  BY <1>8, <1>9 DEF Restoring

(* Boot, up to the records it moves.                                        *)
LEMMA RestoringLoads ==
    ASSUME CInv, Repair, Restoring, CheckHdr \/ RecoverGc \/ RecoverNext \/ RecoverEnd,
           pc' # "wipe"
    PROVE Restoring'
<1> USE DEF CInv, TypeOK
<1>0. /\ pc \in {"checkHdr", "recGc", "recNext", "recEnd"} /\ cache' = cache
      /\ pc' \in {"checkHdr", "recGc", "recNext", "recEnd", "gc", "alloc", "idle"}
  BY DEF CheckHdr, RecoverGc, RecoverNext, RecoverEnd, Go, ram
<1>1. Written' = Written /\ Pending' = Pending
  BY RepairLoads, KeptSets
<1>2. ~Moving
  BY <1>0 DEF Moving, Copying, Writing
<1>3. \A a \in AllRecs' : /\ a \in AllRecs /\ At(a)'.key = At(a).key
                         /\ FlashAddr(a)' = FlashAddr(a)
  <2>1. CASE sec' = sec
    BY <2>1, SecSame DEF Same, SameAt
  <2>2. CASE RecoverNext /\ sec' # sec
    <3>1. PICK T : T = {a \in AllRecs : Unfinished(a) /\ Before(cur, a)}
      OBVIOUS
    <3>2. PICK a : a = First(T)
      OBVIOUS
    <3>3. T # {} /\ T \subseteq AllRecs /\ SetStatus(a, "ERR_HDR")
      BY <2>2, <3>1, <3>2 DEF RecoverNext
    <3>4. a \in AllRecs
      BY <3>2, <3>3, FirstIn
    <3> QED
      BY <3>3, <3>4, Marked DEF Statuses, SameAt
  <2>3. CASE CheckHdr /\ sec' # sec
    <3>1. PICK bad : bad = {s \in Sectors : ~sec[s].magic}
      OBVIOUS
    <3>2. PICK s \in Sectors : sec' = [sec EXCEPT ![s] = Formatted]
      BY <2>3, <3>1, MinIn DEF CheckHdr
    <3>3. AllRecs' = {a \in AllRecs : a[1] # s} /\ \A a \in AllRecs' : At(a)' = At(a)
      BY <3>2, SectorEmptied
    <3> QED
      BY <3>3, AddrSame
  <2> QED
    BY <2>1, <2>2, <2>3 DEF RecoverGc, RecoverEnd
<1>4. Led'
  BY <1>0, <1>1, <1>3, LedRests DEF Restoring, Writing
<1>5. \A a \in Pending : Before(NoAddr, a)
  BY Addresses DEF Pending, Before, NoAddr
<1>6. ASSUME CheckHdr PROVE Sought'
  <2>1. pc = "checkHdr" /\ cur = NoAddr /\ cur' = cur /\ job' = "call"
        /\ pc' \in {"checkHdr", "recGc"}
    BY <1>6 DEF CheckHdr, Pointers, place, Control, Jobs
  <2> QED
    BY <2>1 DEF Sought
<1>7. ASSUME RecoverGc PROVE Sought'
  <2>1. pc = "recGc" /\ cur' = cur /\ job' = "call" /\ pc' \in {"gc", "recNext"}
    BY <1>7 DEF RecoverGc, Go, place, Control, Jobs
  <2>2. cur = NoAddr
    BY <2>1 DEF Restoring, Sought
  <2> QED
    BY <1>1, <1>5, <2>1, <2>2 DEF Sought
<1>8. ASSUME RecoverEnd PROVE Sought'
  <2>1. job' = "call" /\ pc' \in {"gc", "idle"}
    BY <1>8 DEF RecoverEnd, Go
  <2> QED
    BY <2>1 DEF Sought
<1>9. ASSUME RecoverNext PROVE Sought'
  <2>1. PICK T : T = {a \in AllRecs : Unfinished(a) /\ Before(cur, a)}
    OBVIOUS
  <2>2. PICK f : f = First(T)
    OBVIOUS
  <2>3. pc = "recNext" /\ \A a \in Pending : Before(cur, a)
    BY <1>2, <1>9 DEF RecoverNext, Restoring, Sought
  <2>4. \A a \in Pending : PreDeleted(a) /\ a \in T
    BY <2>1, <2>3 DEF Pending, PreDeleted, Unfinished, Repair, Whole, Held
  <2>5. CASE pc' = "alloc"
    <3>1. T # {} /\ T \subseteq AllRecs /\ cur' = f /\ job' = "recover"
      BY <1>9, <2>1, <2>2, <2>5 DEF RecoverNext
    <3>2. \A b \in T \ {f} : Before(f, b)
      BY <2>2, <3>1, FirstIn
    <3>3. Moving'
      BY <2>5, <3>1 DEF Moving
    <3> QED
      BY <1>1, <2>4, <2>5, <3>1, <3>2, <3>3 DEF Sought
  <2>6. CASE pc' = "recEnd"
    <3>1. stopped' = (stopped \/ (~gcRequest /\ \E b \in T : PreDeleted(b)))
          /\ gcRequest' = gcRequest
      BY <1>9, <2>1, <2>6 DEF RecoverNext, ram
    <3>2. stopped' \/ gcRequest' \/ Pending' = {}
      BY <1>1, <2>4, <3>1
    <3> QED
      BY <2>6, <3>2 DEF Sought
  <2>7. pc' = "alloc" \/ pc' = "recEnd"
    BY <1>9 DEF RecoverNext
  <2> QED
    BY <2>5, <2>6, <2>7
<1> QED
  BY <1>4, <1>6, <1>7, <1>8, <1>9 DEF Restoring

(* Collection, between two moves and at the start of one, and the search.   *)
LEMMA RestoringCollects ==
    ASSUME CInv, Repair, Restoring, GcCollect \/ GcPick \/ GcNext \/ GcDone \/ Format \/ Dirty
    PROVE Restoring'
<1> USE DEF CInv, TypeOK
<1>0. /\ op = NoReq /\ op.kind = "none" /\ cache' = cache
      /\ pc \in {"gc", "gcPick", "gcNext", "gcDone", "format", "dirty"}
  BY Kinds DEF Repair, Types, GcCollect, GcPick, GcNext, GcDone, Format, Dirty, Go, ram
<1>1. Written' = Written /\ Pending' = Pending
  BY RepairCollects, RepairTakes, RepairDirty, KeptSets
<1>2. \A a \in AllRecs' : /\ a \in AllRecs /\ At(a)'.key = At(a).key
                         /\ FlashAddr(a)' = FlashAddr(a)
  <2>1. CASE sec' = sec
    BY <2>1, SecSame DEF Same, SameAt
  <2>2. CASE Dirty
    BY <2>2, RepairControl, MarkKeeps, UntouchedSame DEF Dirty, Same, SameAt, Go, Replacing
  <2>3. CASE GcPick /\ sec' # sec
    <3>1. Garbage # {} /\ sec' = [sec EXCEPT ![Min(Garbage)].dirty = "GC"]
      BY <2>3 DEF GcPick
    <3>2. PICK s \in Sectors : s = Min(Garbage)
      BY <3>1, MinIn DEF Garbage
    <3> QED
      BY <3>1, <3>2, DirtySet, UntouchedSame DEF Same, SameAt
  <2>4. CASE Format
    <3>0. cur[1] \in Sectors
      BY <2>4 DEF Format, Go, Pointers, Control, Jobs, Types
    <3>1. PICK s \in Sectors : sec' = [sec EXCEPT ![s] = Formatted]
      BY <2>4, <3>0 DEF Format
    <3>2. AllRecs' = {a \in AllRecs : a[1] # s} /\ \A a \in AllRecs' : At(a)' = At(a)
      BY <3>1, SectorEmptied
    <3> QED
      BY <3>2, AddrSame
  <2> QED
    BY <2>1, <2>2, <2>3, <2>4 DEF GcCollect, GcNext, GcDone
<1>3. Led'
  BY <1>0, <1>1, <1>2, LedRests DEF Restoring, Writing
<1>4. Sought'
  <2>1. CASE GcDone
    <3>1. cur' = NoAddr /\ job' = "call" /\ pc' = gcRet /\ gcRet = "recNext"
      BY <1>0, <2>1 DEF GcDone, Go, Control, Returns, Requested, Types
    <3>2. \A a \in Pending : Before(NoAddr, a)
      BY Addresses DEF Pending, Before, NoAddr
    <3> QED
      BY <1>1, <3>1, <3>2 DEF Sought
  <2>2. CASE Dirty
    <3>1. /\ cur' = cur /\ job' = job /\ pc = "dirty" /\ job # "call"
          /\ pc' = IF job = "gc" THEN "gcNext" ELSE "recNext"
      BY <2>2, RepairControl DEF Dirty, Go, place, call, DirtyAfter, Replacing, Types, Repair
    <3>2. ~Moving
      BY <3>1 DEF Moving, Copying, Writing
    <3> QED
      BY <1>1, <3>1, <3>2 DEF Restoring, Sought, Types
  <2>3. CASE GcCollect \/ GcPick \/ GcNext \/ Format
    <3>1. pc = "format" => job = "gc"
      BY <1>0 DEF Control, Jobs, Requested, Types
    <3>2. job' = "gc"
      BY <2>3, <3>1 DEF GcCollect, GcPick, GcNext, Format, Go, Control, Jobs, Collecting
    <3>3. pc' \notin {"recGc", "recNext", "recEnd"}
      BY <2>3 DEF GcCollect, GcPick, GcNext, Format, FormatNext, Go
    <3> QED
      BY <3>2, <3>3, SoughtKept DEF Restoring
  <2> QED
    BY <2>1, <2>2, <2>3
<1> QED
  BY <1>3, <1>4 DEF Restoring

(* A written record is marked: the cache may lead to it until it is copied. *)
LEMMA RestoringPreDelete ==
    ASSUME CInv, CInv', Repair, Restoring, PreDelete PROVE Restoring'
<1> USE DEF CInv, TypeOK
<1>0. /\ UNCHANGED <<op, job, cur, cache>> /\ pc = "preDelete" /\ pc' = "preDirty" /\ job = "gc"
      /\ SetStatus(Old, "PRE_DELETE")
  <2>1. /\ UNCHANGED <<op, job, cur, cache>> /\ pc = "preDelete" /\ pc' = "preDirty"
        /\ SetStatus(Old, "PRE_DELETE")
    BY DEF PreDelete, Go, place, call
  <2> QED
    BY <2>1, RepairControl DEF Repair, Replacing, Control, Jobs, Types
<1>1. PICK c \in AllRecs : c = cur /\ c = Old
  BY <1>0, RepairControl DEF Repair, Replacing, Old
<1>2. /\ AllRecs' = AllRecs /\ \A b \in AllRecs : b # c => SameAt(b)
      /\ At(c)'.key = At(c).key /\ FlashAddr(c)' = FlashAddr(c)
  BY <1>0, <1>1, Marked DEF Statuses
<1>3. Marking(c)'
  <2>1. Repair'
    BY RepairPreDelete
  <2>2. \A w \in Written' : At(w)'.key # NewKey'
    BY <1>0, <2>1 DEF Repair, Once, Copying
  <2> QED
    BY <1>0, <1>1, <2>2 DEF Marking
<1>4. \A a \in AllRecs : a # c /\ Readable(a) => Readable(a)'
  <2>1. \A a : Readable(a) => a \in Written
    BY <1>0 DEF Readable, Making, Marking, Writing
  <2> QED
    BY <1>2, <2>1 DEF Readable, Written, SameAt
<1>5. Led'
  <2>1. Readable(c)'
    BY <1>3 DEF Readable
  <2>2. \A a \in AllRecs' :
            \/ Readable(a)'
            \/ /\ a \in AllRecs /\ At(a)'.key = At(a).key /\ FlashAddr(a)' = FlashAddr(a)
               /\ Readable(a) => Readable(a)'
    BY <1>2, <1>4, <2>1 DEF SameAt
  <2> QED
    BY <1>0, <2>2, LedKept DEF Restoring
<1>6. Sought'
  BY <1>0, SoughtKept DEF Restoring
<1> QED
  BY <1>5, <1>6 DEF Restoring

(* The copy is written, and the cache leads to it and to no other of its    *)
(* key.                                                                     *)
LEMMA RestoringCommit ==
    ASSUME CInv, Repair, Restoring, Commit PROVE Restoring'
<1> USE DEF CInv, TypeOK
<1>0. /\ UNCHANGED <<op, job, cur, target>> /\ pc = "commit" /\ job # "call"
      /\ cur \in AllRecs /\ SetStatus(New, "WRITE")
  <2>1. UNCHANGED <<op, job, cur, target>> /\ pc = "commit" /\ SetStatus(New, "WRITE")
    BY DEF Commit, Go, place, call, New
  <2> QED
    BY <2>1, RepairControl DEF Repair, Writing
<1>1. pc' = "delete"
  <2>1. Old # NoAddr
    BY <1>0, Addresses DEF Old
  <2> QED
    BY <2>1 DEF Commit, Go
<1>2. Moving' /\ Making
  BY <1>0, <1>1 DEF Moving, Making
<1>3. PICK n \in AllRecs : n = New
  BY <1>2, NewIn
<1>4. At(n).st = "PRE_WRITE" /\ At(n).key = NewKey /\ NewKey = At(cur).key
  BY <1>0, <1>2, <1>3 DEF Repair, Whole, NewKey
<1>5. /\ AllRecs' = AllRecs /\ \A b \in AllRecs : b # n => SameAt(b)
      /\ At(n)'.st = "WRITE" /\ At(n)'.key = At(n).key /\ FlashAddr(n)' = FlashAddr(n)
  BY <1>0, <1>3, <1>4, Marked, Ranks DEF Statuses
<1>6. \A a \in AllRecs : At(a)'.key = At(a).key /\ FlashAddr(a)' = FlashAddr(a)
  BY <1>5 DEF SameAt
<1>7. NewKey \in Keys /\ NewKey # NoKey
  BY <1>0, NewKeyIn, Constants DEF Writing
<1>8. PICK fa \in Addrs : fa = FlashAddr(n)
  BY AddrIn
<1>9. /\ cache'[NewKey] = fa
      /\ \A j \in Keys \ {NewKey} : cache'[j] = cache[j] \/ cache'[j] = NoAddr
  <2>1. cache' \in CacheWith(NewKey, fa)
    BY <1>3, <1>8 DEF Commit, New
  <2> QED
    BY <1>7, <2>1, CacheIn DEF Types
<1>10. Led'
  <2>1. SUFFICES ASSUME NEW k \in Keys, NEW a \in CacheHits(k)' PROVE a \in Written'
    BY DEF Led, Readable
  <2>2. a \in AllRecs /\ At(a).key = k /\ FlashAddr(a) = cache'[k] /\ FlashAddr(a) # NoAddr
    <3>1. a \in AllRecs /\ At(a)'.key = k /\ FlashAddr(a)' = cache'[k]
      BY <1>5 DEF CacheHits
    <3> QED
      BY <1>6, <3>1, AddrIn
  <2>3. CASE k = NewKey
    <3>1. FlashAddr(a) = FlashAddr(n) /\ At(a).key # NoKey /\ At(n).key # NoKey
      BY <1>4, <1>7, <1>8, <1>9, <2>2, <2>3
    <3>2. a = n
      BY <2>2, <3>1, Apart
    <3> QED
      BY <1>5, <3>2 DEF Written
  <2>4. CASE k # NewKey
    <3>1. a \in CacheHits(k) /\ a # n
      BY <1>4, <1>9, <2>2, <2>4 DEF CacheHits
    <3>2. Readable(a)
      BY <3>1 DEF Restoring, Led
    <3>3. a # cur
      BY <1>4, <2>2, <2>4
    <3>4. a \in Written
      BY <1>3, <3>1, <3>2, <3>3 DEF Readable, Marking
    <3> QED
      BY <1>5, <2>2, <3>1, <3>4 DEF Written, SameAt
  <2> QED
    BY <2>3, <2>4
<1>11. Sought'
  <2>1. \A a \in Pending' : a \in Pending
    BY <1>5 DEF Pending, SameAt
  <2> QED
    BY <1>0, <1>1, <1>2, <2>1, SoughtKept DEF Restoring
<1> QED
  BY <1>10, <1>11 DEF Restoring

(* The record moved is deleted, or its sector erased: neither is cached.    *)
LEMMA RestoringDelete ==
    ASSUME CInv, Repair, Restoring, Delete PROVE Restoring'
<1> USE DEF CInv, TypeOK
<1>0. /\ UNCHANGED <<op, job, cur, target, cache>> /\ pc = "delete" /\ pc' = "dirty"
      /\ job # "call" /\ SetStatus(Old, "DELETED")
  <2>1. UNCHANGED <<op, job, cur, target>> /\ pc = "delete" /\ pc' = "dirty" /\ SetStatus(Old, "DELETED")
    BY DEF Delete, Go, place, call
  <2>2. job # "call"
    BY <2>1, RepairControl DEF Repair, Replacing
  <2> QED
    BY <2>1, <2>2 DEF Delete
<1>1. PICK c \in Pending : c = cur /\ c = Old
  BY <1>0 DEF Repair, Taken, Old, Moving
<1>2. c \in AllRecs /\ At(c).st = "PRE_DELETE"
  BY <1>1 DEF Pending
<1>3. /\ AllRecs' = AllRecs /\ \A b \in AllRecs : b # c => SameAt(b)
      /\ At(c)'.st = "DELETED" /\ At(c)'.key = At(c).key /\ FlashAddr(c)' = FlashAddr(c)
  BY <1>0, <1>1, <1>2, Marked, Ranks DEF Statuses
<1>4. Written \subseteq Written' /\ Pending' = Pending \ {c}
  BY <1>2, <1>3 DEF Written, Pending, SameAt
<1>5. Led'
  BY <1>0, <1>3, <1>4, LedRests DEF Restoring, SameAt, Writing
<1>6. Sought'
  BY <1>0, <1>1, <1>4, SoughtKept DEF Restoring
<1> QED
  BY <1>5, <1>6 DEF Restoring

LEMMA RestoringErase ==
    ASSUME CInv, Repair, Restoring, Erase PROVE Restoring'
<1> USE DEF CInv, TypeOK
<1>0. /\ cache' = cache /\ pc = "erase" /\ pc' = "format" /\ job' = "gc"
      /\ cur[1] \in Sectors /\ sec' = [sec EXCEPT ![cur[1]] = Blank]
  <2>1. UNCHANGED <<job, cache>> /\ pc = "erase" /\ pc' = "format"
        /\ sec' = [sec EXCEPT ![cur[1]] = Blank]
    BY DEF Erase, Go, ram, call
  <2> QED
    BY <2>1, RepairControl DEF Repair, Control, Jobs, Types
<1>1. \A a \in AllRecs' : a \in AllRecs /\ At(a)' = At(a)
  BY <1>0, SectorEmptied
<1>2. \A a \in AllRecs' : a \in AllRecs /\ At(a)'.key = At(a).key /\ FlashAddr(a)' = FlashAddr(a)
  BY <1>1, AddrSame
<1>3. \A a \in Written : a \in AllRecs' => a \in Written'
  BY <1>1 DEF Written
<1>4. Led'
  BY <1>0, <1>2, <1>3, LedRests DEF Restoring, Writing
<1>5. Sought'
  BY <1>0, SoughtKept DEF Restoring
<1> QED
  BY <1>4, <1>5 DEF Restoring

LEMMA RestoringSteps ==
    ASSUME CInv, CInv', Repair, Restoring, booting, ~Lost, ~Crash, [Next]_vars, pc' # "wipe"
    PROVE Restoring'
<1> USE DEF CInv, TypeOK
<1>0. op = NoReq /\ pc # "idle" /\ op.kind = "none"
  BY Kinds DEF Repair, Control, Requested, Types
<1>1. CASE UNCHANGED vars
  <2>1. UNCHANGED <<sec, cache, gcRequest, target, cur, op, pc, job, stopped>>
    BY <1>1 DEF vars, call, ram, place
  <2>2. /\ AllRecs' = AllRecs /\ \A a : At(a)' = At(a) /\ FlashAddr(a)' = FlashAddr(a)
        /\ New' = New /\ NewKey' = NewKey
    BY <2>1 DEF At, FlashAddr, AllRecs, InUse, New, LastOf, NewKey
  <2>3. /\ Written' = Written /\ Pending' = Pending /\ \A k : CacheHits(k)' = CacheHits(k)
    BY <2>1, <2>2 DEF Written, Pending, CacheHits
  <2>4. UNCHANGED <<Making, Moving>>
    BY <2>1 DEF Making, Copying, Moving
  <2>5. \A a : Readable(a)' <=> Readable(a)
    BY <2>1, <2>2, <2>3, <2>4 DEF Readable, Marking
  <2>6. Led'
    BY <2>3, <2>5 DEF Restoring, Led
  <2>7. Sought'
    BY <2>1, <2>3, <2>4 DEF Restoring, Sought
  <2> QED
    BY <2>6, <2>7 DEF Restoring
<1>2. ~CallStep
  BY <1>0 DEF CallStep, CallSet, CallDel, CallDefault, GetEnv, Begin, Go
<1>3. ~NewEnv /\ ~FindOld /\ ~Finish /\ ~Wipe
  BY <1>0, RepairControl DEF NewEnv, FindOld, Finish, Wipe, Go
<1>4. ~Return
  BY <1>0 DEF Return, Go, Control, Jobs, Returns, Requested, Loading
<1>5. CASE SetStep
  BY <1>3, <1>4, <1>5, RestoringPreDelete, RestoringSectors, RestoringWrites, RestoringCommit,
     RestoringDelete, RestoringCollects DEF SetStep
<1>6. CASE GcStep
  BY <1>6, RestoringAllocs, RestoringCollects, RestoringErase DEF GcStep
<1>7. CASE BootStep
  BY <1>3, <1>7, RestoringLoads DEF BootStep
<1> QED
  BY <1>1, <1>2, <1>5, <1>6, <1>7 DEF Next

LEMMA AddrNow == FlashOK => \A a \in AllRecs : FlashAddr(a) # NoAddr
BY AddrIn

LEMMA AddrThen == FlashOK' => (\A a \in AllRecs : FlashAddr(a) # NoAddr)'
BY AddrNow, PTL

(* After the failure the cache is empty and the search yet to begin.        *)
LEMMA CrashRestores ==
    ASSUME CInv', Crash PROVE Restoring'
<1>1. pc' = "checkHdr" /\ job' = "call" /\ \A k \in Keys : cache'[k] = NoAddr
  BY DEF Crash, Reset
<1>2. \A a \in AllRecs' : FlashAddr(a)' # NoAddr
  BY AddrThen DEF CInv, TypeOK
<1>3. Led'
  BY <1>1, <1>2 DEF Led, CacheHits
<1>4. Sought'
  BY <1>1 DEF Sought
<1> QED
  BY <1>3, <1>4 DEF Restoring

(* When no marked record is left, what the cache and the search lead to is  *)
(* what is stored.                                                          *)
LEMMA RepairReads ==
    ASSUME CInv, Repair, Restoring, pc = "recEnd", ~stopped, ~gcRequest
    PROVE \A k \in Keys : Get(k) = Retained(k)
<1> USE DEF CInv, TypeOK
<1>1. Pending = {}
  BY DEF Restoring, Sought
<1>2. ASSUME NEW k \in Keys PROVE CacheHits(k) \subseteq {a \in Written : At(a).key = k}
  BY DEF Restoring, Led, Readable, Making, Marking, Writing, CacheHits
<1>3. \A k \in Keys, a \in Written : At(a).key = k => Retained(k) = At(a).val
  BY TellsNext DEF Tells
<1>4. ASSUME NEW k \in Keys PROVE Get(k) = Retained(k)
  <2>1. Found(k) = {a \in Written : At(a).key = k}
    BY FoundWritten DEF Repair, Whole
  <2>2. NoAddr \notin AllRecs
    BY Addresses
  <2>3. Written \subseteq AllRecs
    BY DEF Written
  <2>4. CASE CacheHits(k) # {}
    <3>1. PICK f : f = First(CacheHits(k))
      OBVIOUS
    <3>2. f \in CacheHits(k)
      <4>1. CacheHits(k) \subseteq AllRecs
        BY DEF CacheHits
      <4> QED
        BY <2>4, <3>1, <4>1, FirstIn
    <3>3. f \in Written /\ At(f).key = k /\ f # NoAddr
      BY <1>2, <2>2, <2>3, <3>2
    <3>4. FindEnv(k) = f
      BY <2>4, <3>1 DEF FindEnv
    <3> QED
      BY <1>3, <3>3, <3>4 DEF Get
  <2>5. CASE CacheHits(k) = {} /\ Found(k) # {}
    <3>1. PICK f : f = First(Found(k))
      OBVIOUS
    <3>2. f \in Found(k)
      <4>1. Found(k) \subseteq AllRecs
        BY DEF Found
      <4> QED
        BY <2>5, <3>1, <4>1, FirstIn
    <3>3. f \in Written /\ At(f).key = k /\ f # NoAddr
      BY <2>1, <2>2, <2>3, <3>2
    <3>4. FindEnv(k) = f
      BY <2>5, <3>1 DEF FindEnv, FindNoCache
    <3> QED
      BY <1>3, <3>3, <3>4 DEF Get
  <2>6. CASE CacheHits(k) = {} /\ Found(k) = {}
    <3>1. Get(k) = NoVal
      BY <2>6 DEF Get, FindEnv, FindNoCache
    <3>2. Live(k, "WRITE") = {} /\ Live(k, "PRE_DELETE") = {}
      BY <1>1, <2>6 DEF Live, Found, Pending
    <3> QED
      BY <3>1, <3>2 DEF Retained
  <2> QED
    BY <2>4, <2>5, <2>6
<1> QED
  BY <1>4

(* The store is started afresh, sector after sector.                        *)
LEMMA WipeBegins ==
    ASSUME CInv, Repair, CheckHdr, pc' = "wipe" PROVE Wiping'
<1> USE DEF CInv, TypeOK
<1>1. /\ pc = "checkHdr" /\ job = "call" /\ cur = NoAddr /\ gcRet = "idle" /\ ~lastComplete
      /\ UNCHANGED <<sec, job, cur, gcRet, lastComplete>> /\ op' = Map!SetDefault
  BY DEF CheckHdr, Control, Jobs, Returns, Pointers, Repair, Whole, ram, place
<1>2. \A a \in AllRecs' : a[1] > cur'[1]
  <2>1. AllRecs' = AllRecs
    BY <1>1 DEF AllRecs, InUse
  <2>2. \A a \in AllRecs : a[1] \in Nat /\ a[1] >= 1
    BY Addresses
  <2> QED
    BY <1>1, <2>1, <2>2 DEF NoAddr
<1>3. Wiped'
  BY <1>1, <1>2 DEF Wiped, Writing
<1> QED
  BY <1>1, <1>3 DEF Wiping

LEMMA WipeSteps ==
    ASSUME CInv, Wiping, ~Crash, [Next]_vars PROVE Wiping' \/ Steady'
<1> USE DEF CInv, TypeOK
<1>0. /\ pc \in {"wipe", "erase", "format"} /\ job = "call" /\ op = Map!SetDefault
      /\ op.kind = "default" /\ gcRet = "idle" /\ ~lastComplete
      /\ \A a \in AllRecs : a[1] > cur[1] \/ (a[1] = cur[1] /\ pc = "erase")
      /\ pc = "format" => \A a \in AllRecs : a[1] # cur[1]
  BY DEF Wiping, Wiped, Control, Requested, Map!SetDefault
<1>1. cur[1] \in Nat /\ \A a \in AllRecs : a[1] \in Nat /\ a[1] \in Sectors
  BY Addresses, Constants DEF Types, Addrs
<1>2. /\ UNCHANGED <<job, op, gcRet, lastComplete>>
      /\ \/ UNCHANGED vars
         \/ Wipe /\ pc = "wipe" /\ pc' = "erase"
         \/ Erase /\ pc = "erase" /\ pc' = "format"
         \/ Format /\ pc = "format" /\ pc' = IF cur[1] = NS THEN "alloc" ELSE "wipe"
  <2>1. UNCHANGED vars \/ Wipe \/ Erase \/ Format
    BY <1>0 DEF Next, CallStep, CallSet, CallDel, CallDefault, GetEnv, Begin, SetStep, NewEnv,
       FindOld, PreDelete, PreDirty, UpdateSecStatus, PreWrite, WriteHeader, WriteBody, Commit,
       Delete, Dirty, Finish, Return, GcStep, MoveAlloc, GcCollect, GcPick, GcNext, GcDone,
       BootStep, CheckHdr, RecoverGc, RecoverNext, RecoverEnd, Go
  <2>2. UNCHANGED <<job, op, gcRet, lastComplete>>
    BY <2>1 DEF vars, ram, call, Wipe, Erase, Format
  <2> QED
    BY <1>0, <2>1, <2>2 DEF Wipe, Erase, Format, FormatNext, Go
<1>3. ASSUME pc' \in {"wipe", "erase", "format"},
             \A a \in AllRecs' : a[1] > cur'[1] \/ (a[1] = cur'[1] /\ pc' = "erase"),
             pc' = "format" => \A a \in AllRecs' : a[1] # cur'[1]
      PROVE Wiping'
  <2>1. Wiped'
    BY <1>0, <1>2, <1>3 DEF Wiped, Writing
  <2> QED
    BY <1>0, <1>2, <1>3, <2>1 DEF Wiping
<1>4. CASE UNCHANGED vars
  <2>1. UNCHANGED <<sec, pc, cur>>
    BY <1>4 DEF vars, place
  <2>2. AllRecs' = AllRecs
    BY <2>1 DEF AllRecs, InUse
  <2> QED
    BY <1>0, <1>3, <2>1, <2>2
<1>5. CASE Wipe /\ pc = "wipe" /\ pc' = "erase"
  <2>1. sec' = sec /\ cur'[1] = cur[1] + 1
    BY <1>5 DEF Wipe
  <2>2. AllRecs' = AllRecs
    BY <2>1 DEF AllRecs, InUse
  <2>3. \A a \in AllRecs : a[1] > cur[1]
    BY <1>0, <1>5
  <2>4. \A a \in AllRecs' : a[1] > cur'[1] \/ a[1] = cur'[1]
    BY <1>1, <2>1, <2>2, <2>3
  <2> QED
    BY <1>3, <1>5, <2>4
<1>6. CASE \/ Erase /\ pc = "erase" /\ pc' = "format"
           \/ Format /\ pc = "format" /\ pc' = IF cur[1] = NS THEN "alloc" ELSE "wipe"
  <2>1. PICK s \in Sectors, x \in {Blank, Formatted} :
            s = cur[1] /\ sec' = [sec EXCEPT ![s] = x]
    BY <1>0, <1>6 DEF Erase, Format, Pointers
  <2>2. AllRecs' = {a \in AllRecs : a[1] # s} /\ cur' = cur
    BY <1>6, <2>1, SectorEmptied DEF Erase, Format, place
  <2>3. \A a \in AllRecs' : a[1] > cur'[1] /\ a[1] # cur'[1]
    BY <1>0, <1>1, <2>1, <2>2
  <2>4. CASE pc' \in {"wipe", "format"}
    BY <1>3, <2>3, <2>4
  <2>5. CASE pc' = "alloc"
    <3>1. cur[1] = NS
      BY <1>6, <2>5
    <3>2. AllRecs' = {}
      <4>1. SUFFICES ASSUME NEW a \in AllRecs' PROVE FALSE
        OBVIOUS
      <4>2. a[1] > NS /\ a[1] \in Sectors
        BY <1>1, <2>2, <2>3, <3>1
      <4> QED
        BY <4>2, Constants DEF Sectors
    <3>3. Clean' /\ OldState' /\ Unique' /\ Cached'
      <4>1. ~Replaced' /\ \A k : CacheHits(k)' = {}
        BY <2>5, <3>2 DEF Replaced, CacheHits
      <4> QED
        BY <1>0, <1>2, <3>2, <4>1 DEF Clean, OldState, Unique, Cached
    <3>4. Collected' /\ Wiped' /\ Still'
      BY <1>0, <1>2, <2>5, <3>2 DEF Collected, Wiped, Still, Writing
    <3> QED
      BY <3>3, <3>4 DEF Steady
  <2> QED
    BY <1>6, <2>4, <2>5
<1> QED
  BY <1>2, <1>4, <1>5, <1>6

-----------------------------------------------------------------------------
(* A power failure damages no record a value may be read from.              *)
LEMMA CrashKeeps == ASSUME CInv, Crash PROVE HeldKept
<1> USE DEF CInv, TypeOK
<1> DEFINE Holding(r) == r.st \in {"WRITE", "PRE_DELETE"}
<1>0. DOMAIN sec = Sectors /\ \A s \in Sectors : sec[s] \in SectorStates
  BY DEF FlashOK
<1>1. PICK f : (f = sec \/ (pc = "header" /\ f = TornFlash)) /\ sec' = Reread(f)
  BY DEF Crash, TornFlash
<1>2. ASSUME NEW s \in Sectors
      PROVE /\ DOMAIN f[s].recs = DOMAIN sec[s].recs
            /\ \A i \in DOMAIN sec[s].recs :
                  \/ f[s].recs[i] = sec[s].recs[i]
                  \/ ~Holding(f[s].recs[i]) /\ ~Holding(sec[s].recs[i])
  <2>1. CASE f = sec
    BY <2>1
  <2>2. CASE pc = "header" /\ f = TornFlash
    <3>1. PICK n : n = Len(sec[target].recs)
      OBVIOUS
    <3>2. Making /\ target \in Sectors
      BY <2>2, NewIn DEF Making
    <3>3. New = <<target, n>> /\ At(New) = sec[target].recs[n] /\ n \in DOMAIN sec[target].recs
      BY <3>1, <3>2, NewIn
    <3>4. sec[target].recs[n].st = "PRE_WRITE"
      BY <2>2, <3>3 DEF Flash
    <3>5. PICK t : t = [sec[target].recs[n] EXCEPT !.st = "ERR_HDR"]
      OBVIOUS
    <3>6. sec[target].recs[n] \in Records
      BY <3>2, <3>3, NewIn
    <3>7. t.st = "ERR_HDR"
      BY <3>5, <3>6 DEF Records
    <3>8. f = [sec EXCEPT ![target] = [sec[target] EXCEPT !.recs = [sec[target].recs EXCEPT ![n] = t]]]
      BY <2>2, <3>1, <3>5 DEF TornFlash, Torn
    <3>9. f[s] = IF s = target THEN [sec[target] EXCEPT !.recs = [sec[target].recs EXCEPT ![n] = t]]
                 ELSE sec[s]
      BY <1>0, <3>2, <3>8
    <3>10. CASE s # target
      BY <3>9, <3>10
    <3>11. CASE s = target
      <4>1. f[s].recs = [sec[s].recs EXCEPT ![n] = t]
        <5> HIDE DEF Records
        <5> QED
          BY <1>0, <3>2, <3>9, <3>11 DEF SectorStates
      <4>2. \A i \in DOMAIN sec[s].recs : f[s].recs[i] = IF i = n THEN t ELSE sec[s].recs[i]
        BY <4>1
      <4>3. DOMAIN f[s].recs = DOMAIN sec[s].recs
        BY <4>1
      <4> QED
        BY <3>4, <3>7, <3>11, <4>2, <4>3
    <3> QED
      BY <3>10, <3>11
  <2> QED
    BY <1>1, <2>1, <2>2
<1>3. ASSUME NEW s \in Sectors
      PROVE \/ sec'[s].recs = f[s].recs
            \/ /\ \A i \in DOMAIN f[s].recs : ~Holding(f[s].recs[i])
               /\ \A i \in DOMAIN sec'[s].recs : ~Holding(sec'[s].recs[i])
  <2>0. Started(0).st = "PRE_WRITE" /\ Torn(Started(0)).st = "ERR_HDR"
    BY DEF Started, Torn
  <2>1. PICK r : r = Started(0) /\ r.st = "PRE_WRITE"
    BY <2>0
  <2>2. PICK t : t = Torn(r) /\ t.st = "ERR_HDR"
    BY <2>0, <2>1
  <2>3. sec'[s] = IF f[s].magic /\ f[s].store = "USING" /\ f[s].recs \in {<<>>, <<r>>}
                  THEN [f[s] EXCEPT !.recs = <<t>>] ELSE f[s]
    BY <1>1, <2>1, <2>2 DEF Reread
  <2>4. CASE f[s].recs \in {<<>>, <<r>>} /\ sec'[s] = [f[s] EXCEPT !.recs = <<t>>]
    <3>1. f[s] = sec[s] \/ \E R : f[s] = [sec[s] EXCEPT !.recs = R]
      BY <1>0, <1>1 DEF TornFlash
    <3>2. sec'[s].recs = <<t>>
      <4> HIDE DEF Records
      <4> QED
        BY <1>0, <2>4, <3>1 DEF SectorStates
    <3>3. \A i \in DOMAIN <<t>> : <<t>>[i] = t
      OBVIOUS
    <3>4. \A i \in DOMAIN f[s].recs : f[s].recs[i] = r
      BY <2>4
    <3> QED
      BY <2>1, <2>2, <3>2, <3>3, <3>4
  <2> QED
    BY <2>3, <2>4
<1>4. InUse' = InUse
  BY CrashHeads DEF InUse
<1>5. ASSUME NEW s \in Sectors, NEW i
      PROVE /\ i \in DOMAIN sec[s].recs /\ Holding(sec[s].recs[i])
                  <=> i \in DOMAIN sec'[s].recs /\ Holding(sec'[s].recs[i])
            /\ i \in DOMAIN sec[s].recs /\ Holding(sec[s].recs[i])
                  => sec'[s].recs[i] = sec[s].recs[i]
  <2> HIDE DEF Holding
  <2> QED
    BY <1>2, <1>3
<1>6. \A a : a \in Held <=> \E s \in InUse : \E i \in DOMAIN sec[s].recs :
                              a = <<s, i>> /\ Holding(sec[s].recs[i])
  BY DEF Held, AllRecs, At
<1>7. \A a : a \in Held' <=> \E s \in InUse' : \E i \in DOMAIN sec'[s].recs :
                              a = <<s, i>> /\ Holding(sec'[s].recs[i])
  BY DEF Held, AllRecs, At
<1>8. InUse \subseteq Sectors
  BY DEF InUse
<1>9. Held' = Held
  <2> HIDE DEF Holding
  <2>1. \A a : a \in Held => a \in Held'
    BY <1>4, <1>5, <1>6, <1>7, <1>8
  <2>2. \A a : a \in Held' => a \in Held
    BY <1>4, <1>5, <1>6, <1>7, <1>8
  <2> QED
    BY <2>1, <2>2
<1>10. ASSUME NEW a \in Held PROVE At(a)' = At(a)
  <2>1. PICK s \in InUse : \E i \in DOMAIN sec[s].recs : a = <<s, i>> /\ Holding(sec[s].recs[i])
    BY <1>6
  <2>2. PICK i \in DOMAIN sec[s].recs : a = <<s, i>> /\ Holding(sec[s].recs[i])
    BY <2>1
  <2>3. sec'[s].recs[i] = sec[s].recs[i]
    <3> HIDE DEF Holding
    <3> QED
      BY <1>5, <1>8, <2>2
  <2> QED
    BY <2>2, <2>3 DEF At
<1> QED
  BY <1>9, <1>10 DEF HeldKept

(* From where a call left it, boot has one key to mend.                     *)
LEMMA CrashMends ==
    ASSUME CInv, SetDirty, Steady, Crash PROVE Repair' /\ MapKept
<1> USE DEF CInv, TypeOK
<1>1. HeldKept /\ Garbage' = Garbage
  BY CrashKeeps, CrashHeads, HeadsGarbage
<1>2. pc' = "checkHdr" /\ op' = NoReq /\ job' = "call" /\ ~lastComplete'
  BY DEF Crash, Reset
<1>3. ~Making' /\ ~Copying' /\ ~Moving'
  BY <1>2 DEF Making, Copying, Moving, Writing
<1>4. /\ Written' = Written /\ Pending' = Pending /\ Held' = Held
      /\ \A a \in Held : At(a)' = At(a)
      /\ \A a, b \in Held : Differ(a, b)' <=> Differ(a, b)
      /\ Held = Written \cup Pending
  BY <1>1, KeptSets
<1>5. \A a \in Held : At(a).crcOk
  BY DEF Held, Steady, Clean
<1>6. \A a, b \in Written : At(a).key = At(b).key => a = b
  BY DEF Written, Steady, Unique
<1>7. \A a \in Pending : a = Old /\ (Window \/ Replaced)
  BY DEF Pending, Steady, Clean
<1>8. \A a \in Pending, b \in Held : Differ(a, b) => a[1] \in Garbage
  <2>1. SUFFICES ASSUME NEW a \in Pending, NEW b \in Held, Differ(a, b) PROVE a[1] \in Garbage
    OBVIOUS
  <2>2. a = Old /\ a \in AllRecs /\ a # NoAddr
    BY <1>7, Addresses DEF Pending
  <2>3. b \in Written
    BY <1>4, <1>7, <2>1, <2>2 DEF Differ
  <2>4. At(a).key = NewKey
    <3>1. CASE job # "call"
      BY <2>2, <3>1 DEF Old, NewKey
    <3>2. CASE job = "call"
      <4>1. pc \in Writing \cup Replacing
        BY <1>7, <3>2 DEF Window, Replaced, Replacing
      <4> QED
        BY <2>2, <3>2, <4>1 DEF Pointers, Old, NewKey
    <3> QED
      BY <3>1, <3>2
  <2>5. ~Window
    BY <2>1, <2>3, <2>4 DEF Steady, Unique, Written, Differ
  <2>6. Replaced
    BY <1>7, <2>5
  <2>7. At(b).val = NewVal
    <3>1. PICK n \in AllRecs : n = New
      BY <2>6 DEF Steady, OldState
    <3>2. At(n).st = "WRITE" /\ At(n).key = NewKey /\ At(n).val = NewVal
      BY <2>6, <3>1 DEF Steady, OldState
    <3>3. n = b
      BY <1>6, <2>1, <2>3, <2>4, <3>2 DEF Written, Differ
    <3> QED
      BY <3>2, <3>3
  <2>8. job = "call"
    BY <2>1, <2>2, <2>7 DEF NewVal, Old, Differ
  <2>9. op.kind = "set" /\ pc = "delete"
    BY <2>6, <2>8 DEF Replaced, Removing, Control, Requested, Replacing
  <2> QED
    BY <2>2, <2>8, <2>9 DEF SetDirty, Old
<1>9. Whole' /\ Taken' /\ Once'
  <2>1. pc' \notin {"header", "preDelete", "dirty", "delete"}
    BY <1>2
  <2> QED
    BY <1>2, <1>3, <1>4, <1>5, <1>6, <2>1 DEF Whole, Taken, Once
<1>10. Outdated'
  BY <1>1, <1>4, <1>8 DEF Outdated
<1>11. Agreed'
  <2>1. \A a, b \in Pending : ~Differ(a, b)
    BY <1>7 DEF Differ
  <2> QED
    BY <1>4, <2>1 DEF Agreed
<1>12. FirstMoved' /\ Passed'
  BY <1>2, <1>3 DEF FirstMoved, Passed
<1> QED
  BY <1>1, <1>2, <1>9, <1>10, <1>11, <1>12, HeldMapKept DEF Repair

-----------------------------------------------------------------------------
(* Mend is inductive.                                                       *)
LEMMA MendInit == Init => Mend
BY SteadyInit DEF Init, Mend

LEMMA SteadyBoots ==
    ASSUME CInv, CInv', Steady, ~Lost, ~Crash, [Next]_vars
    PROVE Steady' /\ (op = NoReq => MapKept)
<1>1. ~Stuck
  <2>1. SUFFICES ASSUME Stuck PROVE Found(NewKey) = {}
    BY <2>1 DEF Lost
  <2>2. Window
    BY <2>1 DEF Stuck, Window
  <2> QED
    BY <2>2 DEF Steady, Unique, Found
<1>2. Steady'
  BY <1>1, SteadySteps
<1>3. MapStep
  BY <1>1, <1>2, MapSteps
<1>4. ASSUME op = NoReq PROVE MapKept
  <2>1. [k \in Keys |-> Retained(k)]' = [k \in Keys |-> Retained(k)]
    <3>1. op = Map!NoReq /\ op # Map!SetDefault
      BY <1>4 DEF NoReq, Map!NoReq, Map!SetDefault
    <3> QED
      BY <1>3, <3>1 DEF MapStep, Map!Next, Map!Apply, Map!Return, Map!Call, Map!Forget
  <2>2. ASSUME NEW k \in Keys PROVE Retained(k)' = Retained(k)
    <3>1. [j \in Keys |-> Retained(j)'] = [j \in Keys |-> Retained(j)]
      BY <2>1
    <3>2. [j \in Keys |-> Retained(j)'][k] = [j \in Keys |-> Retained(j)][k]
      BY <3>1
    <3> QED
      BY <3>2
  <2> QED
    BY <2>2 DEF MapKept
<1> QED
  BY <1>2, <1>4

LEMMA MendSteps ==
    ASSUME CInv, CInv', SetDirty, Mend, Mendable, Mendable', [Next]_vars
    PROVE Mend' /\ ((booting /\ op = NoReq) \/ crashes' # crashes => MapKept)
<1> USE DEF CInv, TypeOK
<1>0. crashes \in Nat /\ crashes' \in Nat /\ crashes <= 1 /\ crashes' <= 1
  BY DEF Types, Mendable
<1>1. CASE Crash
  <2>1. crashes' = crashes + 1
    BY <1>1 DEF Crash
  <2>2. crashes = 0 /\ crashes' = 1
    BY <1>0, <2>1
  <2>3. Steady
    BY <2>2 DEF Mend
  <2> QED
    BY <1>1, <2>2, <2>3, CrashMends, CrashRestores DEF Mend
<1>2. CASE ~Crash
  <2>1. crashes' = crashes
    BY <1>2 DEF Next, vars, call, CallStep, CallSet, CallDel, CallDefault, GetEnv, Begin, SetStep,
       NewEnv, FindOld, PreDelete, PreDirty, UpdateSecStatus, PreWrite, WriteHeader, WriteBody,
       Commit, Delete, Dirty, Finish, Return, GcStep, MoveAlloc, GcCollect, GcPick, GcNext, Erase,
       Format, GcDone, BootStep, Wipe, CheckHdr, RecoverGc, RecoverNext, RecoverEnd
  <2>2. booting' => booting
    <3>1. pc = "recEnd" => booting
      BY DEF Control, Requested, Loading
    <3> QED
      BY <1>2, <3>1 DEF Next, vars, call, CallStep, CallSet, CallDel, CallDefault, GetEnv, Begin,
         SetStep, NewEnv, FindOld, PreDelete, PreDirty, UpdateSecStatus, PreWrite, WriteHeader,
         WriteBody, Commit, Delete, Dirty, Finish, Return, GcStep, MoveAlloc, GcCollect, GcPick,
         GcNext, Erase, Format, GcDone, BootStep, Wipe, CheckHdr, RecoverGc, RecoverNext,
         RecoverEnd, Go
  <2>3. CASE crashes = 0
    <3>1. Steady /\ ~Lost
      BY <2>3 DEF Mend, Mendable
    <3> QED
      BY <1>2, <2>1, <2>3, <3>1, SteadyBoots DEF Mend
  <2>4. CASE crashes = 1 /\ ~booting
    BY <2>1, <2>2, <2>4 DEF Mend
  <2>5. CASE crashes = 1 /\ booting
    <3>1. ~Lost /\ (Steady \/ (Repair /\ Restoring) \/ Wiping)
      BY <2>5 DEF Mend, Mendable
    <3>2. CASE Steady
      BY <1>2, <2>1, <2>5, <3>1, <3>2, SteadyBoots DEF Mend
    <3>3. CASE Repair /\ Restoring
      <4>1. (Repair' \/ (CheckHdr /\ pc' = "wipe")) /\ MapKept
        BY <1>2, <2>5, <3>1, <3>3, RepairSteps
      <4>2. CheckHdr /\ pc' = "wipe" => Wiping'
        BY <3>3, WipeBegins
      <4>3. Repair' => pc' # "wipe"
        BY DEF Repair, Control, Requested, Returns
      <4>4. pc' # "wipe" => Restoring'
        BY <1>2, <2>5, <3>1, <3>3, RestoringSteps
      <4> QED
        BY <2>1, <2>5, <4>1, <4>2, <4>3, <4>4 DEF Mend
    <3>4. CASE Wiping
      <4>1. op # NoReq
        BY <3>4 DEF Wiping, NoReq, Map!SetDefault
      <4>2. Wiping' \/ Steady'
        BY <1>2, <3>4, WipeSteps
      <4> QED
        BY <2>1, <2>5, <4>1, <4>2 DEF Mend
    <3> QED
      BY <3>1, <3>2, <3>3, <3>4
  <2>6. crashes = 0 \/ crashes = 1
    BY <1>0
  <2> QED
    BY <2>3, <2>4, <2>5, <2>6
<1> QED
  BY <1>1, <1>2

LEMMA MendInvariant == Spec /\ []Mendable => []Mend
<1>1. /\ CInv /\ CInv' /\ SetDirty /\ Mend /\ Mendable /\ Mendable' /\ [Next]_vars => Mend'
  BY MendSteps
<1> QED
  BY <1>1, MendInit, Invariant, SetDirtyInvariant, PTL DEF Spec

LEMMA ReadsNext == CInv' /\ Steady' => ReadBack'
BY Reads, PTL

(* A boot that was not stopped ends with every value stored there to read.  *)
LEMMA BootReads ==
    ASSUME CInv, CInv', Mend, Mendable, Mendable', SetDirty, [Next]_vars, booting, ~booting', ~stopped'
    PROVE \A k \in Keys : Get(k)' = Retained(k)'
<1> USE DEF CInv, TypeOK
<1>1. pc = "recEnd" /\ pc' = "idle" /\ ~gcRequest /\ ~stopped /\ UNCHANGED <<sec, cache>> /\ ~Crash
  <2>1. RecoverEnd /\ ~Crash
    BY DEF Next, vars, call, CallStep, CallSet, CallDel, CallDefault, GetEnv, Begin, SetStep, NewEnv,
       FindOld, PreDelete, PreDirty, UpdateSecStatus, PreWrite, WriteHeader, WriteBody, Commit,
       Delete, Dirty, Finish, Return, GcStep, MoveAlloc, GcCollect, GcPick, GcNext, Erase, Format,
       GcDone, BootStep, Wipe, CheckHdr, RecoverGc, RecoverNext, RecoverEnd, Crash, Reset, Go
  <2> QED
    BY <2>1 DEF RecoverEnd, Go, ram
<1>2. Steady \/ (Repair /\ Restoring)
  <2>1. crashes = 0 \/ crashes = 1
    BY DEF Mendable, Types
  <2> QED
    BY <1>1, <2>1 DEF Mend, Wiping
<1>3. CASE Steady
  <2>1. ~Lost
    BY DEF Mendable
  <2>2. Steady'
    BY <1>1, <1>3, <2>1, SteadyBoots
  <2> QED
    BY <1>1, <2>2, ReadsNext DEF ReadBack
<1>4. CASE Repair /\ Restoring
  <2>1. \A k \in Keys : Get(k) = Retained(k)
    BY <1>1, <1>4, RepairReads
  <2>2. AllRecs' = AllRecs /\ \A a : At(a)' = At(a) /\ FlashAddr(a)' = FlashAddr(a)
    BY <1>1 DEF At, FlashAddr, AllRecs, InUse
  <2>3. \A k \in Keys : /\ CacheHits(k)' = CacheHits(k) /\ Found(k)' = Found(k)
                       /\ Live(k, "WRITE")' = Live(k, "WRITE")
                       /\ Live(k, "PRE_DELETE")' = Live(k, "PRE_DELETE")
    BY <1>1, <2>2 DEF CacheHits, Found, Live
  <2>4. \A k \in Keys : Get(k)' = Get(k)
    BY <2>2, <2>3 DEF Get, FindEnv, FindNoCache
  <2>5. \A k \in Keys : Retained(k)' = Retained(k)
    BY <2>2, <2>3 DEF Retained
  <2> QED
    BY <2>1, <2>4, <2>5
<1> QED
  BY <1>2, <1>3, <1>4

(* Neither a power failure nor the boot after it changes what the flash     *)
(* holds for a key, and when the search for marked records was not stopped  *)
(* get returns it after the boot.                                           *)
THEOREM BootRestores == Spec /\ []Mendable => BootKeeps
<1>1. CInv /\ CInv' /\ SetDirty /\ Mend /\ Mendable /\ Mendable' /\ [Next]_vars
        => [/\ (booting /\ op = NoReq) \/ crashes' # crashes
                 => \A k \in Keys : Retained(k)' = Retained(k)
            /\ booting /\ ~booting' /\ ~stopped'
                 => \A k \in Keys : Get(k)' = Retained(k)']_vars
  BY MendSteps, BootReads DEF MapKept
<1> QED
  BY <1>1, MendInvariant, Invariant, SetDirtyInvariant, PTL DEF Spec, BootKeeps

(* A boot ends with at most one written record of a key.                    *)
LEMMA OneRecord ==
    ASSUME CInv, Mend, Mendable, [Next]_vars, booting, ~booting', NEW k
    PROVE Cardinality(Live(k, "WRITE")') <= 1
<1> USE DEF CInv, TypeOK
<1>1. pc = "recEnd" /\ sec' = sec
  BY DEF Next, vars, call, CallStep, CallSet, CallDel, CallDefault, GetEnv, Begin, SetStep, NewEnv,
     FindOld, PreDelete, PreDirty, UpdateSecStatus, PreWrite, WriteHeader, WriteBody, Commit,
     Delete, Dirty, Finish, Return, GcStep, MoveAlloc, GcCollect, GcPick, GcNext, Erase, Format,
     GcDone, BootStep, Wipe, CheckHdr, RecoverGc, RecoverNext, RecoverEnd, Crash, Reset, Go
<1>2. Steady \/ Repair
  <2>1. crashes = 0 \/ crashes = 1
    BY DEF Mendable, Types
  <2> QED
    BY <1>1, <2>1 DEF Mend, Wiping
<1>3. \A a, b \in Live(k, "WRITE") : a = b
  BY <1>2 DEF Live, Steady, Unique, Repair, Once, Written
<1>4. Live(k, "WRITE")' = Live(k, "WRITE")
  BY <1>1 DEF Live, AllRecs, InUse, At
<1>5. PICK L : L = Live(k, "WRITE")
  OBVIOUS
<1>6. L = {} \/ \E a : L = {a}
  BY <1>3, <1>5
<1>7. Cardinality(L) = 0 \/ Cardinality(L) = 1
  BY <1>6, FS_EmptySet, FS_Singleton
<1>8. Cardinality(L) <= 1
  BY <1>7
<1> QED
  BY <1>4, <1>5, <1>8

THEOREM BootLeavesOne == Spec /\ []Mendable => OneWritten
<1>1. CInv /\ Mend /\ Mendable /\ [Next]_vars
        => [booting /\ ~booting' => \A k \in Keys : Cardinality(Live(k, "WRITE")') <= 1]_vars
  BY OneRecord
<1> QED
  BY <1>1, MendInvariant, Invariant, PTL DEF Spec, OneWritten
=============================================================================
