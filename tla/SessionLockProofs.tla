-------------------------- MODULE SessionLockProofs --------------------------
(***************************************************************************)
(* Theorems about the session lock, for any set of callers and any TTL.    *)
(***************************************************************************)
EXTENDS SessionLock, TLAPS

(* A lock file is never the absence of one.                                *)
LEMMA NoFileIsNoLockFile == \A f \in LockFiles : f # NoFile
  <1> SUFFICES ASSUME NEW f \in LockFiles, f = NoFile
               PROVE  FALSE
    OBVIOUS
  <1>1. DOMAIN f = {"owner", "written", "tokenAge", "mtimeAge"}
    BY DEF LockFiles
  <1>2. DOMAIN f = {"owner"}
    BY DEF NoFile
  <1> QED
    BY <1>1, <1>2

(* Ages stay within their range as time passes.                            *)
LEMMA OlderIsAge == \A a \in Ages : Older(a) \in Ages
  BY LockAssumption DEF Ages, Older, Expired

LEMMA ZeroIsAge == 0 \in Ages
  BY LockAssumption DEF Ages

-----------------------------------------------------------------------------
(* Type correctness: every reachable lock file, control state and age is   *)
(* one the declarations allow.                                             *)
THEOREM TypeCorrect == Spec => []TypeOK
  <1>1. Init => TypeOK
    BY ZeroIsAge DEF Init, TypeOK, Steps
  <1>2. TypeOK /\ [Next]_vars => TypeOK'
    <2> SUFFICES ASSUME TypeOK, [Next]_vars
                 PROVE  TypeOK'
      OBVIOUS
    <2> USE DEF TypeOK
    <2>1. ASSUME NEW c \in Callers, Call(c)
          PROVE  TypeOK'
      BY <2>1, ZeroIsAge DEF Call, Goto, NewToken, Steps
    <2>2. ASSUME NEW c \in Callers, Create(c)
          PROVE  TypeOK'
      <3>1. lock' \in LockFiles \cup {NoFile}
        <4>1. CASE UNCHANGED lock
          BY <4>1
        <4>2. CASE lock' = [owner |-> c, written |-> FALSE,
                            tokenAge |-> age[c], mtimeAge |-> 0]
          <5>1. age[c] \in Ages
            OBVIOUS
          <5> QED
            BY <4>2, <5>1, ZeroIsAge DEF LockFiles
        <4> QED
          BY <2>2, <4>1, <4>2 DEF Create
      <3>2. pc' \in [Callers -> Steps]
        BY <2>2 DEF Create, Goto, Steps
      <3> QED
        BY <2>2, <3>1, <3>2 DEF Create
    <2>3. ASSUME NEW c \in Callers, WriteToken(c)
          PROVE  TypeOK'
      <3>1. lock' \in LockFiles \cup {NoFile}
        BY <2>3, ZeroIsAge DEF WriteToken, FileOf, LockFiles
      <3> QED
        BY <2>3, <3>1 DEF WriteToken, Goto, Steps
    <2>4. ASSUME NEW c \in Callers, ReadHolder(c)
          PROVE  TypeOK'
      BY <2>4 DEF ReadHolder, Goto, Steps
    <2>5. ASSUME NEW c \in Callers, StatFile(c)
          PROVE  TypeOK'
      BY <2>5 DEF StatFile, Goto, Steps
    <2>6. ASSUME NEW c \in Callers, RemoveStale(c)
          PROVE  TypeOK'
      BY <2>6, ZeroIsAge DEF RemoveStale, Goto, NewToken, Victims, Steps
    <2>7. ASSUME NEW c \in Callers, Finish(c)
          PROVE  TypeOK'
      BY <2>7 DEF Finish, Goto, Steps
    <2>8. ASSUME NEW c \in Callers, Verify(c)
          PROVE  TypeOK'
      BY <2>8 DEF Verify, Goto, Steps
    <2>9. ASSUME NEW c \in Callers, Unlink(c)
          PROVE  TypeOK'
      BY <2>9 DEF Unlink, Goto, Victims, Steps
    <2>10. ASSUME NEW c \in Callers, Crash(c)
           PROVE  TypeOK'
      BY <2>10 DEF Crash, Goto, Steps
    <2>11. CASE Tick
      <3>1. lock' \in LockFiles \cup {NoFile}
        BY <2>11, OlderIsAge DEF Tick, LockFiles
      <3>2. age' \in [Callers -> Ages]
        BY <2>11, OlderIsAge DEF Tick
      <3> QED
        BY <2>11, <3>1, <3>2 DEF Tick
    <2>12. CASE UNCHANGED vars
      BY <2>12 DEF vars
    <2> QED
      BY <2>1, <2>2, <2>3, <2>4, <2>5, <2>6, <2>7, <2>8, <2>9, <2>10, <2>11, <2>12
      DEF Next, Acquire, Release
  <1> QED
    BY <1>1, <1>2, PTL DEF Spec

-----------------------------------------------------------------------------
(* What a robbed caller is: still live, not yet verified, and no file of   *)
(* its own left, so that its release cannot pass the token check.          *)
RobbedInv == \A c \in robbed : /\ pc[c] \in {"write", "work", "verify"}
                               /\ ~FileOf(c)

LockInv == TypeOK /\ RobbedInv /\ UnrobbedOwnsFile

LEMMA LockInvHolds == Spec => []LockInv
  <1>1. Init => RobbedInv /\ UnrobbedOwnsFile
    BY DEF Init, RobbedInv, UnrobbedOwnsFile
  <1>2. TypeOK /\ RobbedInv /\ UnrobbedOwnsFile /\ [Next]_vars
            => RobbedInv' /\ UnrobbedOwnsFile'
    <2> SUFFICES ASSUME TypeOK, RobbedInv, UnrobbedOwnsFile, [Next]_vars
                 PROVE  RobbedInv' /\ UnrobbedOwnsFile'
      OBVIOUS
    <2> USE DEF TypeOK, RobbedInv, UnrobbedOwnsFile
    <2>1. ASSUME NEW c \in Callers, Call(c)
          PROVE  RobbedInv' /\ UnrobbedOwnsFile'
      BY <2>1 DEF Call, Goto, NewToken, FileOf
    <2>2. ASSUME NEW c \in Callers, Create(c)
          PROVE  RobbedInv' /\ UnrobbedOwnsFile'
      <3>1. CASE lock = NoFile
        <4>1. /\ lock' = [owner |-> c, written |-> FALSE,
                          tokenAge |-> age[c], mtimeAge |-> 0]
              /\ pc' = [pc EXCEPT ![c] = "write"]
              /\ robbed' = robbed
          BY <2>2, <3>1 DEF Create, Goto
        <4>2. lock' \in LockFiles
          <5>1. age[c] \in Ages
            OBVIOUS
          <5> QED
            BY <4>1, <5>1, ZeroIsAge DEF LockFiles
        <4>3. lock' # NoFile /\ lock'.owner = c
          BY <4>1, <4>2, NoFileIsNoLockFile
        <4>4. \A d \in Callers \ robbed : pc[d] \notin {"write", "work", "verify"}
          BY <3>1 DEF FileOf
        <4>5. pc[c] = "create" /\ c \notin robbed
          BY <2>2 DEF Create
        <4> QED
          BY <4>1, <4>3, <4>4, <4>5 DEF FileOf
      <3>2. CASE lock # NoFile
        BY <2>2, <3>2 DEF Create, Goto, FileOf
      <3> QED
        BY <3>1, <3>2
    <2>3. ASSUME NEW c \in Callers, WriteToken(c)
          PROVE  RobbedInv' /\ UnrobbedOwnsFile'
      <3>1. \A d \in Callers : FileOf(d)' <=> FileOf(d)
        <4>1. CASE FileOf(c)
          <5>1. lock \in LockFiles /\ lock' \in LockFiles /\ lock'.owner = lock.owner
            BY <2>3, <4>1, ZeroIsAge DEF WriteToken, FileOf, LockFiles
          <5> QED
            BY <5>1, NoFileIsNoLockFile DEF FileOf
        <4>2. CASE ~FileOf(c)
          BY <2>3, <4>2 DEF WriteToken, FileOf
        <4> QED
          BY <4>1, <4>2
      <3> QED
        BY <2>3, <3>1 DEF WriteToken, Goto
    <2>4. ASSUME NEW c \in Callers, ReadHolder(c)
          PROVE  RobbedInv' /\ UnrobbedOwnsFile'
      BY <2>4 DEF ReadHolder, Goto, FileOf
    <2>5. ASSUME NEW c \in Callers, StatFile(c)
          PROVE  RobbedInv' /\ UnrobbedOwnsFile'
      BY <2>5 DEF StatFile, Goto, FileOf
    <2>6. ASSUME NEW c \in Callers, RemoveStale(c)
          PROVE  RobbedInv' /\ UnrobbedOwnsFile'
      BY <2>6 DEF RemoveStale, Goto, NewToken, Victims, FileOf
    <2>7. ASSUME NEW c \in Callers, Finish(c)
          PROVE  RobbedInv' /\ UnrobbedOwnsFile'
      BY <2>7 DEF Finish, Goto, FileOf
    <2>8. ASSUME NEW c \in Callers, Verify(c)
          PROVE  RobbedInv' /\ UnrobbedOwnsFile'
      BY <2>8 DEF Verify, Goto, FileOf
    <2>9. ASSUME NEW c \in Callers, Unlink(c)
          PROVE  RobbedInv' /\ UnrobbedOwnsFile'
      BY <2>9 DEF Unlink, Goto, Victims, FileOf
    <2>10. ASSUME NEW c \in Callers, Crash(c)
           PROVE  RobbedInv' /\ UnrobbedOwnsFile'
      BY <2>10 DEF Crash, Goto, FileOf
    <2>11. CASE Tick
      <3>1. \A d \in Callers : FileOf(d)' <=> FileOf(d)
        <4>1. CASE lock = NoFile
          BY <2>11, <4>1 DEF Tick, FileOf
        <4>2. CASE lock # NoFile
          <5>1. lock \in LockFiles /\ lock' \in LockFiles /\ lock'.owner = lock.owner
            BY <2>11, <4>2, OlderIsAge DEF Tick, LockFiles
          <5> QED
            BY <5>1, NoFileIsNoLockFile DEF FileOf
        <4> QED
          BY <4>1, <4>2
      <3> QED
        BY <2>11, <3>1 DEF Tick
    <2>12. CASE UNCHANGED vars
      BY <2>12 DEF vars, FileOf
    <2> QED
      BY <2>1, <2>2, <2>3, <2>4, <2>5, <2>6, <2>7, <2>8, <2>9, <2>10, <2>11, <2>12
      DEF Next, Acquire, Release
  <1> QED
    BY <1>1, <1>2, TypeCorrect, PTL DEF Spec, LockInv

(* A caller at work that nobody robbed is the one the file names, whatever *)
(* crashes, overruns and stale-lock recoveries happen.                     *)
THEOREM UnrobbedOwns == Spec => []UnrobbedOwnsFile
  BY LockInvHolds, PTL DEF LockInv

(* The release of a caller that was taken over never touches the file of   *)
(* its successor.                                                          *)
THEOREM RobbedIsHarmless == Spec => RobbedLeavesSuccessorAlone
  <1>1. LockInv /\ [Next]_vars
            => [\A c \in robbed : pc'[c] # pc[c] => UNCHANGED lock]_vars
    <2> SUFFICES ASSUME LockInv, Next, NEW c \in robbed, pc'[c] # pc[c]
                 PROVE  UNCHANGED lock
      OBVIOUS
    <2>1. c \in Callers /\ pc[c] \in {"write", "work", "verify"} /\ ~FileOf(c)
      BY DEF LockInv, TypeOK, RobbedInv
    <2>2. ~Tick
      BY DEF Tick
    <2>3. \A d \in Callers :
              Call(d) \/ Acquire(d) \/ Finish(d) \/ Release(d) \/ Crash(d) => d = c
      BY <2>1 DEF LockInv, TypeOK, Call, Acquire, Create, WriteToken, ReadHolder,
                  StatFile, RemoveStale, Finish, Release, Verify, Unlink, Crash, Goto
    <2>4. Call(c) \/ Acquire(c) \/ Finish(c) \/ Release(c) \/ Crash(c)
      BY <2>2, <2>3 DEF Next
    <2> QED
      BY <2>1, <2>4 DEF Call, Acquire, Create, WriteToken, ReadHolder, StatFile,
                        RemoveStale, Finish, Release, Verify, Unlink, Crash
  <1> QED
    BY <1>1, LockInvHolds, PTL DEF Spec, RobbedLeavesSuccessorAlone

(* Whatever broke in, a lock file that no death and no error left behind   *)
(* is that of a run, which takes it away.                                  *)
THEOREM FilesAreOfRuns == Spec => []FileHasItsRun
  <1>1. Init => FileHasItsRun
    BY DEF Init, FileHasItsRun
  <1>2. TypeOK /\ FileHasItsRun /\ [Next]_vars => FileHasItsRun'
    <2> SUFFICES ASSUME TypeOK, FileHasItsRun, [Next]_vars
                 PROVE  FileHasItsRun'
      OBVIOUS
    <2> USE DEF TypeOK, FileHasItsRun, Holding
    <2>1. ASSUME NEW c \in Callers, Create(c), lock = NoFile
          PROVE  FileHasItsRun'
      <3>1. lock'.owner = c /\ pc'[c] = "write"
        BY <2>1 DEF Create, Goto
      <3> QED
        BY <3>1
    <2>2. ASSUME NEW c \in Callers, WriteToken(c)
          PROVE  FileHasItsRun'
      <3>1. CASE FileOf(c)
        <4>1. lock \in LockFiles /\ lock' = [lock EXCEPT !.written = TRUE, !.mtimeAge = 0]
          BY <2>2, <3>1 DEF WriteToken, FileOf
        <4>2. lock'.owner = lock.owner /\ lock'.written
          BY <4>1 DEF LockFiles
        <4> QED
          BY <2>2, <3>1, <4>2 DEF WriteToken, FileOf, Goto
      <3>2. CASE ~FileOf(c)
        BY <2>2, <3>2 DEF WriteToken, FileOf, Goto
      <3> QED
        BY <3>1, <3>2
    <2>3. ASSUME NEW c \in Callers, Verify(c) \/ Finish(c) \/ Crash(c)
          PROVE  FileHasItsRun'
      BY <2>3 DEF Verify, Finish, Crash, FileOf, Goto
    <2>4. ASSUME NEW c \in Callers, Unlink(c) \/ RemoveStale(c)
          PROVE  FileHasItsRun'
      BY <2>4 DEF Unlink, RemoveStale
    <2>5. ASSUME NEW c \in Callers,
                 \/ Call(c) \/ ReadHolder(c) \/ StatFile(c)
                 \/ Create(c) /\ lock # NoFile
          PROVE  FileHasItsRun'
      BY <2>5 DEF Call, ReadHolder, StatFile, Create, Goto
    <2>6. CASE Tick
      <3>1. CASE lock = NoFile
        BY <2>6, <3>1 DEF Tick
      <3>2. CASE lock # NoFile
        <4>1. /\ lock \in LockFiles
              /\ lock' = [lock EXCEPT !.tokenAge = Older(@), !.mtimeAge = Older(@)]
          BY <2>6, <3>2 DEF Tick
        <4>2. lock'.owner = lock.owner /\ lock'.written = lock.written
          BY <4>1 DEF LockFiles
        <4> QED
          BY <2>6, <3>2, <4>2 DEF Tick
      <3> QED
        BY <3>1, <3>2
    <2>7. CASE UNCHANGED vars
      BY <2>7 DEF vars
    <2> QED
      BY <2>1, <2>2, <2>3, <2>4, <2>5, <2>6, <2>7 DEF Next, Acquire, Release
  <1> QED
    BY <1>1, <1>2, TypeCorrect, PTL DEF Spec

-----------------------------------------------------------------------------
(* Nothing goes stale: every caller is done within the TTL and none dies.  *)
NothingStale == Timely = Callers /\ MayCrash = {}

(* Then no token outlives the TTL, so no contender ever reaches the        *)
(* removal, and the file names exactly the caller that holds the session   *)
(* and is no older than that caller's token.                               *)
TokensFresh == \A c \in Callers : pc[c] # "idle" => age[c] <= TTL

NobodyBreaks == \A c \in Callers : pc[c] # "remove"

HolderOwnsFile ==
    \A c \in Holding : /\ FileOf(c)
                       /\ pc[c] # "write" => lock.written

FileHasHolder ==
    lock # NoFile => /\ lock.owner \in Holding
                     /\ lock.tokenAge <= age[lock.owner]
                     /\ lock.mtimeAge <= age[lock.owner]

FreshInv == TokensFresh /\ NobodyBreaks /\ HolderOwnsFile /\ FileHasHolder

LEMMA FreshInvHolds == NothingStale => (Spec => []FreshInv)
  <1> SUFFICES ASSUME NothingStale
               PROVE  Spec => []FreshInv
    OBVIOUS
  <1>1. Init => FreshInv
    BY DEF Init, FreshInv, TokensFresh, NobodyBreaks, HolderOwnsFile, FileHasHolder,
           Holding
  <1>2. TypeOK /\ FreshInv /\ [Next]_vars => FreshInv'
    <2> SUFFICES ASSUME TypeOK, FreshInv, [Next]_vars
                 PROVE  FreshInv'
      OBVIOUS
    <2> USE DEF TypeOK, FreshInv, TokensFresh, NobodyBreaks, HolderOwnsFile,
                FileHasHolder, Holding
    <2>0. TTL \in Nat /\ TTL > 0 /\ age \in [Callers -> 0 .. TTL + 1]
      BY LockAssumption DEF Ages
    <2>f. lock # NoFile => /\ lock \in LockFiles
                           /\ lock.tokenAge \in 0 .. TTL + 1
                           /\ lock.mtimeAge \in 0 .. TTL + 1
      BY DEF LockFiles, Ages
    <2>1. ASSUME NEW c \in Callers, Call(c)
          PROVE  FreshInv'
      BY <2>0, <2>f, <2>1 DEF Call, Goto, NewToken, FileOf
    <2>2. ASSUME NEW c \in Callers, Create(c)
          PROVE  FreshInv'
      <3>1. CASE lock = NoFile
        <4>1. /\ lock' = [owner |-> c, written |-> FALSE,
                          tokenAge |-> age[c], mtimeAge |-> 0]
              /\ pc' = [pc EXCEPT ![c] = "write"]
              /\ age' = age
          BY <2>2, <3>1 DEF Create, Goto
        <4>2. lock' # NoFile
          <5>1. age[c] \in Ages
            OBVIOUS
          <5>2. lock' \in LockFiles
            BY <4>1, <5>1, ZeroIsAge DEF LockFiles
          <5> QED
            BY <5>2, NoFileIsNoLockFile
        <4>3. Holding' = {c}
          BY <4>1, <3>1 DEF FileOf
        <4>4. TokensFresh' /\ NobodyBreaks'
          BY <2>2, <4>1 DEF Create
        <4>5. HolderOwnsFile' /\ FileHasHolder'
          BY <2>0, <4>1, <4>2, <4>3 DEF FileOf
        <4> QED
          BY <4>4, <4>5
      <3>2. CASE lock # NoFile
        BY <2>2, <3>2 DEF Create, Goto, FileOf
      <3> QED
        BY <3>1, <3>2
    <2>3. ASSUME NEW c \in Callers, WriteToken(c)
          PROVE  FreshInv'
      <3>1. FileOf(c) /\ c \in Holding
        BY <2>3 DEF WriteToken
      <3>2. lock' = [lock EXCEPT !.written = TRUE, !.mtimeAge = 0]
        BY <2>3, <3>1 DEF WriteToken
      <3>3. /\ lock' # NoFile
            /\ lock'.owner = lock.owner
            /\ lock'.written
            /\ lock'.tokenAge = lock.tokenAge
            /\ lock'.mtimeAge = 0
        <4>1. lock' \in LockFiles
          BY <3>1, <3>2, <2>f, ZeroIsAge DEF LockFiles, FileOf
        <4> QED
          BY <4>1, <3>1, <3>2, <2>f, NoFileIsNoLockFile DEF LockFiles, FileOf
      <3>4. pc' = [pc EXCEPT ![c] = "work"] /\ age' = age
        BY <2>3 DEF WriteToken, Goto
      <3> QED
        BY <2>0, <2>3, <3>1, <3>3, <3>4 DEF FileOf, WriteToken
    <2>4. ASSUME NEW c \in Callers, ReadHolder(c)
          PROVE  FreshInv'
      <3>1. ~StaleByToken
        BY <2>0, <2>f DEF StaleByToken, Expired
      <3> QED
        BY <2>4, <3>1 DEF ReadHolder, Goto, FileOf
    <2>5. ASSUME NEW c \in Callers, StatFile(c)
          PROVE  FreshInv'
      <3>1. ~StaleByFileAge
        BY <2>0, <2>f DEF StaleByFileAge, Expired
      <3> QED
        BY <2>5, <3>1 DEF StatFile, Goto, FileOf
    <2>6. ASSUME NEW c \in Callers, RemoveStale(c)
          PROVE  FreshInv'
      BY <2>6 DEF RemoveStale
    <2>7. ASSUME NEW c \in Callers, Finish(c)
          PROVE  FreshInv'
      BY <2>7 DEF Finish, Goto, FileOf
    <2>8. ASSUME NEW c \in Callers, Verify(c)
          PROVE  FreshInv'
      BY <2>8 DEF Verify, Goto, FileOf
    <2>9. ASSUME NEW c \in Callers, Unlink(c)
          PROVE  FreshInv'
      <3>1. \A d \in Holding : d = c
        BY <2>9 DEF Unlink, FileOf
      <3>2. lock' = NoFile /\ pc' = [pc EXCEPT ![c] = "idle"] /\ age' = age
        BY <2>9 DEF Unlink, Goto
      <3>3. Holding' = {}
        BY <3>1, <3>2
      <3> QED
        BY <3>2, <3>3
    <2>10. ASSUME NEW c \in Callers, Crash(c)
           PROVE  FreshInv'
      BY <2>10 DEF Crash, NothingStale
    <2>11. CASE Tick
      <3>1. \A c \in Callers : pc[c] # "idle" => age[c] < TTL /\ age'[c] = age[c] + 1
        BY <2>0, <2>11 DEF Tick, NothingStale, Older, Expired
      <3>2. lock # NoFile => /\ lock' # NoFile
                             /\ lock'.owner = lock.owner
                             /\ lock'.written = lock.written
                             /\ lock'.tokenAge = Older(lock.tokenAge)
                             /\ lock'.mtimeAge = Older(lock.mtimeAge)
        <4> SUFFICES ASSUME lock # NoFile
                     PROVE  /\ lock' # NoFile
                            /\ lock'.owner = lock.owner
                            /\ lock'.written = lock.written
                            /\ lock'.tokenAge = Older(lock.tokenAge)
                            /\ lock'.mtimeAge = Older(lock.mtimeAge)
          OBVIOUS
        <4>1. lock \in LockFiles /\ lock' \in LockFiles
          BY <2>11, OlderIsAge DEF Tick, LockFiles
        <4> QED
          BY <2>11, <4>1, NoFileIsNoLockFile DEF Tick, LockFiles
      <3>3. lock # NoFile => pc[lock.owner] # "idle" /\ lock.owner \in Callers
        OBVIOUS
      <3>4. lock = NoFile => lock' = NoFile
        BY <2>11 DEF Tick
      <3>5. pc' = pc
        BY <2>11 DEF Tick
      <3>6. TokensFresh' /\ NobodyBreaks'
        BY <2>0, <3>1, <3>5
      <3>7. HolderOwnsFile'
        BY <3>2, <3>5 DEF FileOf
      <3>8. FileHasHolder'
        BY <2>0, <2>f, <3>1, <3>2, <3>3, <3>4, <3>5 DEF Older, Expired
      <3> QED
        BY <3>6, <3>7, <3>8
    <2>12. CASE UNCHANGED vars
      BY <2>12 DEF vars, FileOf
    <2> QED
      BY <2>1, <2>2, <2>3, <2>4, <2>5, <2>6, <2>7, <2>8, <2>9, <2>10, <2>11, <2>12
      DEF Next, Acquire, Release
  <1> QED
    BY <1>1, <1>2, TypeCorrect, PTL DEF Spec

(* ARCHITECTURE.md 8.3 under the one condition that makes it true of this  *)
(* code: as long as nothing goes stale, two runs of one session never      *)
(* overlap.                                                                *)
THEOREM FreshExclusion == NothingStale => (Spec => []Exclusion)
  <1>1. FreshInv => Exclusion
    BY DEF FreshInv, HolderOwnsFile, Exclusion, FileOf
  <1> QED
    BY <1>1, FreshInvHolds, PTL

(* Under the same condition the file protocol implements the exclusive     *)
(* session: creating the file enters, unlinking it leaves, and every other *)
(* step is invisible.                                                      *)
THEOREM FreshRefinement == NothingStale => (Spec => ImplementsMutex)
  <1> SUFFICES ASSUME NothingStale
               PROVE  Spec => ImplementsMutex
    OBVIOUS
  <1>1. Init => Mutex!MutexInit
    BY DEF Init, Mutex!MutexInit, Holding
  <1>2. TypeOK /\ FreshInv /\ [Next]_vars => [Mutex!MutexNext]_Holding
    <2> SUFFICES ASSUME TypeOK, FreshInv, [Next]_vars
                 PROVE  Mutex!MutexNext \/ Holding' = Holding
      OBVIOUS
    <2> USE DEF TypeOK
    <2>1. ASSUME NEW c \in Callers, Create(c), lock = NoFile
          PROVE  Mutex!Enter(c)
      <3>1. Holding = {}
        BY <2>1 DEF FreshInv, HolderOwnsFile, FileOf
      <3>2. Holding' = {c}
        BY <2>1, <3>1 DEF Create, Goto, Holding
      <3> QED
        BY <3>1, <3>2 DEF Mutex!Enter
    <2>2. ASSUME NEW c \in Callers, Create(c), lock # NoFile
          PROVE  Holding' = Holding
      BY <2>2 DEF Create, Goto, Holding
    <2>3. ASSUME NEW c \in Callers, Verify(c)
          PROVE  Holding' = Holding
      <3>1. FileOf(c) /\ lock.written
        BY <2>3 DEF Verify, FreshInv, HolderOwnsFile, Holding
      <3> QED
        BY <2>3, <3>1 DEF Verify, Goto, Holding
    <2>4. ASSUME NEW c \in Callers, Unlink(c)
          PROVE  Mutex!Leave(c)
      BY <2>4 DEF Unlink, Goto, Holding, Mutex!Leave
    <2>5. ASSUME NEW c \in Callers,
                 \/ Call(c) \/ WriteToken(c) \/ ReadHolder(c) \/ StatFile(c)
                 \/ RemoveStale(c) \/ Finish(c)
          PROVE  Holding' = Holding
      BY <2>5 DEF Call, WriteToken, ReadHolder, StatFile, RemoveStale, Finish, Goto,
                  Holding
    <2>6. ASSUME NEW c \in Callers, Crash(c)
          PROVE  FALSE
      BY <2>6 DEF Crash, NothingStale
    <2>7. CASE Tick
      BY <2>7 DEF Tick, Holding
    <2>8. CASE UNCHANGED vars
      BY <2>8 DEF vars, Holding
    <2> QED
      BY <2>1, <2>2, <2>3, <2>4, <2>5, <2>6, <2>7, <2>8
      DEF Next, Acquire, Release, Mutex!MutexNext
  <1> QED
    BY <1>1, <1>2, TypeCorrect, FreshInvHolds, PTL
    DEF Spec, ImplementsMutex, Mutex!MutexSpec
=============================================================================
