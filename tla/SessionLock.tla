----------------------------- MODULE SessionLock -----------------------------
(***************************************************************************)
(* The session lock of runtime/session-lock.ts: a file in the session's    *)
(* directory, created exclusively, judged stale by age and then removed by *)
(* whoever wants it next.  Every file operation (an await of the source)   *)
(* is a step of its own, so callers of several processes interleave        *)
(* between any two of them.                                                *)
(*                                                                         *)
(* Time is kept as ages that stop counting just past the TTL: the code     *)
(* only ever asks whether an age exceeds the TTL.  The model therefore     *)
(* needs no bound on clocks or on the number of attempts.                  *)
(***************************************************************************)
EXTENDS Integers

CONSTANTS
    Callers,    \* the runs that may ask for the session
    TTL,        \* ticks after which a lock counts as stale
    Timely,     \* callers that finish acquire .. release within the TTL
    MayCrash    \* callers whose process may die, or whose file operations fail

ASSUME LockAssumption ==
    /\ TTL \in Nat \ {0}
    /\ Timely \subseteq Callers
    /\ MayCrash \subseteq Callers

VARIABLES
    lock,      \* the lock file, or NoFile
    pc,        \* what each caller does next
    age,       \* age of each caller's token since createLockToken
    robbed     \* live callers whose file was taken away before they verified it

vars == <<lock, pc, age, robbed>>

-----------------------------------------------------------------------------
Ages == 0 .. TTL + 1

(* Mutant: stale already at the TTL.                                       *)
ExpiredAtTTL(a) == a >= TTL
Expired(a) == a > TTL

Older(a) == IF Expired(a) THEN a ELSE a + 1

NoFile == [owner |-> "none"]

(* A lock file: whose token it holds, whether the token has reached the    *)
(* disk yet (open and write are two steps of one writeFile), the age of    *)
(* the token in it and the age of its last modification.                   *)
LockFiles ==
    [owner : Callers, written : BOOLEAN, tokenAge : Ages, mtimeAge : Ages]

Steps == {"idle", "create", "write", "read", "stat", "remove", "work",
          "verify", "unlink"}

FileOf(c) == lock # NoFile /\ lock.owner = c

(* A caller in these steps has created the file and not yet given it up.   *)
Holding == {c \in Callers : pc[c] \in {"write", "work", "verify", "unlink"}}

Init == /\ lock = NoFile
        /\ pc = [c \in Callers |-> "idle"]
        /\ age = [c \in Callers |-> 0]
        /\ robbed = {}

Goto(c, step) == pc' = [pc EXCEPT ![c] = step]

NewToken(c) == age' = [age EXCEPT ![c] = 0]

(* The live owner that loses its file by this removal, if it has not       *)
(* already checked it for the last time.                                   *)
Victims == {v \in Callers : FileOf(v) /\ pc[v] \in {"write", "work", "verify"}}

-----------------------------------------------------------------------------
(* acquireSessionLock: a fresh token, then mkdir (idempotent).             *)
Call(c) == /\ pc[c] = "idle"
           /\ Goto(c, "create")
           /\ NewToken(c)
           /\ UNCHANGED <<lock, robbed>>

(* Mutant: an open that is not exclusive.                                  *)
CreateShared(c) ==
    /\ pc[c] = "create"
    /\ lock' = [owner |-> c, written |-> FALSE, tokenAge |-> age[c], mtimeAge |-> 0]
    /\ Goto(c, "write")
    /\ UNCHANGED <<age, robbed>>

(* The exclusive open of writeFile "wx": it makes an empty file, or fails  *)
(* with EEXIST.                                                            *)
Create(c) ==
    /\ pc[c] = "create"
    /\ \/ /\ lock = NoFile
          /\ lock' = [owner |-> c, written |-> FALSE,
                      tokenAge |-> age[c], mtimeAge |-> 0]
          /\ Goto(c, "write")
       \/ /\ lock # NoFile
          /\ Goto(c, "read")
          /\ UNCHANGED lock
    /\ UNCHANGED <<age, robbed>>

(* The token reaches the file c opened; if that file has been unlinked     *)
(* meanwhile nothing in the directory changes and c does not notice.       *)
WriteToken(c) ==
    /\ pc[c] = "write"
    /\ lock' = IF FileOf(c)
               THEN [lock EXCEPT !.written = TRUE, !.mtimeAge = 0]
               ELSE lock
    /\ Goto(c, "work")
    /\ UNCHANGED <<age, robbed>>

(* isStaleByToken: a missing or empty file, whose token cannot be parsed,  *)
(* is not stale by token.                                                  *)
StaleByToken == lock # NoFile /\ lock.written /\ Expired(lock.tokenAge)

ReadHolder(c) == /\ pc[c] = "read"
                 /\ Goto(c, IF StaleByToken THEN "remove" ELSE "stat")
                 /\ UNCHANGED <<lock, age, robbed>>

(* Mutant: staleness by token alone.                                       *)
StaleByTokenOnly == FALSE

(* isStaleByFileAge; otherwise the caller is turned away.                  *)
StaleByFileAge == lock # NoFile /\ Expired(lock.mtimeAge)

StatFile(c) == /\ pc[c] = "stat"
               /\ Goto(c, IF StaleByFileAge THEN "remove" ELSE "idle")
               /\ UNCHANGED <<lock, age, robbed>>

(* Mutant: the stale file is not removed before the retry.                 *)
RetryOnly(c) == /\ pc[c] = "remove"
                /\ Goto(c, "create")
                /\ NewToken(c)
                /\ UNCHANGED <<lock, robbed>>

(* rm force takes whatever file is there now, then acquireSessionLock is   *)
(* entered again with a new token.                                         *)
RemoveStale(c) == /\ pc[c] = "remove"
                  /\ lock' = NoFile
                  /\ robbed' = robbed \cup Victims
                  /\ Goto(c, "create")
                  /\ NewToken(c)

(* The run is over: release begins.                                        *)
Finish(c) == /\ pc[c] = "work"
             /\ Goto(c, "verify")
             /\ UNCHANGED <<lock, age, robbed>>

(* Mutant: release does not ask whose file it is.                          *)
VerifyNothing(c) == /\ pc[c] = "verify"
                    /\ Goto(c, "unlink")
                    /\ UNCHANGED <<lock, age, robbed>>

(* Mutant: the file's text, which ends in a newline, never is the token.   *)
VerifyUntrimmed(c) == /\ pc[c] = "verify"
                      /\ Goto(c, "idle")
                      /\ robbed' = robbed \ {c}
                      /\ UNCHANGED <<lock, age>>

(* release reads the file and goes on only when it finds its own token.    *)
Verify(c) == /\ pc[c] = "verify"
             /\ Goto(c, IF FileOf(c) /\ lock.written THEN "unlink" ELSE "idle")
             /\ robbed' = IF FileOf(c) /\ lock.written THEN robbed
                                                       ELSE robbed \ {c}
             /\ UNCHANGED <<lock, age>>

(* The second half of release removes the path, whatever it holds by now.  *)
Unlink(c) == /\ pc[c] = "unlink"
             /\ lock' = NoFile
             /\ robbed' = (robbed \cup Victims) \ {c}
             /\ Goto(c, "idle")
             /\ UNCHANGED age

(* The process dies, or a file operation of it throws, such as the write   *)
(* of the token after the open; its file stays.  The caller's name is      *)
(* reused by the next process that asks for the session.                   *)
Crash(c) == /\ c \in MayCrash
            /\ pc[c] # "idle"
            /\ Goto(c, "idle")
            /\ robbed' = robbed \ {c}
            /\ UNCHANGED <<lock, age>>

(* Time passes for every token and file.  A timely caller is done with     *)
(* its token before the TTL has run out.                                   *)
Tick ==
    /\ \A c \in Timely : pc[c] # "idle" => age[c] < TTL
    /\ age' = [c \in Callers |-> IF pc[c] = "idle" THEN age[c] ELSE Older(age[c])]
    /\ lock' = IF lock = NoFile
               THEN NoFile
               ELSE [lock EXCEPT !.tokenAge = Older(@), !.mtimeAge = Older(@)]
    /\ UNCHANGED <<pc, robbed>>

Acquire(c) == Create(c) \/ WriteToken(c) \/ ReadHolder(c) \/ StatFile(c) \/ RemoveStale(c)

Release(c) == Verify(c) \/ Unlink(c)

Next == \/ \E c \in Callers : Call(c) \/ Acquire(c) \/ Finish(c) \/ Release(c) \/ Crash(c)
        \/ Tick

Spec == Init /\ [][Next]_vars

(* A caller that is running goes on running, and time goes on.  Only a     *)
(* timely caller is obliged to finish its work; nobody is obliged to ask   *)
(* for the session or to die.                                              *)
Fairness == /\ WF_vars(Tick)
            /\ \A c \in Callers : WF_vars(Acquire(c)) /\ WF_vars(Release(c))
            /\ \A c \in Timely : WF_vars(Finish(c))

FairSpec == Spec /\ Fairness

-----------------------------------------------------------------------------
(* Properties.                                                             *)

(* Type correctness of the lock file, the callers' control and their       *)
(* tokens' ages.                                                           *)
TypeOK == /\ lock \in LockFiles \cup {NoFile}
          /\ pc \in [Callers -> Steps]
          /\ age \in [Callers -> Ages]
          /\ robbed \subseteq Callers

(* ARCHITECTURE.md 8.3: two runs of one session never overlap.             *)
Exclusion == \A c, d \in Holding : c = d

(* A caller at work that nobody has robbed is the one the file names, so   *)
(* two callers at work at once means that one of them was robbed: by a     *)
(* contender that judged a file stale, never by an exclusive create that   *)
(* let two through.                                                        *)
UnrobbedOwnsFile ==
    \A c \in Callers \ robbed : pc[c] \in {"write", "work", "verify"} => FileOf(c)

(* Nothing but a death, or an error of a file operation, leaves a lock     *)
(* behind: any other lock file is that of a run, tells its token once the  *)
(* run is at work, and goes when the run is over, whoever has broken in on *)
(* whom before.                                                            *)
FileHasItsRun ==
    lock # NoFile /\ lock.owner \notin MayCrash =>
        lock.owner \in Holding /\ (lock.written \/ pc[lock.owner] = "write")

(* The token check of release: a caller whose session was taken over while *)
(* it worked leaves, in all that it still does, the file of its successor  *)
(* alone.                                                                  *)
RobbedLeavesSuccessorAlone ==
    [][\A c \in robbed : pc'[c] # pc[c] => UNCHANGED lock]_vars

(* The file of a process that is gone cannot keep the others out: a caller *)
(* that does not die itself does not ask in vain forever, so where such a  *)
(* file stays nobody asks any more.  The TTL recovery must cover the file  *)
(* of a process that died before its token was written, too.               *)
Abandoned == lock # NoFile /\ pc[lock.owner] = "idle"

AbandonedLockRecovers ==
    \A c \in Callers \ MayCrash : <>[]Abandoned => <>[](pc[c] = "idle")

(* The retry inside acquireSessionLock comes to an end: once those that    *)
(* die are gone for good, every other caller is either let in or turned    *)
(* away, however stale files and retries of other contenders fall together.*)
AcquireTerminates ==
    (\A d \in MayCrash : <>[](pc[d] = "idle"))
        => \A c \in Callers \ MayCrash :
               (pc[c] = "create") ~> (pc[c] \in {"idle", "work"})

(* The lock implements the exclusive session when nothing goes stale.      *)
Mutex == INSTANCE SessionMutex WITH inside <- Holding

ImplementsMutex == Mutex!MutexSpec
=============================================================================
