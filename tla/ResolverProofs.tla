--------------------------- MODULE ResolverProofs ---------------------------
(***************************************************************************)
(* The safety of Resolver for any number of receivers and names.           *)
(***************************************************************************)
EXTENDS Resolver, TLAPS

\* What makes JobsHaveThread inductive: as long as every start() worked, the
\* flag says exactly whether there is a thread that still looks at the jobs.
Awake == {"top", "work", "done"}
FlagIsThread ==
  ~quitting /\ ~missed =>
    /\ running <=> thread \in Awake
    /\ thread \notin Awake => HasJob = {}

Inv == TypeOK /\ NoAnswerLost /\ WorkedJobIsThere /\ FlagIsThread

\* A job that is joined keeps who was connected to it.
LEMMA JoinedKeeps ==
  ASSUME NEW r \in Receivers, NEW n \in Names, TypeOK
  PROVE  /\ DOMAIN Joined(r, n) = HasJob \cup {n}
         /\ Joined(r, n) \in [HasJob \cup {n} -> SUBSET Receivers]
         /\ r \in Joined(r, n)[n]
         /\ \A m \in HasJob : queue[m] \subseteq Joined(r, n)[m]
  BY DEF Joined, TypeOK, HasJob

LEMMA InitInv == Init => Inv
<1> SUFFICES ASSUME Init PROVE Inv
  OBVIOUS
<1>1. HasJob = {}
  BY DEF Init, HasJob
<1>2. queue \in [HasJob -> SUBSET Receivers]
  BY DEF Init, HasJob
<1>3. idle \in 0..(MaxIdle + 1)
  BY ResolverAssumption DEF Init
<1>4. TypeOK
  BY <1>1, <1>2, <1>3 DEF Init, TypeOK
<1> QED
  BY <1>1, <1>4 DEF Init, Inv, NoAnswerLost, WorkedJobIsThere, FlagIsThread, Awake

LEMMA AskInv ==
  ASSUME NEW r \in Receivers, NEW n \in Names, Inv, Ask(r, n)
  PROVE  Inv'
<1> USE ResolverAssumption DEF Inv
<1>0. /\ HasJob' = HasJob \cup {n}
      /\ queue' \in [HasJob' -> SUBSET Receivers]
      /\ r \in queue'[n]
      /\ \A m \in HasJob : queue[m] \subseteq queue'[m]
  BY JoinedKeeps DEF Ask, HasJob
<1>1. TypeOK'
  <2>1. thread' \in {"off", "top", "work", "done", "finishing"} /\ idle' \in 0..(MaxIdle + 1)
    BY DEF Ask, Start, TypeOK, work
  <2>2. job' = job /\ found' = found
    BY DEF Ask, Start, work
  <2>3. running' \in BOOLEAN /\ missed' \in BOOLEAN /\ quitting' \in BOOLEAN
    BY DEF Ask, Start, TypeOK
  <2> QED BY <1>0, <2>1, <2>2, <2>3 DEF Ask, TypeOK
<1>2. NoAnswerLost'
  <2> SUFFICES ASSUME NEW w \in waiting', ~quitting, w \notin posted
               PROVE  w[2] \in HasJob' /\ w[1] \in queue'[w[2]]
    BY DEF Ask, NoAnswerLost
  <2>1. CASE w = <<r, n>>
    BY <1>0, <2>1
  <2>2. CASE w \in waiting
    BY <1>0, <2>2 DEF NoAnswerLost
  <2> QED BY <2>1, <2>2 DEF Ask
<1>3. WorkedJobIsThere'
  <2>1. thread' = thread \/ thread' = "top"
    BY DEF Ask, Start, work
  <2>2. job' = job
    BY DEF Ask, Start, work
  <2> QED BY <1>0, <2>1, <2>2 DEF WorkedJobIsThere
<1>4. FlagIsThread'
  BY <1>0 DEF Ask, Start, FlagIsThread, Awake, TypeOK, work
<1> QED BY <1>1, <1>2, <1>3, <1>4

LEMMA FinishInv == Inv /\ Finish => Inv'
<1> SUFFICES ASSUME Inv, Finish PROVE Inv'
  OBVIOUS
<1> USE ResolverAssumption DEF Inv
<1>0. job \in HasJob /\ job \in Names /\ queue[job] \subseteq Receivers
  BY DEF Finish, WorkedJobIsThere, TypeOK, HasJob
<1>1. TypeOK'
  <2>1. queue' \in [HasJob' -> SUBSET Receivers] /\ HasJob' \subseteq Names
    BY DEF Finish, TypeOK, HasJob
  <2>2. posted' \subseteq Receivers \X Names /\ waiting' \subseteq Receivers \X Names
    BY <1>0 DEF Finish, Emit, TypeOK
  <2>3. black' \subseteq Names /\ inserts' \subseteq Names
    BY <1>0 DEF Finish, Emit, TypeOK
  <2> QED BY <2>1, <2>2, <2>3 DEF Finish, TypeOK
<1>2. NoAnswerLost'
  BY <1>0 DEF Finish, Emit, NoAnswerLost, TypeOK, HasJob
<1>3. WorkedJobIsThere'
  BY DEF Finish, WorkedJobIsThere
<1>4. FlagIsThread'
  BY DEF Finish, FlagIsThread, Awake
<1> QED BY <1>1, <1>2, <1>3, <1>4

LEMMA StepInv == Inv /\ [Next]_vars => Inv'
<1> SUFFICES ASSUME Inv, [Next]_vars PROVE Inv'
  OBVIOUS
<1> USE ResolverAssumption DEF Inv
<1>1. ASSUME NEW r \in Receivers, NEW n \in Names, Look(r, n) \/ Declined(r, n) PROVE Inv'
  BY <1>1 DEF Look, Declined, TypeOK, NoAnswerLost, WorkedJobIsThere, FlagIsThread, HasJob,
              work, sent
<1>2. ASSUME NEW r \in Receivers, NEW n \in Names, Ask(r, n) PROVE Inv'
  BY <1>2, AskInv
<1>3. CASE Stopped
  BY <1>3 DEF Stopped, TypeOK, NoAnswerLost, WorkedJobIsThere, FlagIsThread, HasJob, Awake,
              asked, sent
<1>4. CASE Sleep
  BY <1>4 DEF Sleep, TypeOK, NoAnswerLost, WorkedJobIsThere, FlagIsThread, HasJob, Awake,
              asked, sent
<1>5. CASE IdleEnd
  BY <1>5 DEF IdleEnd, TypeOK, NoAnswerLost, WorkedJobIsThere, FlagIsThread, HasJob, Awake,
              asked, sent
<1>6. CASE Pick
  BY <1>6 DEF Pick, TypeOK, NoAnswerLost, WorkedJobIsThere, FlagIsThread, HasJob, Awake,
              asked, sent
<1>7. CASE Lookup
  BY <1>7 DEF Lookup, TypeOK, NoAnswerLost, WorkedJobIsThere, FlagIsThread, HasJob, Awake,
              sent
<1>8. CASE Finish
  BY <1>8, FinishInv
<1>9. CASE ThreadEnd
  BY <1>9 DEF ThreadEnd, TypeOK, NoAnswerLost, WorkedJobIsThere, FlagIsThread, HasJob, Awake,
              asked, sent
<1>10. ASSUME NEW r \in Receivers, NEW n \in Names, Deliver(r, n) PROVE Inv'
  BY <1>10 DEF Deliver, TypeOK, NoAnswerLost, WorkedJobIsThere, FlagIsThread, HasJob,
              asked, work
<1>11. ASSUME NEW n \in Names, OnSidResolved(n) \/ Expire(n) \/ Retry(n) PROVE Inv'
  BY <1>11 DEF OnSidResolved, Expire, Retry, TypeOK, NoAnswerLost, WorkedJobIsThere,
              FlagIsThread, HasJob, work, sent
<1>12. CASE Quit
  BY <1>12 DEF Quit, TypeOK, NoAnswerLost, WorkedJobIsThere, FlagIsThread, HasJob,
              asked, work, sent
<1>13. CASE Cleanup
  BY <1>13 DEF Cleanup, TypeOK, NoAnswerLost, WorkedJobIsThere, FlagIsThread, HasJob, NoJob,
              asked, sent
<1>14. CASE UNCHANGED vars
  BY <1>14 DEF vars, TypeOK, NoAnswerLost, WorkedJobIsThere, FlagIsThread, HasJob
<1> QED BY <1>1, <1>2, <1>3, <1>4, <1>5, <1>6, <1>7, <1>8, <1>9, <1>10, <1>11, <1>12, <1>13,
           <1>14 DEF Next, Worker, Events, Time

LEMMA SpecInv == Spec => []Inv
  BY InitInv, StepInv, PTL DEF Spec

\* Types, for every number of receivers and names.
THEOREM ResolverTypes == Spec => []TypeOK
  BY SpecInv, PTL DEF Inv

\* No answer that was promised is lost: whoever joins a job while it is worked
\* on is told by the emit under the lock.
THEOREM NoLostAnswer == Spec => []NoAnswerLost
  BY SpecInv, PTL DEF Inv

\* The pointer run() keeps across its unlocked lookup stays valid.
THEOREM JobPointerValid == Spec => []WorkedJobIsThere
  BY SpecInv, PTL DEF Inv

\* As long as every start() starts a thread, a queued job has one.
THEOREM JobsAreServed == Spec => []JobsHaveThread
<1>1. Inv => JobsHaveThread
  BY DEF Inv, FlagIsThread, JobsHaveThread, Awake
<1> QED BY <1>1, SpecInv, PTL
=============================================================================
