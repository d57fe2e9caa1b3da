------------------------------ MODULE Resolver ------------------------------
(***************************************************************************)
(* The two resolvers that answer later: CSidResolver and the reverse       *)
(* lookups of CDnsResolver (SidResolver.cpp and DnsResolver.cpp in         *)
(* src/TaskExplorer/API/Windows).  They share their design: a map of jobs  *)
(* under m_JobMutex, and a thread that is started by the first question    *)
(* and ends by itself when it has been idle for a while.  kind says which  *)
(* of the two a behaviour is about.                                        *)
(*                                                                         *)
(* A step is one locked region.  Who asks gives a receiver, whose slot is  *)
(* connected to the job's signal and is called by the receiver's own event *)
(* loop.  Names stand for SIDs and addresses, in the order of the map.     *)
(* What is found out, and the records of the system's own cache, are left  *)
(* out.  QThread is external: start() does nothing while the thread has    *)
(* left run() and QThread does not know of it yet.                         *)
(***************************************************************************)
EXTENDS Naturals

CONSTANTS
  Names,      \* what is asked for
  Receivers,  \* who asks
  Questions,  \* and who asks for what
  MaxIdle     \* the idle rounds after which the thread ends, 4 * 10 in the code

ASSUME ResolverAssumption ==
  Questions \subseteq Receivers \X Names /\ Names \subseteq Nat \ {0} /\ MaxIdle \in Nat

VARIABLES
  kind,      \* "sid" or "dns"
  cache,     \* names with an answer in m_Sid2NameCache, or a valid PTR record
  black,     \* m_NoResultBlackList
  asking,    \* the questions between the look at the cache and the job
  queue,     \* m_JobQueue: for every name with a job, who is connected to it
  running,   \* m_bRunning
  thread,    \* where the thread is: "off", "top", "work", "done", "finishing"
  idle,      \* IdleCount
  job,       \* pJob, or NoJob between two rounds
  found,     \* whether it has a HostName
  posted,    \* calls of receivers' slots that are queued
  inserts,   \* queued calls of OnSidResolved
  waiting,   \* questions whose receiver was promised a call and got none yet
  missed,    \* a start() that did nothing
  quitting   \* the destructor runs

work  == <<thread, idle, job, found>>
asked == <<cache, black, asking>>
sent  == <<posted, inserts, waiting>>
vars  == <<kind, cache, black, asking, queue, running, thread, idle, job, found,
           posted, inserts, waiting, missed, quitting>>

HasJob == DOMAIN queue
NoJob  == 0

Init ==
  /\ kind \in {"sid", "dns"}
  /\ cache = {} /\ black = {} /\ asking = {}
  /\ queue = [n \in {} |-> {}] /\ running = FALSE
  /\ thread = "off" /\ idle = 0 /\ job = NoJob /\ found = FALSE
  /\ posted = {} /\ inserts = {} /\ waiting = {}
  /\ missed = FALSE /\ quitting = FALSE
-----------------------------------------------------------------------------
\* GetSidFullName and GetHostName.

\* What is in the cache is returned; otherwise the lock is given up.  A
\* receiver asks one question at a time.
Look(r, n) ==
  /\ <<r, n>> \in Questions /\ ~quitting /\ n \notin cache /\ \A m \in Names : <<r, m>> \notin asking
  /\ asking' = asking \cup {<<r, n>>}
  /\ UNCHANGED <<kind, cache, black, queue, running, work, sent, missed, quitting>>

\* A host known to have no name is not asked for again for a while.
Declined(r, n) ==
  /\ <<r, n>> \in asking /\ kind = "dns" /\ n \in black
  /\ asking' = asking \ {<<r, n>>}
  /\ UNCHANGED <<kind, cache, black, queue, running, work, sent, missed, quitting>>

\* The thread is started when the flag says there is none.
Start ==
  \/ running /\ UNCHANGED <<running, work, missed>>
  \/ /\ ~running /\ running' = TRUE /\ thread = "off"
     /\ thread' = "top" /\ idle' = 0
     /\ UNCHANGED <<job, found, missed>>
  \/ /\ ~running /\ running' = TRUE /\ thread # "off"
     /\ missed' = TRUE
     /\ UNCHANGED work

\* (Slip: only who made the job is connected.)
Joined_FirstOnly(r, n) ==
  [m \in HasJob \cup {n} |-> IF m \in HasJob THEN queue[m] ELSE {r}]

Joined(r, n) ==
  [m \in HasJob \cup {n} |->
     (IF m \in HasJob THEN queue[m] ELSE {}) \cup (IF m = n THEN {r} ELSE {})]

\* A job that is there already, even one that is being worked on, gets the
\* receiver connected to it as well.
Ask(r, n) ==
  /\ <<r, n>> \in asking /\ ~(kind = "dns" /\ n \in black)
  /\ asking' = asking \ {<<r, n>>}
  /\ Start
  /\ queue' = Joined(r, n)
  /\ waiting' = waiting \cup {<<r, n>>}
  /\ UNCHANGED <<kind, cache, black, posted, inserts, quitting>>
-----------------------------------------------------------------------------
\* run().

\* The loop's condition; only the destructor makes it false.
Stopped ==
  /\ thread = "top" /\ ~running
  /\ thread' = "finishing"
  /\ UNCHANGED <<kind, asked, queue, running, idle, job, found, sent, missed, quitting>>

\* (Slip: the thread never ends.)
Sleep_Unlimited ==
  /\ thread = "top" /\ running /\ HasJob = {}
  /\ idle' = idle + 1
  /\ UNCHANGED <<kind, asked, queue, running, thread, job, found, sent, missed, quitting>>

Sleep ==
  /\ thread = "top" /\ running /\ HasJob = {} /\ idle <= MaxIdle
  /\ idle' = idle + 1
  /\ UNCHANGED <<kind, asked, queue, running, thread, job, found, sent, missed, quitting>>

\* (Slip: the queue is not looked at under the lock that clears the flag.)
IdleEnd_Unlooked ==
  /\ thread = "top" /\ running /\ idle > MaxIdle
  /\ running' = FALSE
  /\ thread' = "finishing"
  /\ UNCHANGED <<kind, asked, queue, idle, job, found, sent, missed, quitting>>

IdleEnd ==
  /\ thread = "top" /\ running /\ HasJob = {} /\ idle > MaxIdle
  /\ running' = FALSE
  /\ thread' = "finishing"
  /\ UNCHANGED <<kind, asked, queue, idle, job, found, sent, missed, quitting>>

\* The job stays in the map while it is worked on.
Pick ==
  /\ thread = "top" /\ running
  /\ \E n \in HasJob : (\A m \in HasJob : n <= m) /\ job' = n
  /\ idle' = 0 /\ thread' = "work"
  /\ UNCHANGED <<kind, asked, queue, running, found, sent, missed, quitting>>

\* A SID always gets a name, if only a placeholder.  A host's record goes into
\* the cache before anybody is told.
Lookup ==
  /\ thread = "work" /\ thread' = "done"
  /\ found' \in IF kind = "sid" THEN {TRUE} ELSE BOOLEAN
  /\ cache' = IF kind = "dns" /\ found' THEN cache \cup {job} ELSE cache
  /\ UNCHANGED <<kind, black, asking, queue, running, idle, job, sent, missed, quitting>>

\* Whoever waits for a host without a name is told nothing.
Emit ==
  IF found
  THEN /\ posted' = posted \cup (queue[job] \X {job})
       /\ inserts' = IF kind = "sid" THEN inserts \cup {job} ELSE inserts
       /\ UNCHANGED <<black, waiting>>
  ELSE /\ black' = black \cup {job}
       /\ waiting' = waiting \ (queue[job] \X {job})
       /\ UNCHANGED <<posted, inserts>>

\* (Slip: a failed job stays in the map.)
Finish_FailureStays ==
  /\ thread = "done" /\ thread' = "top"
  /\ IF found THEN Emit ELSE UNCHANGED <<black, posted, inserts, waiting>>
  /\ queue' = IF found THEN [n \in HasJob \ {job} |-> queue[n]] ELSE queue
  /\ job' = NoJob /\ found' = FALSE
  /\ UNCHANGED <<kind, cache, asking, running, idle, missed, quitting>>

Finish ==
  /\ thread = "done" /\ thread' = "top"
  /\ Emit
  /\ queue' = [n \in HasJob \ {job} |-> queue[n]]
  /\ job' = NoJob /\ found' = FALSE
  /\ UNCHANGED <<kind, cache, asking, running, idle, missed, quitting>>

\* QThread's own end, after run() has returned.
ThreadEnd ==
  /\ thread = "finishing" /\ thread' = "off"
  /\ UNCHANGED <<kind, asked, queue, running, idle, job, found, sent, missed, quitting>>
-----------------------------------------------------------------------------
\* What the event loops deliver, and what the records lose with time.

Deliver(r, n) ==
  /\ <<r, n>> \in posted
  /\ posted' = posted \ {<<r, n>>} /\ waiting' = waiting \ {<<r, n>>}
  /\ UNCHANGED <<kind, asked, queue, running, work, inserts, missed, quitting>>

OnSidResolved(n) ==
  /\ n \in inserts
  /\ inserts' = inserts \ {n} /\ cache' = cache \cup {n}
  /\ UNCHANGED <<kind, black, asking, queue, running, work, posted, waiting, missed, quitting>>

\* A record's TTL and dead time are over, or FlushDnsCache is called.
Expire(n) ==
  /\ kind = "dns" /\ n \in cache
  /\ cache' = cache \ {n}
  /\ UNCHANGED <<kind, black, asking, queue, running, work, sent, missed, quitting>>

Retry(n) ==
  /\ n \in black
  /\ black' = black \ {n}
  /\ UNCHANGED <<kind, cache, asking, queue, running, work, sent, missed, quitting>>

\* (Slip: the jobs go before the thread is waited for.)
Quit_JobsFirst ==
  /\ ~quitting /\ asking = {}
  /\ quitting' = TRUE /\ running' = FALSE
  /\ queue' = [n \in {} |-> {}]
  /\ UNCHANGED <<kind, asked, work, sent, missed>>

\* The destructor, when nobody asks any more: the flag is cleared and the thread
\* waited for, and killed when it does not come; only then the jobs go.
Quit ==
  /\ ~quitting /\ asking = {}
  /\ quitting' = TRUE /\ running' = FALSE
  /\ UNCHANGED <<kind, asked, queue, work, sent, missed>>

Cleanup ==
  /\ quitting /\ (thread # "off" \/ HasJob # {})
  /\ thread' = "off" /\ queue' = [n \in {} |-> {}]
  /\ job' = NoJob /\ found' = FALSE
  /\ UNCHANGED <<kind, asked, running, idle, sent, missed, quitting>>
-----------------------------------------------------------------------------
Worker == Stopped \/ Sleep \/ IdleEnd \/ Pick \/ Lookup \/ Finish \/ ThreadEnd
Events == \/ \E r \in Receivers, n \in Names : Deliver(r, n)
          \/ \E n \in Names : OnSidResolved(n)
Time   == \E n \in Names : Expire(n) \/ Retry(n)

Next == \/ \E r \in Receivers, n \in Names : Look(r, n) \/ Declined(r, n) \/ Ask(r, n)
        \/ Worker \/ Events \/ Time \/ Quit \/ Cleanup
Spec == Init /\ [][Next]_vars

\* A thread that can run does, lookups come to an end, and event loops deliver.
FairSpec ==
  /\ Spec /\ WF_vars(Worker)
  /\ \A r \in Receivers, n \in Names : WF_vars(Deliver(r, n))
  /\ \A n \in Names : WF_vars(OnSidResolved(n))
-----------------------------------------------------------------------------
\* The maps, flags and counters hold what they are declared for.
TypeOK ==
  /\ kind \in {"sid", "dns"}
  /\ cache \subseteq Names /\ black \subseteq Names /\ asking \subseteq Receivers \X Names
  /\ HasJob \subseteq Names /\ queue \in [HasJob -> SUBSET Receivers]
  /\ running \in BOOLEAN /\ missed \in BOOLEAN /\ quitting \in BOOLEAN
  /\ thread \in {"off", "top", "work", "done", "finishing"}
  /\ idle \in 0..(MaxIdle + 1) /\ job \in Names \cup {NoJob} /\ found \in BOOLEAN
  /\ posted \subseteq Receivers \X Names /\ inserts \subseteq Names
  /\ waiting \subseteq Receivers \X Names

\* Who was promised an answer is connected to a job that will give it, or has
\* the call on its way: nobody who joins a job while it is worked on, or asks
\* again just after it is done, is forgotten.
NoAnswerLost ==
  \A w \in waiting : \/ w[2] \in HasJob /\ w[1] \in queue[w[2]]
                     \/ w \in posted
                     \/ quitting

\* The job the thread works on, by a pointer it kept when it gave up the lock,
\* is still in the map and not deleted.
WorkedJobIsThere == thread \in {"work", "done"} => job \in HasJob

\* A job has a thread that will come to it: the thread's own decision to end
\* and the asker's look at the flag never cross, except where start() itself
\* does nothing.
JobsHaveThread ==
  HasJob # {} /\ ~quitting /\ ~missed => running /\ thread \in {"top", "work", "done"}

\* Whoever was promised an answer gets it, or the host turns out to have no
\* name, unless start() did nothing or records expire without end.
Rested == <>[][\A n \in Names : ~Expire(n) /\ ~Retry(n)]_vars
AnswersCome ==
  Rested => \A w \in Questions : (w \in waiting) ~> (w \notin waiting \/ quitting \/ missed)

\* "If we dont have a valid entry start a lookup job and finisch
\* asynchroniously": a lookup job that was started comes to its end.
LookupsFinish == Rested => \A n \in Names : (n \in HasJob) ~> (n \notin HasJob \/ quitting)
=============================================================================
