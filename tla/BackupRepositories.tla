-------------------------- MODULE BackupRepositories --------------------------
(***************************************************************************)
(* The backup repository controller: one worker that connects a new or     *)
(* suspect repository, recalls the maintenance jobs it knows nothing of,   *)
(* starts a job when one is due, waits for it, and deletes old jobs; the   *)
(* event handler that suspects the repositories of a location that has     *)
(* changed; and Ensurer.EnsureRepo, what the backups and restores of pod   *)
(* volumes call before they use a repository.                              *)
(***************************************************************************)
EXTENDS BackupLocations, SequencesExt

CONSTANTS
    Repos,         \* the repositories: the volume namespaces
    Frequency,     \* the time between maintenances
    MaxJobs,       \* how often maintenance of a repository is tried
    HistoryLimit,  \* maintenanceStatusQueueLength
    KeepJobs,      \* the ended jobs DeleteOldJobs leaves
    NoRepo,
    Callers,       \* the calls of EnsureRepo
    Wants          \* the repository each asks for

ASSUME RepositoriesAssumption ==
    /\ Frequency \in Nat
    /\ MaxJobs \in Nat
    /\ HistoryLimit \in Nat \ {0}
    /\ KeepJobs \in Nat
    /\ NoRepo \notin Repos
    /\ Wants \in [Callers -> Repos]

VARIABLES
    repos,     \* the BackupRepository objects
    prepared,  \* the configuration each was last connected with, or 0
    jobs,      \* the maintenance jobs of each, the oldest first
    tries,     \* how often a job was to be started: it tells starts apart
    worker,    \* what the controller is doing
    calls      \* where each call stands

repoVars == <<repos, prepared, jobs, tries, worker>>

\* A maintenance that is recorded: "started" is its StartTimestamp, "ended" its
\* CompleteTimestamp, which only one that succeeded has.
Status == [started : 1 .. MaxJobs, ended : {0} \cup 1 .. MaxTime + 1,
           result : {"Succeeded", "Failed"}]

Job == [started : 1 .. MaxJobs, ended : {0} \cup 1 .. MaxTime + 1,
        state : {"running", "Succeeded", "Failed"}]

Absent == [phase |-> "Absent", last |-> 0, recent |-> <<>>]

Idle == [at |-> "idle", repo |-> NoRepo, copy |-> Absent, mode |-> "",
         config |-> 0, awaits |-> 0]

\* Times are one more than the clock, so that 0 is no time.
Time == now + 1

RepositoriesTypeOK ==
    /\ \A r \in Repos :
           /\ repos[r].phase \in {"Absent", "New", "Ready", "NotReady"}
           /\ repos[r].last \in 0 .. MaxTime + 1
           /\ Range(repos[r].recent) \subseteq Status
           /\ Len(repos[r].recent) <= HistoryLimit
           /\ Range(jobs[r]) \subseteq Job
    /\ prepared \in [Repos -> 0 .. MaxChanges + 1]
    /\ tries \in [Repos -> 0 .. MaxJobs]
    /\ worker.at \in {"idle", "connect", "connecting", "recall", "recallWait",
                      "due", "wait", "trim"}
    /\ worker.repo \in Repos \cup {NoRepo}
    /\ worker.awaits \in 0 .. MaxJobs

RepositoriesInit ==
    /\ repos = [r \in Repos |-> Absent]
    /\ prepared = [r \in Repos |-> 0]
    /\ jobs = [r \in Repos |-> <<>>]
    /\ tries = [r \in Repos |-> 0]
    /\ worker = Idle

----------------------------------------------------------------------------
(* Records and patches. *)

\* A patch writes the fields in which the mutated copy differs from the copy.
Patched_Everything(object, copy, mutated) == mutated

Patched(object, copy, mutated) ==
    [f \in DOMAIN object |->
        IF mutated[f] # copy[f] THEN mutated[f] ELSE object[f]]

Latest(seq) == SubSeq(seq, IF Len(seq) > HistoryLimit
                           THEN Len(seq) - HistoryLimit + 1 ELSE 1, Len(seq))

UpdateHistory(recent, status) == Latest(Append(recent, status))

StatusOf(job) == [started |-> job.started, ended |-> job.ended,
                  result |-> job.state]

\* One status for each start, the later argument's, sorted by the start.
ConsolidateHistory(coming, recent) ==
    LET starts == {s.started : s \in Range(coming) \cup Range(recent)}
        of(t) == CHOOSE s \in Range(coming) \cup Range(recent) :
                     /\ s.started = t
                     /\ \/ s \in Range(coming)
                        \/ \A c \in Range(coming) : c.started # t
        ordered == SetToSortSeq(starts, LAMBDA a, b : a < b)
    IN  Latest([i \in DOMAIN ordered |-> of(ordered[i])])

LatestEnd(recent) == LET ends == {s.ended : s \in Range(recent)}
                     IN  CHOOSE t \in ends : \A u \in ends : u <= t

Running(r) == {i \in DOMAIN jobs[r] : jobs[r][i].state = "running"}

----------------------------------------------------------------------------
(* The event handler of the location. *)

Suspect(r) ==
    repos[r].phase \in {"New", "Ready", "NotReady"}

InvalidateRepositories ==
    /\ unseen
    /\ unseen' = FALSE
    /\ \E missed \in SUBSET (IF Undisturbed THEN {} ELSE Repos) :
           /\ repos' = [r \in Repos |->
                  IF Suspect(r) /\ r \notin missed
                  THEN [repos[r] EXCEPT !.phase = "NotReady"]
                  ELSE repos[r]]
           /\ Fails(Cardinality(missed))
    /\ UNCHANGED <<now, location, usable, changes, prepared, jobs, tries,
                   worker>>

----------------------------------------------------------------------------
(* The worker. *)

GoTo(at) == worker' = [worker EXCEPT !.at = at]

Stop == worker' = Idle

\* The worker's patch of the object it works on.
Write(mutated) ==
    LET r == worker.repo
        new == Patched(repos[r], worker.copy, mutated)
    IN  repos' = [repos EXCEPT ![r] = new]

\* Reconcile reads the object and the location once, and goes on with what it
\* read.
TakeRepository(r) ==
    /\ worker.at = "idle"
    /\ repos[r].phase # "Absent"
    /\ location.exists
    /\ worker' = [at |-> IF repos[r].phase = "Ready" THEN "recall"
                                                     ELSE "connect",
                  repo |-> r, copy |-> repos[r], mode |-> location.mode,
                  config |-> 0, awaits |-> 0]
    /\ (repos[r].phase = "Ready" => location.mode = "ReadWrite")
    /\ NothingLocal
    /\ UNCHANGED <<mishaps, repos, prepared, jobs, tries>>

\* PrepareRepo reads the location again.
Connect ==
    /\ worker.at = "connect"
    /\ worker' = [worker EXCEPT !.at = "connecting",
                                !.config = IF location.exists
                                           THEN location.config ELSE 0]
    /\ NothingLocal
    /\ UNCHANGED <<mishaps, repos, prepared, jobs, tries>>

\* What PrepareRepo may answer: at a location that has changed since it was
\* read the store may or may not answer, and in a location that is read-only a
\* repository that is not there yet is not created.
Answers == IF worker.config = 0 THEN {FALSE}
           ELSE IF ~location.exists \/ worker.config # location.config
           THEN BOOLEAN
           ELSE IF location.mode = "ReadOnly" /\ prepared[worker.repo] = 0
           THEN {FALSE, usable} ELSE {usable}

\* A new repository is Ready, and its first maintenance is counted from now; a
\* repository that was suspected goes on to be maintained.
Connected ==
    /\ worker.at = "connecting"
    /\ TRUE \in Answers
    /\ LET copy == worker.copy
           new == copy.phase = "New"
           mutated == [copy EXCEPT !.phase = "Ready",
                                   !.last = IF new THEN Time ELSE @]
       IN  /\ prepared' = [prepared EXCEPT ![worker.repo] = worker.config]
           /\ \/ /\ Write(mutated)
                 /\ Fails(0)
                 /\ IF new \/ worker.mode = "ReadOnly" THEN Stop
                    ELSE worker' = [worker EXCEPT !.at = "recall",
                                                  !.copy = repos'[worker.repo]]
              \/ /\ Fails(1)
                 /\ Stop
                 /\ UNCHANGED repos
    /\ NothingLocal
    /\ UNCHANGED <<jobs, tries>>

NotConnected ==
    /\ worker.at = "connecting"
    /\ FALSE \in Answers
    /\ \/ /\ Write([worker.copy EXCEPT !.phase = "NotReady"])
          /\ Fails(0)
       \/ /\ Fails(1)
          /\ UNCHANGED repos
    /\ Stop
    /\ NothingLocal
    /\ UNCHANGED <<prepared, jobs, tries>>

\* The jobs recallMaintenance looks at, which it waits for one by one.
Recalled == Latest(jobs[worker.repo])

Unfinished_NotAwaited == {}

Unfinished == {j \in Range(Recalled) : j.state = "running"}

\* A job is waited for by its name: one that is deleted is waited for for ever.
AwaitUnfinished ==
    /\ worker.at = "recall"
    /\ \E j \in Unfinished :
           worker' = [worker EXCEPT !.at = "recallWait", !.awaits = j.started]
    /\ NothingLocal
    /\ UNCHANGED <<mishaps, repos, prepared, jobs, tries>>

Awaited == {j \in Range(jobs[worker.repo]) : /\ j.started = worker.awaits
                                            /\ j.state # "running"}

UnfinishedEnded ==
    /\ worker.at = "recallWait"
    /\ Awaited # {}
    /\ GoTo("recall")
    /\ NothingLocal
    /\ UNCHANGED <<mishaps, repos, prepared, jobs, tries>>

Recall ==
    /\ worker.at = "recall"
    /\ Unfinished = {}
    /\ LET copy == worker.copy
           coming == [i \in DOMAIN Recalled |-> StatusOf(Recalled[i])]
           merged == ConsolidateHistory(coming, copy.recent)
           known == \/ coming = <<>>
                    \/ [i \in DOMAIN coming |-> coming[i].started]
                         = [i \in DOMAIN copy.recent |-> copy.recent[i].started]
                    \/ [i \in DOMAIN merged |-> merged[i].started]
                         = [i \in DOMAIN copy.recent |-> copy.recent[i].started]
           recalled == [copy EXCEPT !.recent = merged,
                                    !.last = IF LatestEnd(merged) > @
                                             THEN LatestEnd(merged) ELSE @]
       IN  IF known
           THEN /\ GoTo("due")
                /\ UNCHANGED <<repos, mishaps>>
           ELSE \E written \in BOOLEAN :
                    /\ Fails(IF written THEN 0 ELSE 1)
                    /\ IF written THEN Write(recalled) ELSE UNCHANGED repos
                    /\ worker' = IF written
                                 THEN [worker EXCEPT
                                           !.at = "due",
                                           !.copy = repos'[worker.repo]]
                                 ELSE Idle
    /\ NothingLocal
    /\ UNCHANGED <<prepared, jobs, tries>>

Due == worker.copy.last = 0 \/ worker.copy.last + Frequency < Time

NotDue ==
    /\ worker.at = "due"
    /\ ~Due
    /\ GoTo("trim")
    /\ NothingLocal
    /\ UNCHANGED <<mishaps, repos, prepared, jobs, tries>>

\* The location is read once more, but not its mode.
StartJob ==
    LET r == worker.repo
    IN  /\ worker.at = "due"
        /\ Due
        /\ tries[r] < MaxJobs
        /\ location.exists
        /\ tries' = [tries EXCEPT ![r] = @ + 1]
        /\ jobs' = [jobs EXCEPT ![r] = Append(@, [started |-> tries[r] + 1,
                                                  ended |-> 0,
                                                  state |-> "running"])]
        /\ worker' = [worker EXCEPT !.at = "wait", !.awaits = tries'[r]]
        /\ NothingLocal
        /\ UNCHANGED <<mishaps, repos, prepared>>

\* A failure to start is recorded like that of a job.
StartFails ==
    LET r == worker.repo
        status == [started |-> tries[r] + 1, ended |-> 0, result |-> "Failed"]
    IN  /\ worker.at = "due"
        /\ Due
        /\ tries[r] < MaxJobs
        /\ tries' = [tries EXCEPT ![r] = @ + 1]
        /\ \/ /\ Write([worker.copy EXCEPT !.recent = UpdateHistory(@, status)])
              /\ GoTo("trim")
              /\ Fails(IF location.exists THEN 1 ELSE 0)
           \/ /\ Stop
              /\ Fails(IF location.exists THEN 2 ELSE 1)
              /\ UNCHANGED repos
        /\ NothingLocal
        /\ UNCHANGED <<prepared, jobs>>

\* WaitJobComplete returns when the job has succeeded or failed.  A job that is
\* no longer there is waited for.
JobEnded ==
    /\ worker.at = "wait"
    /\ \E job \in Awaited :
           \/ /\ Write([worker.copy EXCEPT
                           !.recent = UpdateHistory(@, StatusOf(job)),
                           !.last = IF job.state = "Succeeded" THEN job.ended
                                    ELSE @])
              /\ GoTo("trim")
              /\ Fails(0)
           \/ /\ Stop
              /\ Fails(1)
              /\ UNCHANGED repos
    /\ NothingLocal
    /\ UNCHANGED <<prepared, jobs, tries>>

\* The job cannot be read: its result is left for the next recall.
WaitFails ==
    /\ worker.at \in {"wait", "recallWait"}
    /\ Fails(1)
    /\ Stop
    /\ NothingLocal
    /\ UNCHANGED <<repos, prepared, jobs, tries>>

\* DeleteOldJobs stops at the first deletion that fails.
Trim ==
    LET r == worker.repo
        extra == IF Len(jobs[r]) > KeepJobs THEN Len(jobs[r]) - KeepJobs ELSE 0
    IN  /\ worker.at = "trim"
        /\ \E n \in 0 .. extra :
               /\ jobs' = [jobs EXCEPT ![r] = SubSeq(@, n + 1, Len(@))]
               /\ Fails(IF n < extra THEN 1 ELSE 0)
        /\ Stop
        /\ NothingLocal
        /\ UNCHANGED <<repos, prepared, tries>>

WorkerStep ==
    \/ \E r \in Repos : TakeRepository(r)
    \/ Connect \/ Connected \/ NotConnected
    \/ AwaitUnfinished \/ UnfinishedEnded \/ Recall
    \/ NotDue \/ StartJob \/ StartFails \/ JobEnded \/ WaitFails \/ Trim

----------------------------------------------------------------------------
(* The jobs. *)

JobEnds(r) ==
    \E i \in Running(r), s \in {"Succeeded", "Failed"} :
        /\ jobs' = [jobs EXCEPT ![r][i].state = s,
                                ![r][i].ended = IF s = "Succeeded" THEN Time
                                                ELSE 0]
        /\ UNCHANGED <<locationVars, repos, prepared, tries, worker>>

\* Someone deletes a job that runs: the worker, if it waits for the job, goes on
\* waiting until the server restarts.
JobVanishes(r) ==
    /\ \E i \in Running(r) :
           jobs' = [jobs EXCEPT ![r] = RemoveAt(@, i)]
    /\ Fails(1)
    /\ NothingLocal
    /\ UNCHANGED <<repos, prepared, tries, worker>>

JobStep == \E r \in Repos : JobEnds(r) \/ JobVanishes(r)

----------------------------------------------------------------------------
(* EnsureRepo takes the repository's lock, creates the object if there is  *)
(* none, and polls until it is Ready, until it is NotReady, or for         *)
(* resourceTimeout, holding the lock.                                      *)

ensurerVars == <<locationVars, repoVars>>

Holding == {"looking", "polling"}

EnsurerTypeOK ==
    calls \in [Callers -> {"before", "locking", "looking", "polling", "done",
                           "failed"}]

EnsurerInit == calls = [c \in Callers |-> "before"]

Ensure(c) ==
    /\ calls[c] = "before"
    /\ calls' = [calls EXCEPT ![c] = "locking"]
    /\ UNCHANGED ensurerVars

\* One mutex for each repository; nothing limits the wait for it.
LockFree(r) == \A c \in Callers : calls[c] \in Holding => Wants[c] # r

Lock(c) ==
    /\ calls[c] = "locking"
    /\ LockFree(Wants[c])
    /\ calls' = [calls EXCEPT ![c] = "looking"]
    /\ UNCHANGED ensurerVars

\* An object that exists by now is as good as one created.
CreateRepository(c) ==
    LET r == Wants[c]
    IN  /\ calls[c] = "looking"
        /\ \/ /\ calls' = [calls EXCEPT ![c] = "polling"]
              /\ repos' = [repos EXCEPT ![r].phase =
                               IF @ = "Absent" THEN "New" ELSE @]
              /\ Fails(0)
           \/ /\ calls' = [calls EXCEPT ![c] = "failed"]
              /\ Fails(1)
              /\ UNCHANGED repos
        /\ NothingLocal
        /\ UNCHANGED <<prepared, jobs, tries, worker>>

Poll(c) ==
    /\ calls[c] = "polling"
    /\ repos[Wants[c]].phase \in {"Ready", "NotReady"}
    /\ calls' = [calls EXCEPT ![c] = IF repos[Wants[c]].phase = "Ready"
                                     THEN "done" ELSE "failed"]
    /\ UNCHANGED ensurerVars

PollTimesOut(c) ==
    /\ calls[c] = "polling"
    /\ calls' = [calls EXCEPT ![c] = "failed"]
    /\ UNCHANGED ensurerVars

EnsurerStep(c) ==
    Ensure(c) \/ Lock(c) \/ CreateRepository(c) \/ Poll(c) \/ PollTimesOut(c)
=============================================================================
