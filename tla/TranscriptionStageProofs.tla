------------------------ MODULE TranscriptionStageProofs ------------------------
(***************************************************************************)
(* Proofs about TranscriptionStage, for any number of runs, any audio,     *)
(* settings and faults and any bounds on attempts and polls: what a call   *)
(* has uploaded, created, sent and been answered by the step it is at, and *)
(* what the stage makes of it.                                             *)
(***************************************************************************)
EXTENDS TranscriptionStage, FiniteSetTheorems, TLAPS

Steps == Requests \union {"cache", "store"}

State == [pc : Steps \union Ended \union {"off"}, attempt : 1..MaxAttempts, polls : 0..MaxPolls,
          upload : Audio \union {None}, job : Nat, sent : Nat]

Job == [audio : Audio \union {None}, state : {"queued", "completed", "error"}]

TypeOK ==
  /\ adapters \in Settings
  /\ call \in [Calls -> State]
  /\ cache \in [hash : Audio \union {None}, upload : Audio \union {None}]
  /\ jobs \in [Calls -> Seq(Job)]
  /\ stage \in [Runs -> {"open", "staged", "failed"}]
  /\ staged \in [Runs -> SUBSET (Services \X Services)]
  /\ facts \in [Runs -> Seq([service : Services, ok : BOOLEAN])]
  /\ faults \in 0..MaxFaults

\* The steps of each service.
OwnStep(c) ==
  \/ At(c, "off") \/ call[c].pc \in Ended
  \/ c[2] = "assemblyai" /\ call[c].pc \in {"cache", "upload", "store", "create", "poll"}
  \/ c[2] = "speechmatics" /\ call[c].pc \in {"create", "poll", "fetch"}
  \/ c[2] = "deepgram" /\ At(c, "listen")

\* What is about to be submitted to AssemblyAI is the call's own audio.
OwnUpload(c) == c[2] = "assemblyai" /\ call[c].pc \in {"store", "create"}
                  => call[c].upload = AudioFor(c)

\* A call creates a job with every attempt at most, follows the last one it created,
\* and fetches or takes a transcript only of a job that is finished.
OwnJobs(c) ==
  /\ \A i \in DOMAIN jobs[c] : jobs[c][i].audio = AudioFor(c)
  /\ call[c].pc \in {"off", "cache", "upload", "store", "listen"} => Len(jobs[c]) = 0
  /\ At(c, "create") => Len(jobs[c]) < call[c].attempt
  /\ Len(jobs[c]) <= MaxAttempts
  /\ call[c].pc \in {"poll", "fetch"} \/ (At(c, "done") /\ c[2] # "deepgram")
       => call[c].job = Len(jobs[c]) /\ call[c].job # 0
  /\ At(c, "fetch") \/ (At(c, "done") /\ c[2] # "deepgram")
       => jobs[c][call[c].job].state = "completed"

\* Requests that so many rounds of polling, or so many polls with retries, may take.
Rounds(n) == n * MaxPolls
Polled(n) == n * MaxAttempts

\* What a call has sent by the step it is at: AssemblyAI retries every poll on its
\* own, Speechmatics starts the whole polling over.
Budget(c) ==
  LET sent == call[c].sent
      attempt == call[c].attempt
      polls == call[c].polls
      uploads == IF c[2] = "assemblyai" THEN MaxAttempts ELSE 0
  IN
  /\ call[c].pc \in {"off", "cache"} => sent = 0
  /\ call[c].pc \in {"upload", "listen"} => sent < attempt
  /\ call[c].pc \in {"cache", "upload", "store", "create"} => polls = 0
  /\ At(c, "store") => sent <= MaxAttempts
  /\ At(c, "create") => sent < uploads + attempt
  /\ At(c, "poll") => polls < MaxPolls
  /\ At(c, "poll") /\ c[2] = "assemblyai" => sent < 2 * MaxAttempts + Polled(polls) + attempt
  /\ At(c, "poll") /\ c[2] = "speechmatics"
       => sent <= MaxAttempts + Rounds(attempt - 1) + polls
  /\ At(c, "fetch") => sent < MaxAttempts + Rounds(MaxAttempts) + attempt
  /\ call[c].pc \in Ended =>
       sent <= IF c[2] = "deepgram" THEN MaxAttempts ELSE 2 * MaxAttempts + Rounds(MaxAttempts)

CallInv(c) == OwnStep(c) /\ OwnUpload(c) /\ OwnJobs(c) /\ Budget(c)

IInv ==
  /\ TypeOK
  /\ cache.hash = cache.upload
  /\ \A c \in Calls : CallInv(c)
-----------------------------------------------------------------------------
\* The arithmetic of the budget.
LEMMA Times ==
  ASSUME NEW m \in Nat, NEW a \in Nat, NEW b \in Nat
  PROVE  /\ a * m \in Nat
         /\ (a + 1) * m = a * m + m
         /\ a <= b => a * m <= b * m
<1>1. a * m \in Nat /\ (a + 1) * m = a * m + m
  OBVIOUS
<1>2. ASSUME a <= b PROVE a * m <= b * m
  <2>1. b - a \in Nat /\ b = a + (b - a)
    BY <1>2
  <2>2. \A d \in Nat : (a + d) * m = a * m + d * m /\ d * m \in Nat /\ a * m \in Nat
    OBVIOUS
  <2>3. b * m = a * m + (b - a) * m /\ (b - a) * m \in Nat /\ a * m \in Nat
    BY <2>1, <2>2
  <2> QED BY <2>3
<1> QED BY <1>1, <1>2

LEMMA Products ==
  /\ \A n \in Nat : Rounds(n) \in Nat /\ Rounds(n + 1) = Rounds(n) + MaxPolls
  /\ \A n \in Nat : Polled(n) \in Nat /\ Polled(n + 1) = Polled(n) + MaxAttempts
  /\ \A n, k \in Nat : n <= k => Rounds(n) <= Rounds(k) /\ Polled(n) <= Polled(k)
  /\ Polled(MaxPolls) = Rounds(MaxAttempts)
  /\ Rounds(0) = 0 /\ Polled(0) = 0
<1>1. MaxAttempts \in Nat /\ MaxPolls \in Nat
  BY StageAssumption
<1>2. /\ \A n \in Nat : Rounds(n) \in Nat /\ Rounds(n + 1) = Rounds(n) + MaxPolls
      /\ \A n \in Nat : Polled(n) \in Nat /\ Polled(n + 1) = Polled(n) + MaxAttempts
      /\ \A n, k \in Nat : n <= k => Rounds(n) <= Rounds(k) /\ Polled(n) <= Polled(k)
  BY <1>1, Times DEF Rounds, Polled
<1>3. /\ Polled(MaxPolls) = Rounds(MaxAttempts)
      /\ Rounds(0) = 0 /\ Polled(0) = 0
  BY <1>1 DEF Rounds, Polled
<1> QED BY <1>2, <1>3

\* The constants, and the parts of a call.
LEMMA Constants ==
  /\ MaxAttempts \in Nat \ {0} /\ MaxPolls \in Nat \ {0} /\ MaxFaults \in Nat
  /\ None \notin Audio
  /\ \A c \in Calls : c[1] \in Runs /\ c[2] \in Services /\ c = <<c[1], c[2]>>
  /\ \A c \in Calls : AudioFor(c) \in Audio
BY StageAssumption DEF Calls, AudioFor, Audio

LEMMA InitInv == Init => IInv
<1> SUFFICES ASSUME Init PROVE IInv
  OBVIOUS
<1>1. \A c \in Calls : First(c) \in {"off", "cache", "create", "listen"}
  BY Constants DEF First, Services
<1>2. call = [c \in Calls |-> [pc |-> First(c), attempt |-> 1, polls |-> 0, upload |-> None,
                               job |-> 0, sent |-> 0]]
  BY DEF Init
<1>3. \A c \in Calls : call[c] = [pc |-> First(c), attempt |-> 1, polls |-> 0, upload |-> None,
                                  job |-> 0, sent |-> 0]
  BY <1>2
<1>4. TypeOK
  <2>1. call \in [Calls -> State]
    BY <1>1, <1>2, Constants DEF State, Steps, Requests
  <2>2. jobs \in [Calls -> Seq(Job)]
    BY DEF Init
  <2> QED BY <2>1, <2>2, Constants DEF Init, TypeOK
<1>5. ASSUME NEW c \in Calls PROVE CallInv(c)
  <2>1. /\ call[c].pc = First(c) /\ call[c].attempt = 1 /\ call[c].polls = 0
        /\ call[c].sent = 0 /\ jobs[c] = <<>>
    BY <1>3 DEF Init
  <2>2. OwnStep(c)
    BY <2>1, Constants DEF OwnStep, At, First, Services
  <2>3. OwnUpload(c)
    BY <2>1 DEF OwnUpload, First
  <2>4. OwnJobs(c)
    BY <2>1, <1>1, Constants DEF OwnJobs, At
  <2>5. Budget(c)
    BY <2>1, <1>1, Constants DEF Budget, At, Ended
  <2> QED BY <2>2, <2>3, <2>4, <2>5 DEF CallInv
<1> QED BY <1>4, <1>5 DEF IInv, Init

\* A step of call c, and of nobody else.
LEMMA CallMoves ==
  ASSUME IInv, NEW c \in Calls,
         \A d \in Calls \ {c} : call'[d] = call[d] /\ jobs'[d] = jobs[d],
         CallInv(c)'
  PROVE  \A d \in Calls : CallInv(d)'
<1> SUFFICES ASSUME NEW d \in Calls, d # c PROVE CallInv(d)'
  OBVIOUS
<1>1. call'[d] = call[d] /\ jobs'[d] = jobs[d] /\ CallInv(d)
  BY DEF IInv
<1> QED BY <1>1 DEF CallInv, OwnStep, OwnUpload, OwnJobs, Budget, At

\* Types of a step that changes only the call.
LEMMA CallTypes ==
  ASSUME IInv, NEW c \in Calls, NEW k \in State, call' = [call EXCEPT ![c] = k],
         UNCHANGED <<adapters, cache, jobs, stage, staged, facts, faults>>
  PROVE  /\ TypeOK' /\ call'[c] = k
         /\ \A d \in Calls \ {c} : call'[d] = call[d] /\ jobs'[d] = jobs[d]
BY DEF IInv, TypeOK

\* The parts of a call that a step changes, and those it keeps.
LEMMA Advanced ==
  ASSUME NEW c, call[c] \in State, NEW step \in Steps \union Ended
  PROVE  LET k == Advance(c, step) IN
         /\ k \in State /\ k.pc = step /\ k.attempt = 1 /\ k.polls = call[c].polls
         /\ k.upload = call[c].upload /\ k.job = call[c].job /\ k.sent = call[c].sent
<1>1. 1 \in 1..MaxAttempts
  BY Constants
<1> QED BY <1>1 DEF State, Advance

LEMMA WithUpload ==
  ASSUME NEW x \in State, NEW upload \in Audio \union {None}
  PROVE  LET k == [x EXCEPT !.upload = upload] IN
         /\ k \in State /\ k.pc = x.pc /\ k.attempt = x.attempt /\ k.polls = x.polls
         /\ k.upload = upload /\ k.job = x.job /\ k.sent = x.sent
BY DEF State

LEMMA WithJob ==
  ASSUME NEW x \in State, NEW job \in Nat
  PROVE  LET k == [x EXCEPT !.job = job] IN
         /\ k \in State /\ k.pc = x.pc /\ k.attempt = x.attempt /\ k.polls = x.polls
         /\ k.upload = x.upload /\ k.job = job /\ k.sent = x.sent
BY DEF State

LEMMA WithPc ==
  ASSUME NEW x \in State, NEW pc \in Steps \union Ended
  PROVE  LET k == [x EXCEPT !.pc = pc] IN
         /\ k \in State /\ k.pc = pc /\ k.attempt = x.attempt /\ k.polls = x.polls
         /\ k.upload = x.upload /\ k.job = x.job /\ k.sent = x.sent
BY DEF State

LEMMA Sent ==
  ASSUME NEW x \in State
  PROVE  LET k == Sending(x) IN
         /\ k \in State /\ k.pc = x.pc /\ k.attempt = x.attempt /\ k.polls = x.polls
         /\ k.upload = x.upload /\ k.job = x.job /\ k.sent = x.sent + 1
BY DEF State, Sending

\* The first steps of an AssemblyAI call: cache, upload, cache again.
LEMMA ReadCacheInv ==
  ASSUME IInv, NEW c \in Calls, ReadCache(c)
  PROVE  IInv'
<1> DEFINE k == IF cache.hash = AudioFor(c)
                THEN [Advance(c, "create") EXCEPT !.upload = cache.upload]
                ELSE Advance(c, "upload")
<1>1. /\ call' = [call EXCEPT ![c] = k] /\ call[c].pc = "cache"
      /\ UNCHANGED <<adapters, cache, jobs, stage, staged, facts, faults>>
  BY DEF ReadCache, At
<1>2. /\ call[c] \in State /\ CallInv(c) /\ cache.hash = cache.upload
      /\ cache.upload \in Audio \union {None}
  BY DEF IInv, TypeOK
<1>3. /\ k \in State /\ k.pc = IF cache.hash = AudioFor(c) THEN "create" ELSE "upload"
      /\ k.attempt = 1 /\ k.polls = call[c].polls /\ k.sent = call[c].sent
      /\ cache.hash = AudioFor(c) => k.upload = AudioFor(c)
  <2>1. /\ Advance(c, "create") \in State /\ Advance(c, "create").pc = "create"
        /\ Advance(c, "create").attempt = 1 /\ Advance(c, "create").polls = call[c].polls
        /\ Advance(c, "create").sent = call[c].sent
    BY <1>2, Advanced DEF Steps, Requests
  <2>2. CASE cache.hash = AudioFor(c)
    BY <1>2, <2>1, <2>2, WithUpload
  <2>3. CASE cache.hash # AudioFor(c)
    BY <1>2, <2>3, Advanced DEF Steps, Requests
  <2> QED BY <2>2, <2>3
<1> HIDE DEF k
<1>4. /\ TypeOK' /\ call'[c] = k
      /\ \A d \in Calls \ {c} : call'[d] = call[d] /\ jobs'[d] = jobs[d]
  BY <1>1, <1>3, CallTypes
<1>5. c[2] = "assemblyai" /\ call[c].sent = 0 /\ call[c].polls = 0 /\ Len(jobs[c]) = 0
  BY <1>1, <1>2 DEF CallInv, OwnStep, OwnJobs, Budget, At, Ended
<1>6. OwnStep(c)' /\ OwnUpload(c)'
  BY <1>3, <1>4, <1>5 DEF OwnStep, OwnUpload, At, AudioFor
<1>7. OwnJobs(c)'
  BY <1>1, <1>2, <1>3, <1>4, <1>5, Constants DEF CallInv, OwnJobs, At, AudioFor
<1>8. Budget(c)'
  BY <1>3, <1>4, <1>5, Constants DEF Budget, At, Ended
<1>9. \A d \in Calls : CallInv(d)'
  BY <1>4, <1>6, <1>7, <1>8, CallMoves DEF CallInv
<1> QED BY <1>1, <1>2, <1>4, <1>9 DEF IInv

LEMMA UploadInv ==
  ASSUME IInv, NEW c \in Calls, Upload(c)
  PROVE  IInv'
<1> DEFINE k == Sending([Advance(c, "store") EXCEPT !.upload = AudioFor(c)])
<1>1. /\ call' = [call EXCEPT ![c] = k] /\ call[c].pc = "upload"
      /\ UNCHANGED <<adapters, cache, jobs, stage, staged, facts, faults>>
  BY DEF Upload, At
<1>2. /\ call[c] \in State /\ CallInv(c)
  BY DEF IInv, TypeOK
<1>3. /\ k \in State /\ k.pc = "store"
      /\ k.attempt = 1 /\ k.sent = call[c].sent + 1 /\ k.upload = AudioFor(c)
      /\ k.polls = call[c].polls
  <2>1. /\ Advance(c, "store") \in State /\ Advance(c, "store").pc = "store"
        /\ Advance(c, "store").attempt = 1 /\ Advance(c, "store").polls = call[c].polls
        /\ Advance(c, "store").sent = call[c].sent
    BY <1>2, Advanced DEF Steps
  <2> DEFINE x == [Advance(c, "store") EXCEPT !.upload = AudioFor(c)]
  <2>2. /\ x \in State /\ x.pc = "store" /\ x.attempt = 1 /\ x.polls = call[c].polls
        /\ x.sent = call[c].sent /\ x.upload = AudioFor(c)
    BY <2>1, Constants, WithUpload
  <2> HIDE DEF x
  <2> QED BY <2>2, Sent DEF x
<1> HIDE DEF k
<1>4. /\ TypeOK' /\ call'[c] = k
      /\ \A d \in Calls \ {c} : call'[d] = call[d] /\ jobs'[d] = jobs[d]
  BY <1>1, <1>3, CallTypes
<1>5. c[2] = "assemblyai" /\ call[c].sent < call[c].attempt /\ call[c].polls = 0
      /\ Len(jobs[c]) = 0
  BY <1>1, <1>2 DEF CallInv, OwnStep, OwnJobs, Budget, At, Ended
<1>6. OwnStep(c)' /\ OwnUpload(c)'
  BY <1>3, <1>4, <1>5 DEF OwnStep, OwnUpload, At, AudioFor
<1>7. OwnJobs(c)'
  BY <1>1, <1>2, <1>3, <1>4, <1>5, Constants DEF CallInv, OwnJobs, At, AudioFor
<1>8. Budget(c)'
  BY <1>2, <1>3, <1>4, <1>5, Constants DEF Budget, At, Ended, State
<1>9. \A d \in Calls : CallInv(d)'
  BY <1>4, <1>6, <1>7, <1>8, CallMoves DEF CallInv
<1> QED BY <1>1, <1>4, <1>9 DEF IInv

LEMMA StoreCacheInv ==
  ASSUME IInv, NEW c \in Calls, StoreCache(c)
  PROVE  IInv'
<1> DEFINE k == Advance(c, "create")
<1>1. /\ call' = [call EXCEPT ![c] = k] /\ call[c].pc = "store"
      /\ cache' = [hash |-> AudioFor(c), upload |-> call[c].upload]
      /\ UNCHANGED <<adapters, jobs, stage, staged, facts, faults>>
  BY DEF StoreCache, At
<1>2. /\ call[c] \in State /\ CallInv(c) /\ call \in [Calls -> State]
  BY DEF IInv, TypeOK
<1>3. /\ k \in State /\ k.pc = "create"
      /\ k.attempt = 1 /\ k.sent = call[c].sent /\ k.upload = call[c].upload
      /\ k.polls = call[c].polls
  BY <1>2, Advanced DEF Steps, Requests
<1> HIDE DEF k
<1>4. /\ call'[c] = k /\ call' \in [Calls -> State]
      /\ \A d \in Calls \ {c} : call'[d] = call[d] /\ jobs'[d] = jobs[d]
  BY <1>1, <1>2, <1>3
<1>5. /\ c[2] = "assemblyai" /\ call[c].sent <= MaxAttempts /\ call[c].polls = 0
      /\ Len(jobs[c]) = 0
      /\ call[c].upload = AudioFor(c)
  BY <1>1, <1>2 DEF CallInv, OwnStep, OwnUpload, OwnJobs, Budget, At, Ended
<1>6. OwnStep(c)' /\ OwnUpload(c)'
  BY <1>3, <1>4, <1>5 DEF OwnStep, OwnUpload, At, AudioFor
<1>7. OwnJobs(c)'
  BY <1>1, <1>2, <1>3, <1>4, <1>5, Constants DEF CallInv, OwnJobs, At, AudioFor
<1>8. Budget(c)'
  BY <1>2, <1>3, <1>4, <1>5, Constants DEF Budget, At, Ended, State
<1>9. \A d \in Calls : CallInv(d)'
  BY <1>4, <1>6, <1>7, <1>8, CallMoves DEF CallInv
<1>10. TypeOK'
  <2>1. AudioFor(c) \in Audio
    BY Constants
  <2>2. cache' \in [hash : Audio \union {None}, upload : Audio \union {None}]
    BY <1>1, <1>5, <2>1
  <2> QED BY <1>1, <1>4, <2>2 DEF IInv, TypeOK
<1>11. cache'.hash = cache'.upload
  BY <1>1, <1>5
<1> QED BY <1>9, <1>10, <1>11 DEF IInv

\* The service creates a job, about the call's own audio.
LEMMA NewJobFacts ==
  ASSUME IInv, NEW c \in Calls, At(c, "create")
  PROVE  /\ NewJob(c) \in Seq(Job) /\ Len(NewJob(c)) = Len(jobs[c]) + 1
         /\ \A i \in DOMAIN NewJob(c) : NewJob(c)[i].audio = AudioFor(c)
<1>1. /\ jobs[c] \in Seq(Job) /\ CallInv(c)
  BY DEF IInv, TypeOK
<1>2. Submitted(c) = AudioFor(c)
  BY <1>1 DEF CallInv, OwnUpload, Submitted, At
<1> DEFINE job == [audio |-> AudioFor(c), state |-> "queued"]
<1>3. job \in Job /\ NewJob(c) = Append(jobs[c], job)
  BY <1>2, Constants DEF Job, NewJob
<1>4. job.audio = AudioFor(c)
  OBVIOUS
<1> HIDE DEF job
<1>5. \A i \in DOMAIN jobs[c] : jobs[c][i].audio = AudioFor(c)
  BY <1>1 DEF CallInv, OwnJobs
<1> QED BY <1>1, <1>3, <1>4, <1>5

LEMMA CreateInv ==
  ASSUME IInv, NEW c \in Calls, Create(c)
  PROVE  IInv'
<1> DEFINE k == Sending([Advance(c, "poll") EXCEPT !.job = Len(NewJob(c))])
<1>1. /\ call' = [call EXCEPT ![c] = k] /\ call[c].pc = "create"
      /\ jobs' = [jobs EXCEPT ![c] = NewJob(c)]
      /\ UNCHANGED <<adapters, cache, stage, staged, facts, faults>>
  BY DEF Create, At
<1>2. /\ call[c] \in State /\ CallInv(c) /\ call \in [Calls -> State]
      /\ jobs \in [Calls -> Seq(Job)]
  BY DEF IInv, TypeOK
<1>0. /\ NewJob(c) \in Seq(Job) /\ Len(NewJob(c)) = Len(jobs[c]) + 1
      /\ \A i \in DOMAIN NewJob(c) : NewJob(c)[i].audio = AudioFor(c)
  BY <1>1, NewJobFacts DEF At
<1>3. /\ k \in State /\ k.pc = "poll" /\ k.job = Len(NewJob(c))
      /\ k.attempt = 1 /\ k.sent = call[c].sent + 1 /\ k.polls = call[c].polls
  <2>1. /\ Advance(c, "poll") \in State /\ Advance(c, "poll").pc = "poll"
        /\ Advance(c, "poll").attempt = 1 /\ Advance(c, "poll").polls = call[c].polls
        /\ Advance(c, "poll").sent = call[c].sent
    BY <1>2, Advanced DEF Steps, Requests
  <2> DEFINE x == [Advance(c, "poll") EXCEPT !.job = Len(NewJob(c))]
  <2>2. Len(NewJob(c)) \in Nat
    BY <1>0
  <2>3. /\ x \in State /\ x.pc = "poll" /\ x.attempt = 1 /\ x.polls = call[c].polls
        /\ x.sent = call[c].sent /\ x.job = Len(NewJob(c))
    BY <2>1, <2>2, WithJob
  <2> HIDE DEF x
  <2> QED BY <2>3, Sent DEF x
<1> HIDE DEF k
<1>4. /\ call'[c] = k /\ call' \in [Calls -> State] /\ jobs'[c] = NewJob(c)
      /\ jobs' \in [Calls -> Seq(Job)]
      /\ \A d \in Calls \ {c} : call'[d] = call[d] /\ jobs'[d] = jobs[d]
  BY <1>0, <1>1, <1>2, <1>3
<1>5. /\ c[2] \in {"assemblyai", "speechmatics"} /\ Len(jobs[c]) < call[c].attempt
      /\ call[c].sent < (IF c[2] = "assemblyai" THEN MaxAttempts ELSE 0) + call[c].attempt
      /\ call[c].polls = 0
  BY <1>1, <1>2 DEF CallInv, OwnStep, OwnJobs, Budget, At, Ended
<1>6. OwnStep(c)' /\ OwnUpload(c)'
  BY <1>3, <1>4, <1>5 DEF OwnStep, OwnUpload, At, AudioFor
<1>7. OwnJobs(c)'
  <2>1. /\ jobs[c] \in Seq(Job) /\ Len(jobs[c]) \in Nat /\ call[c].attempt \in 1..MaxAttempts
    BY <1>2 DEF State
  <2> QED BY <1>0, <1>3, <1>4, <1>5, <2>1, Constants DEF OwnJobs, At, AudioFor
<1>8. Budget(c)'
  <2>1. /\ Rounds(0) = 0 /\ Polled(0) = 0
    BY Products
  <2>2. call[c].sent \in Nat /\ call[c].attempt \in 1..MaxAttempts
    BY <1>2 DEF State
  <2>3. /\ Rounds(k.attempt - 1) = 0 /\ Polled(k.polls) = 0 /\ k.polls = 0
    BY <1>3, <1>5, <2>1
  <2>4. /\ c[2] = "assemblyai" => k.sent < 2 * MaxAttempts + Polled(k.polls) + k.attempt
        /\ c[2] = "speechmatics" => k.sent <= MaxAttempts + Rounds(k.attempt - 1) + k.polls
        /\ k.polls < MaxPolls
    BY <1>3, <1>5, <2>2, <2>3, Constants
  <2> QED BY <1>3, <1>4, <2>4 DEF Budget, At, Ended
<1>9. \A d \in Calls : CallInv(d)'
  BY <1>4, <1>6, <1>7, <1>8, CallMoves DEF CallInv
<1>10. TypeOK'
  BY <1>1, <1>4 DEF IInv, TypeOK
<1> QED BY <1>1, <1>9, <1>10 DEF IInv

\* A request that a call at work still makes is within the budget, whatever comes of it.
LEMMA Affordable ==
  ASSUME IInv, NEW c \in Calls, call[c].pc \in Requests
  PROVE  call[c].sent + 1 <= IF c[2] = "deepgram" THEN MaxAttempts
                                                  ELSE 2 * MaxAttempts + Rounds(MaxAttempts)
<1>1. call[c] \in State /\ OwnStep(c) /\ Budget(c)
  BY DEF IInv, TypeOK, CallInv
<1>2. /\ call[c].sent \in Nat /\ call[c].attempt \in Nat /\ call[c].polls \in Nat
      /\ 1 <= call[c].attempt /\ call[c].attempt <= MaxAttempts
      /\ call[c].attempt - 1 \in Nat
  BY <1>1, Constants DEF State
<1>3. /\ MaxAttempts \in Nat /\ MaxPolls \in Nat /\ Rounds(MaxAttempts) \in Nat
  BY Constants, Products
<1>4. CASE At(c, "upload")
  <2>1. call[c].sent < call[c].attempt /\ c[2] = "assemblyai"
    BY <1>1, <1>4 DEF Budget, OwnStep, At, Ended
  <2> QED BY <1>2, <1>3, <2>1
<1>5. CASE At(c, "listen")
  <2>1. call[c].sent < call[c].attempt /\ c[2] = "deepgram"
    BY <1>1, <1>5 DEF Budget, OwnStep, At, Ended
  <2> QED BY <1>2, <1>3, <2>1
<1>6. CASE At(c, "create")
  <2>1. /\ call[c].sent < (IF c[2] = "assemblyai" THEN MaxAttempts ELSE 0) + call[c].attempt
        /\ c[2] # "deepgram"
    BY <1>1, <1>6 DEF Budget, OwnStep, At, Ended
  <2> QED BY <1>2, <1>3, <2>1
<1>7. CASE At(c, "poll") /\ c[2] = "assemblyai"
  <2>1. /\ call[c].sent < 2 * MaxAttempts + Polled(call[c].polls) + call[c].attempt
        /\ call[c].polls < MaxPolls
    BY <1>1, <1>7 DEF Budget
  <2>2. call[c].polls + 1 \in Nat /\ call[c].polls + 1 <= MaxPolls
    BY <1>2, <1>3, <2>1
  <2>3. /\ Polled(call[c].polls + 1) = Polled(call[c].polls) + MaxAttempts
        /\ Polled(call[c].polls + 1) <= Polled(MaxPolls) /\ Polled(MaxPolls) = Rounds(MaxAttempts)
        /\ Polled(call[c].polls) \in Nat
    BY <1>2, <1>3, <2>2, Products
  <2> QED BY <1>2, <1>3, <1>7, <2>1, <2>3
<1>8. CASE At(c, "poll") /\ c[2] = "speechmatics"
  <2>1. /\ call[c].sent <= MaxAttempts + Rounds(call[c].attempt - 1) + call[c].polls
        /\ call[c].polls < MaxPolls
    BY <1>1, <1>8 DEF Budget
  <2>2. Rounds((call[c].attempt - 1) + 1) = Rounds(call[c].attempt - 1) + MaxPolls
        /\ Rounds(call[c].attempt - 1) \in Nat
    BY <1>2, Products
  <2>3. (call[c].attempt - 1) + 1 = call[c].attempt
    BY <1>2
  <2>4. Rounds(call[c].attempt) <= Rounds(MaxAttempts)
    BY <1>2, <1>3, Products
  <2> QED BY <1>2, <1>3, <1>8, <2>1, <2>2, <2>3, <2>4
<1>9. CASE At(c, "fetch")
  <2>1. /\ call[c].sent < MaxAttempts + Rounds(MaxAttempts) + call[c].attempt
        /\ c[2] # "deepgram"
    BY <1>1, <1>9 DEF Budget, OwnStep, At, Ended
  <2> QED BY <1>2, <1>3, <2>1
<1>10. At(c, "poll") => c[2] \in {"assemblyai", "speechmatics"}
  BY <1>1 DEF OwnStep, At, Ended
<1> QED BY <1>4, <1>5, <1>6, <1>7, <1>8, <1>9, <1>10 DEF Requests, At

\* A call that has sent its last request.
LEMMA LastInv ==
  ASSUME IInv, NEW c \in Calls, call[c].pc \in Requests, NEW k \in State,
         call' = [call EXCEPT ![c] = k], k.sent = call[c].sent + 1, k.job = call[c].job,
         k.pc \in Ended,
         k.pc = "done" /\ c[2] # "deepgram" =>
           /\ call[c].pc \in {"poll", "fetch"}
           /\ jobs[c][call[c].job].state = "completed",
         UNCHANGED <<adapters, cache, jobs, stage, staged, facts>>, faults' \in 0..MaxFaults
  PROVE  IInv'
<1>1. /\ call \in [Calls -> State] /\ CallInv(c)
  BY DEF IInv, TypeOK
<1>2. /\ call'[c] = k /\ call' \in [Calls -> State]
      /\ \A d \in Calls \ {c} : call'[d] = call[d] /\ jobs'[d] = jobs[d]
  BY <1>1
<1>3. OwnStep(c)' /\ OwnUpload(c)'
  BY <1>2 DEF OwnStep, OwnUpload, At, Ended
<1>4. OwnJobs(c)'
  BY <1>1, <1>2 DEF CallInv, OwnJobs, At, AudioFor, Ended
<1>5. k.sent <= IF c[2] = "deepgram" THEN MaxAttempts
                                     ELSE 2 * MaxAttempts + Rounds(MaxAttempts)
  BY Affordable
<1>6. Budget(c)'
  BY <1>2, <1>5 DEF Budget, At, Ended
<1>7. \A d \in Calls : CallInv(d)'
  BY <1>2, <1>3, <1>4, <1>6, CallMoves DEF CallInv
<1>8. TypeOK'
  BY <1>2 DEF IInv, TypeOK
<1> QED BY <1>7, <1>8 DEF IInv

LEMMA FatalErrorInv ==
  ASSUME IInv, NEW c \in Calls, FatalError(c)
  PROVE  IInv'
<1>1. call[c] \in State /\ faults \in Nat /\ MaxFaults \in Nat
  BY Constants DEF IInv, TypeOK
<1> DEFINE k == Sending([call[c] EXCEPT !.pc = "failed"])
           x == [call[c] EXCEPT !.pc = "failed"]
<1>2. /\ call' = [call EXCEPT ![c] = k] /\ call[c].pc \in Requests
      /\ UNCHANGED <<adapters, cache, jobs, stage, staged, facts>>
      /\ faults' = faults + 1 /\ faults < MaxFaults
  BY DEF FatalError
<1>3. x \in State /\ x.pc = "failed" /\ x.sent = call[c].sent /\ x.job = call[c].job
  BY <1>1, WithPc DEF Ended
<1>4. k = Sending(x)
  OBVIOUS
<1> HIDE DEF x, k
<1>5. k \in State /\ k.pc = "failed" /\ k.sent = call[c].sent + 1 /\ k.job = call[c].job
  BY <1>3, <1>4, Sent
<1>6. faults' \in 0..MaxFaults
  BY <1>1, <1>2
<1> QED BY <1>2, <1>5, <1>6, LastInv DEF Ended

\* The last answer: of a job that failed, of one that is finished, or at once.
LEMMA AnswerInv ==
  ASSUME IInv, NEW c \in Calls,
         \/ PollError(c)
         \/ PollAnswer(c) /\ c[2] = "assemblyai"
         \/ Fetch(c)
  PROVE  IInv'
<1>1. call[c] \in State /\ CallInv(c) /\ faults \in 0..MaxFaults
  BY DEF IInv, TypeOK
<1>2. /\ UNCHANGED <<adapters, cache, jobs, stage, staged, facts, faults>>
      /\ call[c].pc \in {"poll", "fetch", "listen"}
  BY DEF PollError, PollAnswer, Fetch, At
<1>3. PICK next \in Ended : /\ call' = [call EXCEPT ![c] = Sending(Advance(c, next))]
                            /\ next = "done" => (PollAnswer(c) \/ Fetch(c))
  BY DEF PollError, PollAnswer, Fetch, Ended
<1> DEFINE x == Advance(c, next)
           k == Sending(x)
<1>4. x \in State /\ x.pc = next /\ x.sent = call[c].sent /\ x.job = call[c].job
  BY <1>1, Advanced
<1> HIDE DEF x
<1>5. k \in State /\ k.pc = next /\ k.sent = call[c].sent + 1 /\ k.job = call[c].job
  BY <1>4, Sent
<1> HIDE DEF k
<1>6. call' = [call EXCEPT ![c] = k]
  BY <1>3 DEF k, x
<1>7. ASSUME next = "done", c[2] # "deepgram"
      PROVE  /\ call[c].pc \in {"poll", "fetch"}
             /\ jobs[c][call[c].job].state = "completed"
  <2>1. CASE PollAnswer(c)
    BY <2>1 DEF PollAnswer, At
  <2>2. CASE Fetch(c)
    <3>1. call[c].pc = "fetch"
      BY <1>1, <1>7, <2>2 DEF Fetch, At, CallInv, OwnStep, Ended
    <3> QED BY <1>1, <3>1 DEF CallInv, OwnJobs, At
  <2> QED BY <1>3, <1>7, <2>1, <2>2
<1>8. call[c].pc \in Requests /\ k.pc \in Ended
  BY <1>2, <1>5 DEF Requests
<1>9. k.pc = "done" /\ c[2] # "deepgram" =>
        call[c].pc \in {"poll", "fetch"} /\ jobs[c][call[c].job].state = "completed"
  BY <1>5, <1>7
<1>10. faults' \in 0..MaxFaults
  BY <1>1, <1>2
<1>11. UNCHANGED <<adapters, cache, jobs, stage, staged, facts>>
  BY <1>2
<1> QED BY <1>5, <1>6, <1>8, <1>9, <1>10, <1>11, LastInv

\* A call goes on after a request, within its budget and with the jobs it has.
LEMMA GoesOnInv ==
  ASSUME IInv, NEW c \in Calls, call[c].pc \in Requests, NEW k \in State,
         call' = [call EXCEPT ![c] = k], k.job = call[c].job, k.upload = call[c].upload,
         k.pc = call[c].pc, call[c].attempt <= k.attempt \/ k.pc = "poll",
         NEW new \in Seq(Job), Len(new) >= Len(jobs[c]), jobs' = [jobs EXCEPT ![c] = new],
         \A i \in DOMAIN new : new[i].audio = AudioFor(c),
         new # jobs[c] => k.pc = "create" /\ Len(new) < k.attempt,
         Budget(c)', faults' \in 0..MaxFaults,
         UNCHANGED <<adapters, cache, stage, staged, facts>>
  PROVE  IInv'
<1>1. /\ call \in [Calls -> State] /\ jobs \in [Calls -> Seq(Job)] /\ CallInv(c)
  BY DEF IInv, TypeOK
<1>2. /\ call'[c] = k /\ call' \in [Calls -> State]
      /\ jobs'[c] = new /\ jobs' \in [Calls -> Seq(Job)]
      /\ \A d \in Calls \ {c} : call'[d] = call[d] /\ jobs'[d] = jobs[d]
  BY <1>1
<1>3. OwnStep(c)' /\ OwnUpload(c)'
  BY <1>1, <1>2 DEF CallInv, OwnStep, OwnUpload, At, AudioFor
<1>4. OwnJobs(c)'
  <2>1. /\ k.attempt \in Nat /\ k.attempt <= MaxAttempts /\ call[c].attempt \in Nat
        /\ MaxAttempts \in Nat /\ Len(new) \in Nat /\ Len(jobs[c]) \in Nat
    BY <1>1, Constants DEF State
  <2>2. k.pc \notin Ended /\ k.pc # "off"
    BY DEF Requests, Ended
  <2>3. CASE new = jobs[c]
    BY <1>1, <1>2, <2>1, <2>2, <2>3 DEF CallInv, OwnJobs, At, AudioFor, Ended
  <2>4. CASE new # jobs[c]
    <3>1. k.pc = "create" /\ Len(new) < k.attempt
      BY <2>4
    <3> QED BY <1>2, <2>1, <3>1 DEF OwnJobs, At, AudioFor
  <2> QED BY <2>3, <2>4
<1>5. \A d \in Calls : CallInv(d)'
  BY <1>2, <1>3, <1>4, CallMoves DEF CallInv
<1>6. TypeOK'
  BY <1>2 DEF IInv, TypeOK
<1> QED BY <1>5, <1>6 DEF IInv

\* What a retry changes.
LEMMA RetriedFacts ==
  ASSUME NEW c, call[c] \in State
  PROVE  /\ Retried(c) \in State /\ Retried(c).upload = call[c].upload
         /\ Retried(c).job = call[c].job /\ Retried(c).sent = call[c].sent
         /\ call[c].attempt < MaxAttempts =>
              /\ Retried(c).pc = call[c].pc /\ Retried(c).attempt = call[c].attempt + 1
              /\ Retried(c).polls = IF c[2] = "speechmatics" THEN 0 ELSE call[c].polls
         /\ call[c].attempt >= MaxAttempts => Retried(c).pc = "failed"
<1>1. /\ call[c].attempt \in Nat /\ MaxAttempts \in Nat /\ MaxPolls \in Nat
      /\ 1 <= call[c].attempt /\ call[c].polls \in 0..MaxPolls
  BY Constants DEF State
<1>2. CASE call[c].attempt < MaxAttempts
  <2> DEFINE polls == IF c[2] = "speechmatics" THEN 0 ELSE call[c].polls
             k == [call[c] EXCEPT !.attempt = call[c].attempt + 1, !.polls = polls]
  <2>1. polls \in 0..MaxPolls /\ call[c].attempt + 1 \in 1..MaxAttempts
    BY <1>1, <1>2
  <2>2. Retried(c) = k
    BY <1>2 DEF Retried
  <2> HIDE DEF polls
  <2>3. /\ k \in State /\ k.upload = call[c].upload /\ k.job = call[c].job
        /\ k.sent = call[c].sent /\ k.pc = call[c].pc /\ k.attempt = call[c].attempt + 1
        /\ k.polls = polls
    BY <2>1 DEF State
  <2> HIDE DEF k
  <2> QED BY <1>1, <1>2, <2>2, <2>3 DEF polls
<1>3. CASE call[c].attempt >= MaxAttempts
  <2> DEFINE k == [call[c] EXCEPT !.pc = "failed"]
  <2>1. Retried(c) = k
    BY <1>1, <1>3 DEF Retried
  <2>2. /\ k \in State /\ k.pc = "failed" /\ k.upload = call[c].upload
        /\ k.job = call[c].job /\ k.sent = call[c].sent
    BY WithPc DEF Ended
  <2> HIDE DEF k
  <2> QED BY <1>1, <1>3, <2>1, <2>2
<1> QED BY <1>1, <1>2, <1>3

\* A retried request, whose creation the service may have acted on.
LEMMA RetryInv ==
  ASSUME IInv, NEW c \in Calls, call[c].pc \in Requests,
         call' = [call EXCEPT ![c] = Sending(Retried(c))],
         jobs' = jobs \/ (At(c, "create") /\ jobs' = [jobs EXCEPT ![c] = NewJob(c)]),
         faults' \in 0..MaxFaults, UNCHANGED <<adapters, cache, stage, staged, facts>>
  PROVE  IInv'
<1> DEFINE k == Sending(Retried(c))
<1>1. /\ call[c] \in State /\ CallInv(c) /\ jobs \in [Calls -> Seq(Job)]
      /\ call \in [Calls -> State]
  BY DEF IInv, TypeOK
<1>2. /\ k \in State /\ k.upload = call[c].upload /\ k.job = call[c].job
      /\ k.sent = call[c].sent + 1
      /\ call[c].attempt < MaxAttempts =>
           /\ k.pc = call[c].pc /\ k.attempt = call[c].attempt + 1
           /\ k.polls = IF c[2] = "speechmatics" THEN 0 ELSE call[c].polls
      /\ call[c].attempt >= MaxAttempts => k.pc = "failed"
  BY <1>1, RetriedFacts, Sent
<1> HIDE DEF k
<1>3. call' = [call EXCEPT ![c] = k] /\ call'[c] = k
  BY <1>1 DEF k
<1>4. /\ call[c].attempt \in Nat /\ 1 <= call[c].attempt /\ call[c].sent \in Nat
      /\ call[c].polls \in Nat /\ MaxAttempts \in Nat /\ MaxPolls \in Nat \ {0}
      /\ call[c].attempt - 1 \in Nat /\ call[c].attempt <= MaxAttempts
  BY <1>1, Constants DEF State
<1> DEFINE new == jobs'[c]
<1>5. /\ new \in Seq(Job) /\ jobs' = [jobs EXCEPT ![c] = new]
      /\ Len(new) \in {Len(jobs[c]), Len(jobs[c]) + 1}
      /\ \A i \in DOMAIN new : new[i].audio = AudioFor(c)
      /\ new # jobs[c] => At(c, "create")
  <2>1. CASE jobs' = jobs
    BY <1>1, <2>1 DEF CallInv, OwnJobs
  <2>2. CASE At(c, "create") /\ jobs' = [jobs EXCEPT ![c] = NewJob(c)]
    BY <1>1, <2>2, NewJobFacts
  <2> QED BY <2>1, <2>2
<1> HIDE DEF new
<1>6. CASE call[c].attempt < MaxAttempts
  <2>1. /\ k.pc = call[c].pc /\ k.attempt = call[c].attempt + 1
        /\ k.polls = IF c[2] = "speechmatics" THEN 0 ELSE call[c].polls
    BY <1>2, <1>6
  <2>2. Budget(c)'
    <3>1. OwnStep(c) /\ Budget(c)
      BY <1>1 DEF CallInv
    <3>2. CASE call[c].pc # "poll"
      <4>1. Rounds(MaxAttempts) \in Nat
        BY <1>4, Products
      <4>2. k.attempt = call[c].attempt + 1 /\ k.sent = call[c].sent + 1
        BY <1>2, <2>1
      <4>3. CASE call[c].pc \in {"upload", "listen"}
        <5>1. k.sent < k.attempt /\ (call[c].pc = "upload" => k.polls = 0)
          BY <1>4, <2>1, <3>1, <4>2, <4>3 DEF Budget
        <5> QED BY <1>3, <2>1, <4>3, <5>1 DEF Budget, At, Ended
      <4>4. CASE At(c, "create")
        <5>1. /\ k.sent < (IF c[2] = "assemblyai" THEN MaxAttempts ELSE 0) + k.attempt
              /\ k.polls = 0
          BY <1>4, <2>1, <3>1, <4>2, <4>4 DEF Budget, At
        <5> QED BY <1>3, <2>1, <4>4, <5>1 DEF Budget, At, Ended
      <4>5. CASE At(c, "fetch")
        <5>1. k.sent < MaxAttempts + Rounds(MaxAttempts) + k.attempt
          BY <1>4, <3>1, <4>1, <4>2, <4>5 DEF Budget, At
        <5> QED BY <1>3, <2>1, <4>5, <5>1 DEF Budget, At, Ended
      <4> QED BY <3>2, <4>3, <4>4, <4>5 DEF Requests, At
    <3>3. CASE At(c, "poll") /\ c[2] = "assemblyai"
      <4>1. Polled(call[c].polls) \in Nat
        BY <1>4, Products
      <4> QED BY <1>2, <1>3, <1>4, <2>1, <3>1, <3>3, <4>1 DEF Budget, At, Requests, Ended
    <3>4. CASE At(c, "poll") /\ c[2] = "speechmatics"
      <4>1. /\ Rounds((call[c].attempt - 1) + 1) = Rounds(call[c].attempt - 1) + MaxPolls
            /\ Rounds(call[c].attempt - 1) \in Nat
        BY <1>4, Products
      <4>2. (call[c].attempt - 1) + 1 = call[c].attempt /\ k.attempt - 1 = call[c].attempt
        BY <1>4, <2>1
      <4>3. /\ call[c].sent <= MaxAttempts + Rounds(call[c].attempt - 1) + call[c].polls
            /\ call[c].polls < MaxPolls /\ k.polls = 0 /\ k.sent = call[c].sent + 1
        BY <1>2, <2>1, <3>1, <3>4 DEF Budget
      <4>4. k.sent <= MaxAttempts + Rounds(k.attempt - 1) + k.polls /\ k.polls < MaxPolls
        BY <1>4, <4>1, <4>2, <4>3
      <4> QED BY <1>3, <2>1, <3>4, <4>4 DEF Budget, At, Requests, Ended
    <3>5. At(c, "poll") => c[2] \in {"assemblyai", "speechmatics"}
      BY <3>1 DEF OwnStep, At, Ended
    <3> QED BY <3>2, <3>3, <3>4, <3>5 DEF At
  <2>3. new # jobs[c] => k.pc = "create" /\ Len(new) < k.attempt
    <3>1. ASSUME At(c, "create") PROVE Len(jobs[c]) < call[c].attempt
      BY <1>1, <3>1 DEF CallInv, OwnJobs
    <3> QED BY <1>4, <1>5, <2>1, <3>1 DEF At
  <2>4. Len(new) >= Len(jobs[c]) /\ call[c].attempt <= k.attempt
    BY <1>1, <1>4, <1>5, <2>1
  <2> QED BY <1>2, <1>3, <1>5, <2>1, <2>2, <2>3, <2>4, GoesOnInv
<1>7. CASE call[c].attempt >= MaxAttempts
  <2>1. k.pc = "failed"
    BY <1>2, <1>7
  <2>2. CASE jobs' = jobs
    BY <1>2, <1>3, <2>1, <2>2, LastInv DEF Ended
  <2>3. CASE At(c, "create") /\ jobs' = [jobs EXCEPT ![c] = NewJob(c)]
    <3>1. /\ call' \in [Calls -> State] /\ jobs' \in [Calls -> Seq(Job)]
          /\ \A d \in Calls \ {c} : call'[d] = call[d] /\ jobs'[d] = jobs[d]
      BY <1>1, <1>2, <1>3, <1>5
    <3>2. OwnStep(c)' /\ OwnUpload(c)'
      BY <1>3, <2>1 DEF OwnStep, OwnUpload, At, Ended
    <3>3. OwnJobs(c)'
      <4>1. Len(jobs[c]) < call[c].attempt
        BY <1>1, <2>3 DEF CallInv, OwnJobs
      <4>2. Len(new) <= MaxAttempts
        BY <1>1, <1>4, <1>5, <4>1
      <4> QED BY <1>3, <1>5, <2>1, <4>2 DEF OwnJobs, At, AudioFor, new
    <3>4. Budget(c)'
      <4>1. k.sent <= IF c[2] = "deepgram" THEN MaxAttempts
                                           ELSE 2 * MaxAttempts + Rounds(MaxAttempts)
        BY <1>2, Affordable
      <4> QED BY <1>3, <2>1, <4>1 DEF Budget, At, Ended
    <3>5. \A d \in Calls : CallInv(d)'
      BY <3>1, <3>2, <3>3, <3>4, CallMoves DEF CallInv
    <3>6. TypeOK'
      BY <3>1 DEF IInv, TypeOK
    <3> QED BY <3>5, <3>6 DEF IInv
  <2> QED BY <2>2, <2>3
<1> QED BY <1>4, <1>6, <1>7

LEMMA RetryableErrorInv ==
  ASSUME IInv, NEW c \in Calls, RetryableError(c)
  PROVE  IInv'
<1>1. faults \in Nat /\ MaxFaults \in Nat
  BY Constants DEF IInv, TypeOK
<1>2. faults' \in 0..MaxFaults
  BY <1>1 DEF RetryableError
<1> QED BY <1>2, RetryInv DEF RetryableError

LEMMA WithPolls ==
  ASSUME NEW x \in State, NEW polls \in 0..MaxPolls
  PROVE  LET k == [x EXCEPT !.polls = polls] IN
         /\ k \in State /\ k.pc = x.pc /\ k.attempt = x.attempt /\ k.polls = polls
         /\ k.upload = x.upload /\ k.job = x.job /\ k.sent = x.sent
BY DEF State

\* A job is not ready yet.
LEMMA PollPendingInv ==
  ASSUME IInv, NEW c \in Calls, PollPending(c)
  PROVE  IInv'
<1> DEFINE counted == [call[c] EXCEPT !.polls = @ + 1]
<1>1. /\ call[c] \in State /\ CallInv(c) /\ call \in [Calls -> State]
      /\ jobs[c] \in Seq(Job) /\ jobs \in [Calls -> Seq(Job)] /\ faults \in 0..MaxFaults
  BY DEF IInv, TypeOK
<1>2. /\ At(c, "poll") /\ call[c].pc \in Requests
      /\ UNCHANGED <<adapters, cache, jobs, stage, staged, facts, faults>>
  BY DEF PollPending, At, Requests
<1>3. c[2] \in {"assemblyai", "speechmatics"}
  BY <1>1, <1>2 DEF CallInv, OwnStep, At, Ended
<1>4. /\ call[c].attempt \in Nat /\ 1 <= call[c].attempt /\ call[c].attempt <= MaxAttempts
      /\ call[c].sent \in Nat /\ call[c].polls \in Nat /\ call[c].attempt - 1 \in Nat
      /\ MaxAttempts \in Nat \ {0} /\ MaxPolls \in Nat \ {0} /\ call[c].polls < MaxPolls
  BY <1>1, <1>2, Constants DEF State, CallInv, Budget
<1>5. /\ counted \in State /\ counted.pc = "poll" /\ counted.attempt = call[c].attempt
      /\ counted.polls = call[c].polls + 1 /\ counted.upload = call[c].upload
      /\ counted.job = call[c].job /\ counted.sent = call[c].sent
  <2>1. call[c].polls + 1 \in 0..MaxPolls /\ counted = [call[c] EXCEPT !.polls = call[c].polls + 1]
    BY <1>4
  <2> HIDE DEF counted
  <2> QED BY <1>1, <1>2, <2>1, WithPolls DEF At
<1> DEFINE next ==
      CASE counted.polls < MaxPolls /\ c[2] = "assemblyai" -> [counted EXCEPT !.attempt = 1]
        [] counted.polls < MaxPolls /\ c[2] = "speechmatics" -> counted
        [] counted.polls = MaxPolls /\ c[2] = "speechmatics" -> Retried(c)
        [] OTHER -> [counted EXCEPT !.pc = "failed"]
<1>6. call' = [call EXCEPT ![c] = Sending(next)]
  BY DEF PollPending
<1> HIDE DEF counted
<1>10. /\ counted.polls < MaxPolls /\ c[2] = "assemblyai" => next = [counted EXCEPT !.attempt = 1]
       /\ counted.polls < MaxPolls /\ c[2] = "speechmatics" => next = counted
       /\ counted.polls = MaxPolls /\ c[2] = "speechmatics" => next = Retried(c)
       /\ counted.polls = MaxPolls /\ c[2] = "assemblyai" => next = [counted EXCEPT !.pc = "failed"]
  BY <1>4, <1>5
<1> HIDE DEF next
<1>7. \A i \in DOMAIN jobs[c] : jobs[c][i].audio = AudioFor(c)
  BY <1>1 DEF CallInv, OwnJobs
<1>11. jobs' = [jobs EXCEPT ![c] = jobs[c]] /\ Len(jobs[c]) >= Len(jobs[c])
  BY <1>1, <1>2
<1>8. CASE counted.polls < MaxPolls
  <2>1. PICK x \in State : /\ call' = [call EXCEPT ![c] = Sending(x)] /\ x.pc = "poll"
                           /\ x.polls = call[c].polls + 1 /\ x.upload = call[c].upload
                           /\ x.job = call[c].job /\ x.sent = call[c].sent
                           /\ x.attempt = IF c[2] = "assemblyai" THEN 1 ELSE call[c].attempt
    <3>1. CASE c[2] = "assemblyai"
      <4> DEFINE x == [counted EXCEPT !.attempt = 1]
      <4>1. call' = [call EXCEPT ![c] = Sending(x)]
        BY <1>6, <1>8, <1>10, <3>1
      <4>2. /\ x \in State /\ x.pc = counted.pc /\ x.polls = counted.polls
            /\ x.upload = counted.upload /\ x.job = counted.job /\ x.sent = counted.sent
            /\ x.attempt = 1
        BY <1>4, <1>5 DEF State
      <4> HIDE DEF x
      <4> QED BY <1>5, <3>1, <4>1, <4>2
    <3>2. CASE c[2] = "speechmatics"
      <4>1. call' = [call EXCEPT ![c] = Sending(counted)]
        BY <1>6, <1>8, <1>10, <3>2
      <4> QED BY <1>5, <3>2, <4>1
    <3> QED BY <1>3, <3>1, <3>2
  <2> DEFINE k == Sending(x)
  <2>2. /\ k \in State /\ k.pc = "poll" /\ k.polls = call[c].polls + 1
        /\ k.upload = call[c].upload /\ k.job = call[c].job /\ k.sent = call[c].sent + 1
        /\ k.attempt = IF c[2] = "assemblyai" THEN 1 ELSE call[c].attempt
    BY <2>1, Sent
  <2>3. call' = [call EXCEPT ![c] = k]
    BY <2>1
  <2> HIDE DEF k
  <2>4. call'[c] = k
    BY <1>1, <2>3
  <2>5. k.polls < MaxPolls
    BY <1>5, <1>8, <2>2
  <2>6. CASE c[2] = "assemblyai"
    <3>1. call[c].sent < 2 * MaxAttempts + Polled(call[c].polls) + call[c].attempt
      BY <1>1, <1>2, <2>6 DEF CallInv, Budget
    <3>2. /\ Polled(call[c].polls + 1) = Polled(call[c].polls) + MaxAttempts
          /\ Polled(call[c].polls) \in Nat
      BY <1>4, Products
    <3>3. k.sent < 2 * MaxAttempts + Polled(k.polls) + k.attempt
      BY <1>4, <2>2, <2>6, <3>1, <3>2
    <3>4. Budget(c)'
      BY <2>2, <2>4, <2>5, <2>6, <3>3 DEF Budget, At, Ended
    <3> QED BY <1>1, <1>2, <1>7, <1>11, <2>2, <2>3, <3>4, GoesOnInv DEF At
  <2>7. CASE c[2] = "speechmatics"
    <3>1. call[c].sent <= MaxAttempts + Rounds(call[c].attempt - 1) + call[c].polls
      BY <1>1, <1>2, <2>7 DEF CallInv, Budget
    <3>2. Rounds(call[c].attempt - 1) \in Nat /\ k.attempt = call[c].attempt
      BY <1>4, <2>2, <2>7, Products
    <3>3. k.sent <= MaxAttempts + Rounds(k.attempt - 1) + k.polls
      BY <1>4, <2>2, <3>1, <3>2
    <3>4. Budget(c)'
      BY <2>2, <2>4, <2>5, <2>7, <3>3 DEF Budget, At, Ended
    <3> QED BY <1>1, <1>2, <1>7, <1>11, <2>2, <2>3, <3>4, GoesOnInv DEF At
  <2> QED BY <1>3, <2>6, <2>7
<1>9. CASE counted.polls = MaxPolls
  <2>1. CASE c[2] = "speechmatics"
    <3>1. call' = [call EXCEPT ![c] = Sending(Retried(c))]
      BY <1>6, <1>9, <1>10, <2>1
    <3> QED BY <1>1, <1>2, <3>1, RetryInv
  <2>2. CASE c[2] = "assemblyai"
    <3> DEFINE x == [counted EXCEPT !.pc = "failed"]
               k == Sending(x)
    <3>1. call' = [call EXCEPT ![c] = k]
      BY <1>6, <1>9, <1>10, <2>2
    <3>2. x \in State /\ x.pc = "failed" /\ x.sent = call[c].sent /\ x.job = call[c].job
      BY <1>5, WithPc DEF Ended
    <3> HIDE DEF x
    <3>3. k \in State /\ k.pc = "failed" /\ k.sent = call[c].sent + 1 /\ k.job = call[c].job
      BY <3>2, Sent
    <3> HIDE DEF k
    <3> QED BY <1>1, <1>2, <3>1, <3>3, LastInv DEF Ended
  <2> QED BY <1>3, <2>1, <2>2
<1> QED BY <1>4, <1>5, <1>8, <1>9

\* Speechmatics' job is finished: the transcript is fetched with attempts of its own.
LEMMA ReadyInv ==
  ASSUME IInv, NEW c \in Calls, PollAnswer(c), c[2] # "assemblyai"
  PROVE  IInv'
<1> DEFINE x == Advance(c, "fetch")
           k == Sending(x)
<1>1. /\ call[c] \in State /\ CallInv(c) /\ call \in [Calls -> State]
      /\ jobs[c] \in Seq(Job) /\ jobs \in [Calls -> Seq(Job)] /\ faults \in 0..MaxFaults
  BY DEF IInv, TypeOK
<1>2. /\ At(c, "poll") /\ jobs[c][call[c].job].state = "completed"
      /\ UNCHANGED <<adapters, cache, jobs, stage, staged, facts, faults>>
      /\ call' = [call EXCEPT ![c] = k]
  BY DEF PollAnswer
<1>3. c[2] = "speechmatics"
  BY <1>1, <1>2 DEF CallInv, OwnStep, At, Ended
<1>4. /\ x \in State /\ x.pc = "fetch" /\ x.attempt = 1 /\ x.polls = call[c].polls
      /\ x.upload = call[c].upload /\ x.job = call[c].job /\ x.sent = call[c].sent
  BY <1>1, Advanced DEF Steps, Requests
<1> HIDE DEF x
<1>5. /\ k \in State /\ k.pc = "fetch" /\ k.attempt = 1 /\ k.polls = call[c].polls
      /\ k.job = call[c].job /\ k.sent = call[c].sent + 1
  BY <1>4, Sent
<1> HIDE DEF k
<1>6. /\ TypeOK' /\ call'[c] = k
      /\ \A d \in Calls \ {c} : call'[d] = call[d] /\ jobs'[d] = jobs[d]
  BY <1>2, <1>5, CallTypes
<1>7. OwnStep(c)' /\ OwnUpload(c)'
  BY <1>3, <1>5, <1>6 DEF OwnStep, OwnUpload, At
<1>8. OwnJobs(c)'
  BY <1>1, <1>2, <1>5, <1>6 DEF CallInv, OwnJobs, At, AudioFor
<1>9. k.sent < MaxAttempts + Rounds(MaxAttempts) + k.attempt
  <2>1. /\ call[c].sent <= MaxAttempts + Rounds(call[c].attempt - 1) + call[c].polls
        /\ call[c].polls < MaxPolls
    BY <1>1, <1>2, <1>3 DEF CallInv, Budget
  <2>2. /\ call[c].attempt \in Nat /\ call[c].attempt <= MaxAttempts
        /\ call[c].attempt - 1 \in Nat /\ MaxAttempts \in Nat
        /\ call[c].polls \in Nat /\ MaxPolls \in Nat /\ call[c].sent \in Nat
    BY <1>1, Constants DEF State
  <2>3. /\ Rounds((call[c].attempt - 1) + 1) = Rounds(call[c].attempt - 1) + MaxPolls
        /\ Rounds(call[c].attempt - 1) \in Nat
        /\ Rounds(call[c].attempt) <= Rounds(MaxAttempts) /\ Rounds(MaxAttempts) \in Nat
    BY <2>2, Products
  <2>4. (call[c].attempt - 1) + 1 = call[c].attempt
    BY <2>2
  <2> QED BY <1>5, <2>1, <2>2, <2>3, <2>4
<1>10. Budget(c)'
  BY <1>3, <1>5, <1>6, <1>9 DEF Budget, At, Ended
<1>11. \A d \in Calls : CallInv(d)'
  BY <1>6, <1>7, <1>8, <1>10, CallMoves DEF CallInv
<1> QED BY <1>2, <1>6, <1>11 DEF IInv

\* A job that is queued ends; the jobs that have ended stay as they are.
LEMMA JobEndsInv ==
  ASSUME IInv, NEW c \in Calls, JobEnds(c)
  PROVE  IInv'
<1>1. PICK i \in DOMAIN jobs[c], state \in {"completed", "error"} :
        /\ jobs[c][i].state = "queued"
        /\ jobs' = [jobs EXCEPT ![c][i].state = state]
        /\ UNCHANGED <<adapters, call, cache, stage, staged, facts, faults>>
  BY DEF JobEnds
<1>2. /\ call \in [Calls -> State] /\ jobs \in [Calls -> Seq(Job)] /\ CallInv(c)
      /\ jobs[c] \in Seq(Job)
  BY DEF IInv, TypeOK
<1> DEFINE job == [jobs[c][i] EXCEPT !.state = state]
           new == [jobs[c] EXCEPT ![i] = job]
<1>3. jobs[c][i] \in Job
  BY <1>1, <1>2
<1>4. job \in Job /\ job.audio = jobs[c][i].audio
  BY <1>1, <1>3 DEF Job
<1>5. jobs' = [jobs EXCEPT ![c] = new]
  BY <1>1
<1> HIDE DEF job
<1>6. /\ new \in Seq(Job) /\ Len(new) = Len(jobs[c]) /\ DOMAIN new = DOMAIN jobs[c]
      /\ \A n \in DOMAIN jobs[c] : /\ new[n].audio = jobs[c][n].audio
                                   /\ jobs[c][n].state # "queued" => new[n] = jobs[c][n]
  BY <1>1, <1>2, <1>4
<1> HIDE DEF new
<1>7. /\ jobs' \in [Calls -> Seq(Job)] /\ jobs'[c] = new
      /\ \A d \in Calls \ {c} : call'[d] = call[d] /\ jobs'[d] = jobs[d]
  BY <1>1, <1>2, <1>5, <1>6
<1>8. OwnStep(c)' /\ OwnUpload(c)' /\ Budget(c)'
  BY <1>1, <1>2 DEF CallInv, OwnStep, OwnUpload, Budget, At, AudioFor
<1>9. OwnJobs(c)'
  <2>1. ASSUME At(c, "fetch") \/ (At(c, "done") /\ c[2] # "deepgram")
        PROVE  new[call[c].job].state = "completed"
    <3>1. /\ call[c].job = Len(jobs[c]) /\ call[c].job # 0
          /\ jobs[c][call[c].job].state = "completed"
      BY <1>2, <2>1 DEF CallInv, OwnJobs, At
    <3>2. call[c].job \in DOMAIN jobs[c]
      BY <1>2, <3>1
    <3> QED BY <1>6, <3>1, <3>2
  <2>2. call' = call
    BY <1>1
  <2>3. OwnJobs(c)
    BY <1>2 DEF CallInv
  <2> QED BY <1>6, <1>7, <2>1, <2>2, <2>3 DEF OwnJobs, At, AudioFor
<1>10. \A d \in Calls : CallInv(d)'
  BY <1>7, <1>8, <1>9, CallMoves DEF CallInv
<1>11. TypeOK'
  BY <1>1, <1>7 DEF IInv, TypeOK
<1> QED BY <1>1, <1>10, <1>11 DEF IInv

\* What the stage gathers changes no call, no job and no cache entry.
LEMMA StageTypes ==
  ASSUME IInv, UNCHANGED <<adapters, call, cache, jobs, faults>>,
         stage' \in [Runs -> {"open", "staged", "failed"}],
         staged' \in [Runs -> SUBSET (Services \X Services)],
         facts' \in [Runs -> Seq([service : Services, ok : BOOLEAN])]
  PROVE  IInv'
<1>1. TypeOK'
  BY DEF IInv, TypeOK
<1>2. ASSUME NEW c \in Calls PROVE CallInv(c)'
  BY DEF IInv, CallInv, OwnStep, OwnUpload, OwnJobs, Budget, At
<1> QED BY <1>1, <1>2 DEF IInv

\* A call that is over, or was not asked for, takes no step; a step is of one call.
LEMMA StepMoves ==
  ASSUME IInv, NEW c \in Calls, Step(c)
  PROVE  /\ call[c].pc \in Steps
         /\ \A d \in Calls \ {c} : call'[d] = call[d]
         /\ UNCHANGED <<adapters, stage, staged, facts>>
<1>1. call \in [Calls -> State]
  BY DEF IInv, TypeOK
<1>2. PICK k : call' = [call EXCEPT ![c] = k]
  BY DEF Step, ReadCache, Upload, StoreCache, Create, RetryableError, FatalError,
         PollPending, PollAnswer, PollError, Fetch
<1>3. call[c].pc \in Steps /\ UNCHANGED <<adapters, stage, staged, facts>>
  BY DEF Step, ReadCache, Upload, StoreCache, Create, RetryableError, FatalError,
         PollPending, PollAnswer, PollError, Fetch, At, Steps, Requests
<1> QED BY <1>1, <1>2, <1>3

\* Whatever the order in which the results arrive, they are gathered in the order of
\* the adapters.
LEMMA InOrder ==
  ASSUME adapters \in Settings, NEW r \in Runs,
         NEW arrived \in SetToSeqs(Range(Results(r)))
  PROVE  GatherInInputOrder(arrived) = Results(r)
<1> DEFINE n == Len(adapters[r])
           results == Results(r)
           S == Range(results)
<1>1. adapters[r] \in Seq(Services) /\ n \in Nat /\ DOMAIN adapters[r] = 1..n
  BY StageAssumption
<1>2. /\ DOMAIN results = 1..n
      /\ \A i \in 1..n : results[i].index = i
  BY <1>1 DEF Results
<1> HIDE DEF n, results
<1>3. S = {results[i] : i \in 1..n}
  BY <1>2 DEF Range
<1>4. ASSUME NEW j \in 0..n
      PROVE  LET first == {results[i] : i \in 1..j} IN
             IsFiniteSet(first) /\ Cardinality(first) = j
  <2> DEFINE first == {results[i] : i \in 1..j}
             f == [i \in 1..j |-> results[i]]
  <2>1. j \in Nat /\ 1..j \subseteq 1..n
    BY <1>1
  <2>2. f \in Bijection(1..j, first)
    <3>1. f \in [1..j -> first]
      OBVIOUS
    <3>2. \A a, b \in 1..j : f[a] = f[b] => a = b
      BY <1>2, <2>1
    <3>3. \A y \in first : \E i \in 1..j : f[i] = y
      OBVIOUS
    <3> QED BY <3>1, <3>2, <3>3 DEF Bijection, Injection, Surjection, IsInjective
  <2>3. IsFiniteSet(1..j) /\ Cardinality(1..j) = j
    BY <2>1, FS_Interval
  <2>4. ExistsBijection(1..j, first)
    BY <2>2 DEF ExistsBijection
  <2> HIDE DEF f
  <2> QED BY <2>3, <2>4, FS_Bijection
<1>5. IsFiniteSet(S) /\ Cardinality(S) = n
  <2>1. n \in 0..n
    BY <1>1
  <2> QED BY <1>3, <1>4, <2>1
<1>6. arrived \in [1..n -> S] /\ \A i, j \in 1..n : i # j => arrived[i] # arrived[j]
  BY <1>5 DEF SetToSeqs, results
<1>7. Range(arrived) = S
  <2>1. arrived \in Injection(1..n, S)
    BY <1>6 DEF Injection, IsInjective
  <2>2. IsFiniteSet(1..n) /\ Cardinality(1..n) = n
    BY <1>1, FS_Interval
  <2>3. arrived \in Surjection(1..n, S)
    BY <1>5, <2>1, <2>2, FS_Injection
  <2> QED BY <1>6, <2>3 DEF Surjection, Range
<1>8. ASSUME NEW j \in 1..n
      PROVE  Cardinality({y \in S : y.index <= results[j].index}) = j
  <2>1. {y \in S : y.index <= results[j].index} = {results[i] : i \in 1..j}
    BY <1>1, <1>2, <1>3
  <2>2. j \in 0..n
    BY <1>1
  <2>3. Cardinality({results[i] : i \in 1..j}) = j
    BY <1>4, <2>2
  <2> QED BY <2>1, <2>3
<1>9. ASSUME NEW i \in 1..n
      PROVE  (CHOOSE x \in S : Cardinality({y \in S : y.index <= x.index}) = i) = results[i]
  <2>1. results[i] \in S /\ Cardinality({y \in S : y.index <= results[i].index}) = i
    BY <1>3, <1>8
  <2>2. \A x \in S : Cardinality({y \in S : y.index <= x.index}) = i => x = results[i]
    BY <1>3, <1>8
  <2> QED BY <2>1, <2>2
<1>10. GatherInInputOrder(arrived) = [i \in 1..n |-> results[i]]
  <2> DEFINE Place(i) == CHOOSE x \in S : Cardinality({y \in S : y.index <= x.index}) = i
  <2>1. DOMAIN arrived = 1..n
    BY <1>6
  <2>2. GatherInInputOrder(arrived) = [i \in 1..n |-> Place(i)]
    BY <1>7, <2>1 DEF GatherInInputOrder
  <2>3. \A i \in 1..n : Place(i) = results[i]
    BY <1>9
  <2> HIDE DEF Place
  <2> QED BY <2>2, <2>3
<1>11. results = [i \in 1..n |-> results[i]]
  BY <1>1, <1>2 DEF Results, results
<1> QED BY <1>10, <1>11 DEF results

\* What the stage stages and records, in whatever order the results arrived.
LEMMA GatherFacts ==
  ASSUME IInv, NEW r \in Runs, Gather(r)
  PROVE  LET Succeeded(i) == call[<<r, adapters[r][i]>>].pc = "done"
             Kept == {i \in DOMAIN adapters[r] : Succeeded(i)}
         IN
         /\ stage[r] = "open"
         /\ \A i \in DOMAIN adapters[r] : call[<<r, adapters[r][i]>>].pc \in Ended
         /\ facts' = [facts EXCEPT ![r] =
              [i \in DOMAIN adapters[r] |-> [service |-> adapters[r][i], ok |-> Succeeded(i)]]]
         /\ staged' = [staged EXCEPT ![r] = {<<adapters[r][i], adapters[r][i]>> : i \in Kept}]
         /\ stage' = [stage EXCEPT ![r] = IF Kept = {} THEN "failed" ELSE "staged"]
         /\ UNCHANGED <<adapters, call, cache, jobs, faults>>
<1> DEFINE Kept(gathered) ==
             {i \in DOMAIN gathered : call[gathered[i].call].pc = "done"}
           Facts(gathered) ==
             [i \in DOMAIN gathered |-> [service |-> adapters[r][i],
                                         ok |-> call[gathered[i].call].pc = "done"]]
           Staged(gathered) ==
             {<<adapters[r][i], gathered[i].call[2]>> : i \in Kept(gathered)}
<1>1. PICK arrived \in SetToSeqs(Range(Results(r))) :
        /\ facts' = [facts EXCEPT ![r] = Facts(GatherInInputOrder(arrived))]
        /\ staged' = [staged EXCEPT ![r] = Staged(GatherInInputOrder(arrived))]
        /\ stage' = [stage EXCEPT ![r] = IF Kept(GatherInInputOrder(arrived)) = {}
                                         THEN "failed" ELSE "staged"]
  BY DEF Gather
<1>2. GatherInInputOrder(arrived) = Results(r)
  BY InOrder DEF IInv, TypeOK
<1>3. /\ DOMAIN Results(r) = DOMAIN adapters[r]
      /\ \A i \in DOMAIN adapters[r] : Results(r)[i].call = <<r, adapters[r][i]>>
  BY DEF Results
<1> DEFINE Succeeded(i) == call[<<r, adapters[r][i]>>].pc = "done"
           kept == {i \in DOMAIN adapters[r] : Succeeded(i)}
<1>4. Kept(Results(r)) = kept
  BY <1>3
<1>5. Facts(Results(r)) = [i \in DOMAIN adapters[r] |-> [service |-> adapters[r][i],
                                                         ok |-> Succeeded(i)]]
  BY <1>3
<1>6. Staged(Results(r)) = {<<adapters[r][i], adapters[r][i]>> : i \in kept}
  <2>1. \A i \in kept : Results(r)[i].call[2] = adapters[r][i]
    BY <1>3
  <2> QED BY <1>4, <2>1
<1> HIDE DEF Kept, Facts, Staged
<1>7. /\ facts' = [facts EXCEPT ![r] = Facts(Results(r))]
      /\ staged' = [staged EXCEPT ![r] = Staged(Results(r))]
      /\ stage' = [stage EXCEPT ![r] = IF Kept(Results(r)) = {} THEN "failed" ELSE "staged"]
  BY <1>1, <1>2
<1>8. /\ stage[r] = "open"
      /\ \A i \in DOMAIN adapters[r] : call[<<r, adapters[r][i]>>].pc \in Ended
      /\ UNCHANGED <<adapters, call, cache, jobs, faults>>
  BY DEF Gather
<1> QED BY <1>4, <1>5, <1>6, <1>7, <1>8

LEMMA GatherInv ==
  ASSUME IInv, NEW r \in Runs, Gather(r)
  PROVE  IInv'
<1>1. adapters \in Settings /\ adapters[r] \in Seq(Services)
  BY StageAssumption DEF IInv, TypeOK
<1>2. /\ stage \in [Runs -> {"open", "staged", "failed"}]
      /\ staged \in [Runs -> SUBSET (Services \X Services)]
      /\ facts \in [Runs -> Seq([service : Services, ok : BOOLEAN])]
  BY DEF IInv, TypeOK
<1> DEFINE Succeeded(i) == call[<<r, adapters[r][i]>>].pc = "done"
           Kept == {i \in DOMAIN adapters[r] : Succeeded(i)}
           newFacts == [i \in DOMAIN adapters[r] |-> [service |-> adapters[r][i],
                                                      ok |-> Succeeded(i)]]
           newStaged == {<<adapters[r][i], adapters[r][i]>> : i \in Kept}
<1>3. /\ facts' = [facts EXCEPT ![r] = newFacts]
      /\ staged' = [staged EXCEPT ![r] = newStaged]
      /\ stage' = [stage EXCEPT ![r] = IF Kept = {} THEN "failed" ELSE "staged"]
      /\ UNCHANGED <<adapters, call, cache, jobs, faults>>
  BY GatherFacts
<1>4. newFacts \in Seq([service : Services, ok : BOOLEAN])
  <2>1. DOMAIN adapters[r] = 1..Len(adapters[r]) /\ Len(adapters[r]) \in Nat
    BY <1>1
  <2>2. \A i \in DOMAIN adapters[r] : adapters[r][i] \in Services /\ Succeeded(i) \in BOOLEAN
    BY <1>1
  <2>3. newFacts \in [1..Len(adapters[r]) -> [service : Services, ok : BOOLEAN]]
    BY <2>1, <2>2
  <2>4. \A n \in Nat : \A T : [1..n -> T] \subseteq Seq(T)
    OBVIOUS
  <2> HIDE DEF newFacts
  <2> QED BY <2>1, <2>3, <2>4
<1>5. newStaged \in SUBSET (Services \X Services)
  <2>1. \A i \in DOMAIN adapters[r] : adapters[r][i] \in Services
    BY <1>1
  <2>2. Kept \subseteq DOMAIN adapters[r]
    OBVIOUS
  <2> HIDE DEF Kept
  <2> QED BY <2>1, <2>2
<1> HIDE DEF Kept, newFacts, newStaged
<1>6. /\ stage' \in [Runs -> {"open", "staged", "failed"}]
      /\ staged' \in [Runs -> SUBSET (Services \X Services)]
      /\ facts' \in [Runs -> Seq([service : Services, ok : BOOLEAN])]
  BY <1>2, <1>3, <1>4, <1>5
<1> QED BY <1>3, <1>6, StageTypes

LEMMA NextInv == IInv /\ [Next]_vars => IInv'
<1> SUFFICES ASSUME IInv, [Next]_vars PROVE IInv'
  OBVIOUS
<1>1. ASSUME NEW c \in Calls, Step(c) PROVE IInv'
  <2>1. CASE PollAnswer(c)
    BY <2>1, ReadyInv, AnswerInv
  <2>2. CASE ReadCache(c) \/ Upload(c) \/ StoreCache(c) \/ Create(c)
    BY <2>2, ReadCacheInv, UploadInv, StoreCacheInv, CreateInv
  <2>3. CASE RetryableError(c) \/ FatalError(c)
    BY <2>3, RetryableErrorInv, FatalErrorInv
  <2>4. CASE PollPending(c) \/ PollError(c) \/ Fetch(c)
    BY <2>4, PollPendingInv, AnswerInv
  <2> QED BY <1>1, <2>1, <2>2, <2>3, <2>4 DEF Step
<1>2. ASSUME NEW c \in Calls, JobEnds(c) PROVE IInv'
  BY <1>2, JobEndsInv
<1>3. ASSUME NEW r \in Runs, Gather(r) PROVE IInv'
  BY <1>3, GatherInv
<1>4. CASE UNCHANGED vars
  BY <1>4, StageTypes DEF vars, IInv, TypeOK
<1> QED BY <1>1, <1>2, <1>3, <1>4 DEF Next

LEMMA InvariantHolds == Spec => []IInv
BY InitInv, NextInv, PTL DEF Spec
-----------------------------------------------------------------------------
\* Every variable keeps its type, whatever the services answer, and the cache never
\* names an audio that its url does not lead to.
THEOREM TypeCorrect == Spec => [](TypeOK /\ cache.hash = cache.upload)
<1>1. IInv => TypeOK /\ cache.hash = cache.upload
  BY DEF IInv
<1> QED BY <1>1, InvariantHolds, PTL

\* AssemblyAIProvider._audio_url takes a cached upload only of the same audio: no run
\* submits a job about another run's, however their steps on the shared cache mix.
THEOREM JobsAreOfOwnAudio == Spec => []OwnAudio
<1>1. IInv => OwnAudio
  BY DEF IInv, CallInv, OwnJobs, OwnAudio
<1> QED BY <1>1, InvariantHolds, PTL

\* A transcript is taken of the last job that the call created, which the service has
\* finished, although creations may be lost and repeated.
THEOREM CandidatesAreFinished == Spec => []CandidateOfFinishedJob
<1>1. IInv => CandidateOfFinishedJob
  <2> SUFFICES ASSUME IInv, NEW c \in Calls, At(c, "done"), c[2] # "deepgram"
               PROVE  /\ call[c].job = Len(jobs[c]) /\ call[c].job # 0
                      /\ jobs[c][call[c].job].state = "completed"
    BY DEF CandidateOfFinishedJob
  <2> QED BY DEF IInv, CallInv, OwnJobs
<1> QED BY <1>1, InvariantHolds, PTL

\* The retries of perform_with_retries and the polls of poll_until_terminal together
\* send no more than this many requests, and create no more jobs than attempts.
THEOREM RequestsWithinBudget == Spec => []RequestBudget
<1>1. ASSUME IInv, NEW c \in Calls
      PROVE  /\ call[c].sent <= CASE c[2] = "deepgram" -> MaxAttempts
                                  [] OTHER -> 2 * MaxAttempts + MaxPolls * MaxAttempts
             /\ Len(jobs[c]) <= MaxAttempts
  <2>1. call[c] \in State /\ CallInv(c)
    BY <1>1 DEF IInv, TypeOK
  <2>2. /\ MaxAttempts \in Nat /\ MaxPolls \in Nat /\ call[c].sent \in Nat
        /\ call[c].attempt \in Nat /\ call[c].attempt <= MaxAttempts
        /\ Rounds(MaxAttempts) \in Nat /\ Rounds(MaxAttempts) = MaxPolls * MaxAttempts
    BY <2>1, Constants, Products DEF State, Rounds
  <2>3. call[c].sent <= IF c[2] = "deepgram" THEN MaxAttempts
                                            ELSE 2 * MaxAttempts + Rounds(MaxAttempts)
    <3>1. CASE call[c].pc \in Requests
      BY <1>1, <2>2, <3>1, Affordable
    <3>2. CASE call[c].pc \in Ended
      BY <2>1, <3>2 DEF CallInv, Budget
    <3>3. CASE call[c].pc \in {"off", "cache", "store"}
      <4>1. call[c].sent <= MaxAttempts
        BY <2>1, <2>2, <3>3 DEF CallInv, Budget, At
      <4> QED BY <2>2, <4>1
    <3> QED BY <2>1, <3>1, <3>2, <3>3 DEF State, Steps
  <2> QED BY <2>1, <2>2, <2>3 DEF CallInv, OwnJobs
<1>2. IInv => RequestBudget
  BY <1>1 DEF RequestBudget
<1> QED BY <1>2, InvariantHolds, PTL
-----------------------------------------------------------------------------
\* A service that was not configured is never asked, and a verdict is given only once
\* every configured service has come to its end.
VerdictInv ==
  /\ IInv
  /\ \A c \in Calls : c[2] \notin Range(adapters[c[1]]) => At(c, "off")
  /\ \A r \in Runs : stage[r] # "open" =>
       \A i \in DOMAIN adapters[r] : call[<<r, adapters[r][i]>>].pc \in Ended
  /\ StageVerdict

\* The services of a run that have succeeded are among those configured.
Good(r) == {s \in Services : <<r, s>> \in Calls /\ call[<<r, s>>].pc = "done"}

LEMMA GoodConfigured ==
  ASSUME adapters \in Settings, NEW r \in Runs,
         \A c \in Calls : c[2] \notin Range(adapters[c[1]]) => At(c, "off")
  PROVE  Good(r) = {adapters[r][i] :
                      i \in {n \in DOMAIN adapters[r] : call[<<r, adapters[r][n]>>].pc = "done"}}
<1>1. adapters[r] \in Seq(Services)
  BY StageAssumption
<1>2. ASSUME NEW s \in Good(r)
      PROVE  \E i \in DOMAIN adapters[r] : adapters[r][i] = s
  <2>1. <<r, s>> \in Calls /\ call[<<r, s>>].pc = "done"
    BY DEF Good
  <2>2. <<r, s>>[1] = r /\ <<r, s>>[2] = s
    OBVIOUS
  <2>3. s \in Range(adapters[r])
    BY <2>1, <2>2 DEF At
  <2> QED BY <2>3 DEF Range
<1>3. \A i \in DOMAIN adapters[r] : adapters[r][i] \in Services /\ <<r, adapters[r][i]>> \in Calls
  BY <1>1 DEF Calls
<1> QED BY <1>2, <1>3 DEF Good

\* The runs whose calls, stage and records stay as they are keep their verdict.
LEMMA VerdictStays ==
  ASSUME NEW r \in Runs,
         stage[r] # "open" =>
           /\ stage[r] = "failed" <=> Good(r) = {}
           /\ staged[r] = {<<s, s>> : s \in Good(r)}
           /\ facts[r] = [i \in DOMAIN adapters[r] |->
                            [service |-> adapters[r][i], ok |-> adapters[r][i] \in Good(r)]],
         adapters' = adapters, stage'[r] = stage[r], staged'[r] = staged[r],
         facts'[r] = facts[r], stage[r] # "open" => Good(r)' = Good(r)
  PROVE  stage'[r] # "open" =>
           /\ stage'[r] = "failed" <=> Good(r)' = {}
           /\ staged'[r] = {<<s, s>> : s \in Good(r)'}
           /\ facts'[r] = [i \in DOMAIN adapters'[r] |->
                             [service |-> adapters'[r][i], ok |-> adapters'[r][i] \in Good(r)']]
OBVIOUS

LEMMA VerdictInit == Init => VerdictInv
<1> SUFFICES ASSUME Init PROVE VerdictInv
  OBVIOUS
<1>1. \A r \in Runs : stage[r] = "open"
  BY DEF Init
<1>2. \A c \in Calls : call[c].pc = First(c)
  BY DEF Init
<1>3. \A c \in Calls : c[2] \notin Range(adapters[c[1]]) => First(c) = "off"
  BY DEF First
<1>4. StageVerdict
  BY <1>1 DEF StageVerdict
<1> QED BY <1>1, <1>2, <1>3, <1>4, InitInv DEF VerdictInv, At

LEMMA VerdictNext == VerdictInv /\ [Next]_vars => VerdictInv'
<1> SUFFICES ASSUME VerdictInv, [Next]_vars PROVE VerdictInv'
  OBVIOUS
<1>1. IInv /\ IInv' /\ adapters \in Settings
  BY NextInv DEF VerdictInv, IInv, TypeOK
<1>2. \A r \in Runs : stage[r] # "open" =>
        /\ stage[r] = "failed" <=> Good(r) = {}
        /\ staged[r] = {<<s, s>> : s \in Good(r)}
        /\ facts[r] = [i \in DOMAIN adapters[r] |->
                         [service |-> adapters[r][i], ok |-> adapters[r][i] \in Good(r)]]
  BY DEF VerdictInv, StageVerdict, Good
<1>3. ASSUME \A r \in Runs : stage'[r] # "open" =>
               /\ stage'[r] = "failed" <=> Good(r)' = {}
               /\ staged'[r] = {<<s, s>> : s \in Good(r)'}
               /\ facts'[r] = [i \in DOMAIN adapters'[r] |->
                                 [service |-> adapters'[r][i], ok |-> adapters'[r][i] \in Good(r)']]
      PROVE  StageVerdict'
  BY <1>3 DEF StageVerdict, Good
<1>4. ASSUME NEW c \in Calls, Step(c) PROVE VerdictInv'
  <2>1. /\ call[c].pc \in Steps /\ \A d \in Calls \ {c} : call'[d] = call[d]
        /\ UNCHANGED <<adapters, stage, staged, facts>>
    BY <1>1, <1>4, StepMoves
  <2>2. /\ \A d \in Calls : d[2] \notin Range(adapters[d[1]]) => d # c
        /\ \A r \in Runs : stage[r] # "open" =>
             \A i \in DOMAIN adapters[r] : <<r, adapters[r][i]>> # c
    BY <2>1 DEF VerdictInv, At, Steps, Requests, Ended
  <2>3. \A d \in Calls : d[2] \notin Range(adapters'[d[1]]) => At(d, "off")'
    BY <2>1, <2>2 DEF VerdictInv, At
  <2>4. \A r \in Runs : \A i \in DOMAIN adapters[r] : <<r, adapters[r][i]>> \in Calls
    BY <1>1, StageAssumption DEF Calls
  <2>5. \A r \in Runs : stage'[r] # "open" =>
          \A i \in DOMAIN adapters'[r] : call'[<<r, adapters'[r][i]>>].pc \in Ended
    BY <2>1, <2>2, <2>4 DEF VerdictInv
  <2>6. ASSUME NEW r \in Runs, stage[r] # "open" PROVE Good(r)' = Good(r)
    <3>1. ASSUME NEW s \in Services, <<r, s>> \in Calls PROVE call'[<<r, s>>] = call[<<r, s>>]
      <4>1. <<r, s>>[1] = r /\ <<r, s>>[2] = s
        OBVIOUS
      <4>2. CASE s \in Range(adapters[r])
        BY <2>1, <2>2, <2>6, <3>1, <4>2 DEF Range
      <4>3. CASE s \notin Range(adapters[r])
        BY <2>1, <2>2, <3>1, <4>1, <4>3
      <4> QED BY <4>2, <4>3
    <3> QED BY <3>1 DEF Good
  <2>7. StageVerdict'
    BY <1>2, <1>3, <2>1, <2>6, VerdictStays
  <2> QED BY <1>1, <2>3, <2>5, <2>7 DEF VerdictInv
<1>5. CASE UNCHANGED <<adapters, call, stage, staged, facts>>
  <2>1. \A r \in Runs : Good(r)' = Good(r)
    BY <1>5 DEF Good
  <2>2. StageVerdict'
    BY <1>2, <1>3, <1>5, <2>1, VerdictStays
  <2>3. /\ \A c \in Calls : c[2] \notin Range(adapters'[c[1]]) => At(c, "off")'
        /\ \A r \in Runs : stage'[r] # "open" =>
             \A i \in DOMAIN adapters'[r] : call'[<<r, adapters'[r][i]>>].pc \in Ended
    BY <1>5 DEF VerdictInv, At
  <2> QED BY <1>1, <2>2, <2>3 DEF VerdictInv
<1>6. ASSUME NEW r \in Runs, Gather(r) PROVE VerdictInv'
  <2> DEFINE Kept == {i \in DOMAIN adapters[r] : call[<<r, adapters[r][i]>>].pc = "done"}
             newFacts == [i \in DOMAIN adapters[r] |->
                            [service |-> adapters[r][i],
                             ok |-> call[<<r, adapters[r][i]>>].pc = "done"]]
             newStaged == {<<adapters[r][i], adapters[r][i]>> : i \in Kept}
  <2>1. /\ \A i \in DOMAIN adapters[r] : call[<<r, adapters[r][i]>>].pc \in Ended
        /\ facts' = [facts EXCEPT ![r] = newFacts]
        /\ staged' = [staged EXCEPT ![r] = newStaged]
        /\ stage' = [stage EXCEPT ![r] = IF Kept = {} THEN "failed" ELSE "staged"]
        /\ UNCHANGED <<adapters, call, cache, jobs, faults>>
    BY <1>1, <1>6, GatherFacts
  <2>2. Good(r) = {adapters[r][i] : i \in Kept}
    BY <1>1, GoodConfigured DEF VerdictInv
  <2>3. \A i \in DOMAIN adapters[r] :
          call[<<r, adapters[r][i]>>].pc = "done" <=> adapters[r][i] \in Good(r)
    <3>1. adapters[r] \in Seq(Services)
      BY <1>1, StageAssumption
    <3>2. \A i \in DOMAIN adapters[r] : adapters[r][i] \in Services
      BY <3>1
    <3>3. \A i \in DOMAIN adapters[r] : <<r, adapters[r][i]>> \in Calls
      BY <3>2 DEF Calls
    <3> QED BY <3>2, <3>3 DEF Good
  <2>4. /\ Kept = {} <=> Good(r) = {}
        /\ newStaged = {<<s, s>> : s \in Good(r)}
        /\ newFacts = [i \in DOMAIN adapters[r] |->
                         [service |-> adapters[r][i], ok |-> adapters[r][i] \in Good(r)]]
    <3>1. Kept = {} <=> Good(r) = {}
      BY <2>2
    <3>2. newStaged = {<<s, s>> : s \in Good(r)}
      BY <2>2
    <3>3. newFacts = [i \in DOMAIN adapters[r] |->
                        [service |-> adapters[r][i], ok |-> adapters[r][i] \in Good(r)]]
      BY <2>3
    <3> QED BY <3>1, <3>2, <3>3
  <2> HIDE DEF Kept, newFacts, newStaged
  <2>5. /\ \A q \in Runs : Good(q)' = Good(q)
        /\ \A q \in Runs \ {r} : /\ stage'[q] = stage[q] /\ staged'[q] = staged[q]
                                 /\ facts'[q] = facts[q]
        /\ stage'[r] = (IF Kept = {} THEN "failed" ELSE "staged")
        /\ staged'[r] = newStaged /\ facts'[r] = newFacts
    BY <1>1, <2>1 DEF Good, IInv, TypeOK
  <2>6. ASSUME NEW q \in Runs
        PROVE  stage'[q] # "open" =>
                 /\ stage'[q] = "failed" <=> Good(q)' = {}
                 /\ staged'[q] = {<<s, s>> : s \in Good(q)'}
                 /\ facts'[q] = [i \in DOMAIN adapters'[q] |->
                                   [service |-> adapters'[q][i],
                                    ok |-> adapters'[q][i] \in Good(q)']]
    <3>1. CASE q = r
      BY <2>1, <2>4, <2>5, <3>1
    <3>2. CASE q # r
      BY <1>2, <2>1, <2>5, <3>2, VerdictStays
    <3> QED BY <3>1, <3>2
  <2>7. /\ \A c \in Calls : c[2] \notin Range(adapters'[c[1]]) => At(c, "off")'
        /\ \A q \in Runs : stage'[q] # "open" =>
             \A i \in DOMAIN adapters'[q] : call'[<<q, adapters'[q][i]>>].pc \in Ended
    BY <2>1, <2>5 DEF VerdictInv, At
  <2> QED BY <1>1, <1>3, <2>6, <2>7 DEF VerdictInv
<1>7. ASSUME NEW c \in Calls, JobEnds(c) PROVE VerdictInv'
  BY <1>5, <1>7 DEF JobEnds
<1> QED BY <1>4, <1>5, <1>6, <1>7 DEF Next, vars

\* transcription stages the transcripts of exactly the services that succeeded, each
\* under its own name and in whatever order the threads return, and fails only when
\* there is none.
THEOREM VerdictIsExact == Spec => []StageVerdict
<1>1. VerdictInv => StageVerdict
  BY DEF VerdictInv
<1> QED BY <1>1, VerdictInit, VerdictNext, PTL DEF Spec
=============================================================================
