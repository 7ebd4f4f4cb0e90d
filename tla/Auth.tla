-------------------------------- MODULE Auth --------------------------------
(***************************************************************************)
(* AuthService with UsersService and the mail queue: a registration saves  *)
(* the user, stores a one-time code and a counter of wrong guesses under   *)
(* TTLs of their own in Redis, and queues the code to be mailed; a         *)
(* verification reads both keys and acts on what it read. Requests of any  *)
(* number of instances overlap; nothing spans PostgreSQL and Redis.        *)
(***************************************************************************)
EXTENDS Integers, FiniteSets

CONSTANTS
  Spellings,      \* e-mail addresses as clients write them
  Canonical,      \* of each spelling, the trimmed lower-case one
  Registrations,  \* requests of POST /auth/register; also the codes they generate
  Visitors,       \* clients of POST /auth/verify, over and over, one request at a time
  MaxAttempts,    \* 5
  MailAttempts,   \* the attempts of a job of the mail queue
  Faults,         \* which failures a run admits, a subset of FaultKinds
  MaxFaults       \* bound on the failures of a run

FaultKinds ==
  { "db",     \* a statement of PostgreSQL fails, with or without effect
    "redis",  \* a command of Redis fails, with or without effect
    "smtp",   \* the mail server throws, whether or not the mail goes out
    "crash" } \* an instance dies

NoCode == "none"
NoSpelling == "none"

ASSUME AuthAssumption ==
  /\ Canonical \in [Spellings -> Spellings]
  /\ \A s \in Spellings : Canonical[Canonical[s]] = Canonical[s]
  /\ IsFiniteSet(Visitors) /\ NoCode \notin Registrations /\ NoSpelling \notin Spellings
  /\ MaxAttempts \in Nat \ {0} /\ MailAttempts \in Nat \ {0} /\ MaxFaults \in Nat

VARIABLES
  account,    \* the table users, by e-mail: free, unverified or verified
  \* in Redis, of each user
  otp,        \* otp:<id>, the registration whose code is stored, or NoCode
  attempts,   \* otp:attempts:<id>
  \* of each registration
  at, asked,
  \* of each visitor
  pc, visited,
  \* of each job of the mail queue
  job, stalls, tries,
  \* what has been mailed, which codes have outlived their TTL, wrong guesses
  \* compared with the code of a user, failures so far
  mailed, lapsed, wrong, faults

redis == <<otp, attempts>>
registration == <<at, asked>>
visitor == <<pc, visited>>
mail == <<job, stalls, tries, mailed>>
vars == <<account, redis, registration, visitor, mail, lapsed, wrong, faults>>

NoAttempts == [count |-> 0, life |-> "absent"]

\* How a registration ends: "codeless" if its user was saved and its code was not, and
\* "failed" in any other way that is not the success or the refusal it reports.
Ended == {"done", "refused", "failed", "codeless"}

Init ==
  /\ account = [s \in Spellings |-> "free"]
  /\ otp = [s \in Spellings |-> NoCode]
  /\ attempts = [s \in Spellings |-> NoAttempts]
  /\ at = [r \in Registrations |-> "idle"]
  /\ asked = [r \in Registrations |-> NoSpelling]
  /\ pc = [v \in Visitors |-> "idle"]
  /\ visited = [v \in Visitors |-> NoSpelling]
  /\ job = [r \in Registrations |-> "none"]
  /\ stalls = [r \in Registrations |-> 0]
  /\ tries = [r \in Registrations |-> 0]
  /\ mailed = {}
  /\ lapsed = {}
  /\ wrong = [s \in Spellings |-> 0]
  /\ faults = 0

\* One more failure, of a kind the run admits.
Fault(kind) == kind \in Faults /\ faults < MaxFaults /\ faults' = faults + 1

----------------------------------------------------------------------------
(* register. *)

\* Seeded bug: the transform is left out of RegisterDto.
EmailAsWritten(r) == asked[r]

\* The address a registration is about: RegisterDto trims and lower-cases it.
Email(r) == Canonical[asked[r]]

Move(r, l) == at' = [at EXCEPT ![r] = l] /\ UNCHANGED asked

\* findByEmail finds nobody; the password is hashed next.
LookForTaken(r) ==
  /\ at[r] = "idle"
  /\ \E s \in Spellings : asked' = [asked EXCEPT ![r] = s]
  /\ \/ /\ at' = [at EXCEPT ![r] =
                    IF account[Email(r)'] = "free" THEN "save" ELSE "refused"]
        /\ UNCHANGED faults
     \/ Fault("db") /\ at' = [at EXCEPT ![r] = "failed"]
  /\ UNCHANGED <<account, redis, visitor, mail, lapsed, wrong>>

Insert(a) == account' = [account EXCEPT ![a] = "unverified"]

\* Seeded bug: an upsert.
SaveUserAnyway(r) ==
  /\ at[r] = "save"
  /\ Insert(Email(r)) /\ Move(r, "setOtp")
  /\ UNCHANGED <<redis, visitor, mail, lapsed, wrong, faults>>

\* INSERT, against the unique index on the address.
SaveUser(r) ==
  LET a == Email(r) IN
  /\ at[r] = "save"
  /\ \/ account[a] = "free" /\ Insert(a) /\ Move(r, "setOtp") /\ UNCHANGED faults
     \/ account[a] # "free" /\ Move(r, "failed") /\ UNCHANGED <<account, faults>>
     \/ /\ account[a] = "free" /\ Fault("db")
        /\ \/ Insert(a) /\ Move(r, "codeless")
           \/ UNCHANGED account /\ Move(r, "failed")
  /\ UNCHANGED <<redis, visitor, mail, lapsed, wrong>>

\* The code is generated and hashed; its hash is stored under a TTL of 600 s.
SetOtp(r) ==
  LET Stored == otp' = [otp EXCEPT ![Email(r)] = r] IN
  /\ at[r] = "setOtp"
  /\ \/ Stored /\ Move(r, "setAttempts") /\ UNCHANGED faults
     \/ /\ Fault("redis")
        /\ \/ Stored /\ Move(r, "failed")
           \/ UNCHANGED otp /\ Move(r, "codeless")
  /\ UNCHANGED <<account, attempts, visitor, mail, lapsed, wrong>>

\* The counter is set to 0 for 900 s.
SetAttempts(r) ==
  LET Reset == attempts' = [attempts EXCEPT ![Email(r)] = [count |-> 0, life |-> "ttl"]] IN
  /\ at[r] = "setAttempts"
  /\ \/ Reset /\ Move(r, "queue") /\ UNCHANGED faults
     \/ Fault("redis") /\ (Reset \/ UNCHANGED attempts) /\ Move(r, "failed")
  /\ UNCHANGED <<account, otp, visitor, mail, lapsed, wrong>>

\* The job is added without the request waiting for it: its failure is logged, and the
\* client is told that the mail was sent.
SendOtp(r) ==
  LET Added == job' = [job EXCEPT ![r] = "waiting"] IN
  /\ at[r] = "queue"
  /\ \/ Added /\ UNCHANGED faults
     \/ Fault("redis") /\ (Added \/ UNCHANGED job)
  /\ Move(r, "done")
  /\ UNCHANGED <<account, redis, visitor, stalls, tries, mailed, lapsed, wrong>>

CrashRegistration(r) ==
  /\ at[r] \notin Ended \cup {"idle"}
  /\ Fault("crash")
  /\ Move(r, IF at[r] = "setOtp" THEN "codeless" ELSE "failed")
  /\ UNCHANGED <<account, redis, visitor, mail, lapsed, wrong>>

----------------------------------------------------------------------------
(* The mail queue, which BullMQ keeps in Redis, and MailProcessor. *)

SendMail(r) ==
  /\ job[r] = "waiting"
  /\ mailed' = mailed \cup {r}
  /\ job' = [job EXCEPT ![r] = "completed"]
  /\ UNCHANGED <<account, redis, registration, visitor, stalls, tries, lapsed, wrong, faults>>

\* Seeded bug: the error is logged and not thrown again.
SendMailFailsQuietly(r) ==
  /\ job[r] = "waiting" /\ Fault("smtp")
  /\ job' = [job EXCEPT ![r] = "completed"]
  /\ UNCHANGED <<account, redis, registration, visitor, stalls, tries, mailed, lapsed, wrong>>

\* sendMail throws, and the processor throws on: another attempt, or no more.
SendMailFails(r) ==
  /\ job[r] = "waiting" /\ Fault("smtp")
  /\ mailed' \in {mailed, mailed \cup {r}}
  /\ tries' = [tries EXCEPT ![r] = @ + 1]
  /\ job' = [job EXCEPT ![r] = IF tries'[r] = MailAttempts THEN "failed" ELSE "waiting"]
  /\ UNCHANGED <<account, redis, registration, visitor, stalls, lapsed, wrong>>

\* The worker dies with the job: BullMQ gives a stalled job to a worker once more.
CrashWorker(r) ==
  /\ job[r] = "waiting" /\ Fault("crash")
  /\ mailed' \in {mailed, mailed \cup {r}}
  /\ stalls' = [stalls EXCEPT ![r] = @ + 1]
  /\ job' = [job EXCEPT ![r] = IF stalls'[r] > 1 THEN "failed" ELSE "waiting"]
  /\ UNCHANGED <<account, redis, registration, visitor, tries, lapsed, wrong>>

----------------------------------------------------------------------------
(* verifyOtp. *)

Step(v, l) ==
  /\ pc' = [pc EXCEPT ![v] = l]
  /\ visited' = IF l = "idle" THEN [visited EXCEPT ![v] = NoSpelling] ELSE visited

\* The address is looked for as it is written; nobody, or a verified user, ends the
\* request.
LookForUser(v) ==
  /\ pc[v] = "idle"
  /\ \E s \in Spellings :
       /\ account[s] = "unverified"
       /\ visited' = [visited EXCEPT ![v] = s]
  /\ pc' = [pc EXCEPT ![v] = "getOtp"]
  /\ UNCHANGED <<account, redis, registration, mail, lapsed, wrong, faults>>

\* Without a code the request ends; the counter is read first, for nothing.
GetOtp(v) ==
  /\ pc[v] = "getOtp"
  /\ Step(v, IF otp[visited[v]] = NoCode THEN "idle" ELSE "getAttempts")
  /\ UNCHANGED <<account, redis, registration, mail, lapsed, wrong, faults>>

\* Seeded bug: the last of the attempts is not granted.
ExhaustedEarly(a) == attempts[a].count + 1 >= MaxAttempts

Exhausted(a) == attempts[a].count >= MaxAttempts

GetAttempts(v) ==
  /\ pc[v] = "getAttempts"
  /\ Step(v, IF Exhausted(visited[v]) THEN "idle" ELSE "compare")
  /\ UNCHANGED <<account, redis, registration, mail, lapsed, wrong, faults>>

\* Seeded bug: the code is deleted as soon as it has been matched.
CompareAndDelete(v) ==
  /\ pc[v] = "compare"
  /\ otp' = [otp EXCEPT ![visited[v]] = NoCode]
  /\ Step(v, "update")
  /\ UNCHANGED <<account, attempts, registration, mail, lapsed, wrong, faults>>

\* The client's code is compared with the one that was read.
Compare(v) ==
  /\ pc[v] = "compare"
  /\ \/ Step(v, "update") /\ UNCHANGED wrong
     \/ Step(v, "incr") /\ wrong' = [wrong EXCEPT ![visited[v]] = @ + 1]
  /\ UNCHANGED <<account, redis, registration, mail, lapsed, faults>>

\* INCR keeps the TTL of the key; a key that is not there begins at 0, without a TTL.
Incremented(a) ==
  [count |-> attempts[a].count + 1,
   life |-> IF attempts[a].life = "absent" THEN "forever" ELSE attempts[a].life]

IncrAttempts(v) ==
  LET a == visited[v]
      Counted == attempts' = [attempts EXCEPT ![a] = Incremented(a)] IN
  /\ pc[v] = "incr"
  /\ \/ Counted /\ UNCHANGED faults
     \/ Fault("redis") /\ (Counted \/ UNCHANGED attempts)
  /\ Step(v, "idle")
  /\ UNCHANGED <<account, otp, registration, mail, lapsed, wrong>>

UpdateUser(v) ==
  LET Verified == account' = [account EXCEPT ![visited[v]] = "verified"] IN
  /\ pc[v] = "update"
  /\ \/ Verified /\ Step(v, "delOtp") /\ UNCHANGED faults
     \/ Fault("db") /\ (Verified \/ UNCHANGED account) /\ Step(v, "idle")
  /\ UNCHANGED <<redis, registration, mail, lapsed, wrong>>

DelOtp(v) ==
  LET Deleted == otp' = [otp EXCEPT ![visited[v]] = NoCode] IN
  /\ pc[v] = "delOtp"
  /\ \/ Deleted /\ Step(v, "delAttempts") /\ UNCHANGED faults
     \/ Fault("redis") /\ (Deleted \/ UNCHANGED otp) /\ Step(v, "idle")
  /\ UNCHANGED <<account, attempts, registration, mail, lapsed, wrong>>

DelAttempts(v) ==
  LET Deleted == attempts' = [attempts EXCEPT ![visited[v]] = NoAttempts] IN
  /\ pc[v] = "delAttempts"
  /\ \/ Deleted /\ UNCHANGED faults
     \/ Fault("redis") /\ (Deleted \/ UNCHANGED attempts)
  /\ Step(v, "idle")
  /\ UNCHANGED <<account, otp, registration, mail, lapsed, wrong>>

\* A read fails, or the instance dies.
VisitFails(v) ==
  /\ \/ pc[v] \in {"getOtp", "getAttempts"} /\ Fault("redis")
     \/ pc[v] # "idle" /\ Fault("crash")
  /\ Step(v, "idle")
  /\ UNCHANGED <<account, redis, registration, mail, lapsed, wrong>>

----------------------------------------------------------------------------
(* Time. *)

ExpireOtp(a) ==
  /\ otp[a] # NoCode
  /\ otp' = [otp EXCEPT ![a] = NoCode]
  /\ lapsed' = lapsed \cup {a}
  /\ UNCHANGED <<account, attempts, registration, visitor, mail, wrong, faults>>

\* Seeded bug: the counter has a shorter TTL than the code.
ExpireAttemptsFirst(a) ==
  /\ attempts[a].life = "ttl"
  /\ attempts' = [attempts EXCEPT ![a] = NoAttempts]
  /\ UNCHANGED <<account, otp, registration, visitor, mail, lapsed, wrong, faults>>

\* The counter, set later and for 300 s longer, outlives the code and every request
\* that has read it.
ExpireAttempts(a) ==
  /\ attempts[a].life = "ttl" /\ otp[a] = NoCode
  /\ \A v \in Visitors : visited[v] = a => pc[v] \notin {"getAttempts", "compare", "incr"}
  /\ attempts' = [attempts EXCEPT ![a] = NoAttempts]
  /\ UNCHANGED <<account, otp, registration, visitor, mail, lapsed, wrong, faults>>

----------------------------------------------------------------------------
Register(r) ==
  LookForTaken(r) \/ SaveUser(r) \/ SetOtp(r) \/ SetAttempts(r) \/ SendOtp(r)
    \/ CrashRegistration(r)
Mail(r) == SendMail(r) \/ SendMailFails(r) \/ CrashWorker(r)
VerifyOtp(v) ==
  LookForUser(v) \/ GetOtp(v) \/ GetAttempts(v) \/ Compare(v) \/ IncrAttempts(v)
    \/ UpdateUser(v) \/ DelOtp(v) \/ DelAttempts(v) \/ VisitFails(v)

Next ==
  \/ \E r \in Registrations : Register(r) \/ Mail(r)
  \/ \E v \in Visitors : VerifyOtp(v)
  \/ \E a \in Spellings : ExpireOtp(a) \/ ExpireAttempts(a)

\* Some worker is up, and takes one job or another while there are any.
Fairness == WF_vars(\E r \in Registrations : Mail(r))

Spec == Init /\ [][Next]_vars /\ Fairness

----------------------------------------------------------------------------
(* Properties. *)

Accounts == {"free", "unverified", "verified"}

\* Every variable has the type its row, key or local has, and rows and keys exist for
\* canonical addresses only.
TypeOK ==
  /\ account \in [Spellings -> Accounts]
  /\ otp \in [Spellings -> Registrations \cup {NoCode}]
  /\ attempts \in [Spellings -> [count : Nat, life : {"absent", "ttl", "forever"}]]
  /\ at \in [Registrations ->
       Ended \cup {"idle", "save", "setOtp", "setAttempts", "queue"}]
  /\ asked \in [Registrations -> Spellings \cup {NoSpelling}]
  /\ pc \in [Visitors -> {"idle", "getOtp", "getAttempts", "compare", "incr", "update",
                          "delOtp", "delAttempts"}]
  /\ visited \in [Visitors -> Spellings \cup {NoSpelling}]
  /\ job \in [Registrations -> {"none", "waiting", "completed", "failed"}]
  /\ stalls \in [Registrations -> Nat] /\ tries \in [Registrations -> 0..MailAttempts]
  /\ mailed \subseteq Registrations /\ lapsed \subseteq Spellings
  /\ wrong \in [Spellings -> Nat] /\ faults \in 0..MaxFaults
  /\ \A s \in Spellings :
       account[s] # "free" \/ otp[s] # NoCode \/ wrong[s] > 0 => Canonical[s] = s

\* "Email already exists": however registrations overlap and however they spell the
\* address, one of them at most is told that a mail was sent.
OneRegistrationPerAddress ==
  \A r, q \in Registrations :
    at[r] = "done" /\ at[q] = "done" /\ Canonical[asked[r]] = Canonical[asked[q]] => r = q

\* "should throw if rate limited (5 attempts)": clients who guess at the same time
\* overshoot the limit by the requests of all but one of them, and a guess whose INCR is
\* lost is not counted; the counter is set after the code, so it may start twice.
GuessesBounded ==
  \A a \in Spellings :
    account[a] = "unverified" =>
      wrong[a] <= 2 * (MaxAttempts + Cardinality(Visitors) - 1) + faults

\* Until its user is verified or its TTL is over, a code that was mailed is the one that
\* is stored, and it is refused only once so many wrong guesses have been made at it:
\* "should throw if rate limited (5 attempts)", by whomever, even for the right code.
MailedCodeWorks ==
  \A r \in mailed :
    LET a == Email(r) IN
    account[a] = "unverified" /\ a \notin lapsed =>
      /\ otp[a] = r
      /\ Exhausted(a) => wrong[a] >= MaxAttempts

\* What VerifyOtp asks of an address before it compares a code.
Accepting(a) == otp[a] # NoCode /\ ~Exhausted(a)

\* A user who is not verified, and whose code would not be looked at, is so for one of
\* four reasons: the code has had its TTL, there were as many wrong guesses as are
\* allowed, or the registration that made the user has yet to store the code or was cut
\* short before it had. No request that overlaps and no other failure takes it away.
ShutOutForAReason ==
  \A a \in Spellings :
    account[a] = "unverified" /\ ~Accepting(a) =>
      \/ a \in lapsed
      \/ wrong[a] >= MaxAttempts
      \/ \E r \in Registrations :
           asked[r] # NoSpelling /\ Email(r) = a /\ at[r] \in {"setOtp", "codeless"}

\* "attempts: 3": whenever mails are queued, there comes a time at which every one of
\* them has gone out or was given up by the queue.
MailSettles ==
  (\E r \in Registrations : job[r] = "waiting")
    ~> \A r \in Registrations : job[r] # "none" => r \in mailed \/ job[r] = "failed"
=============================================================================
