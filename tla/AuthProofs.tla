----------------------------- MODULE AuthProofs -----------------------------
(***************************************************************************)
(* What TLAPS proves of Auth, for any addresses, requests, limits and      *)
(* failures.                                                               *)
(***************************************************************************)
EXTENDS Auth, FiniteSetTheorems, TLAPS

USE DEF vars, redis, registration, visitor, mail

\* Where a registration has made its user.
Made == {"setOtp", "setAttempts", "queue", "done"}

\* The registration that made a user is the only one at work on it, and the stored code
\* is its own.
OwnerOK(r) ==
  /\ at[r] # "idle" => asked[r] \in Spellings
  /\ r \in mailed \/ job[r] # "none" => at[r] = "done"
  /\ job[r] \in {"none", "waiting"} => tries[r] < MailAttempts
  /\ at[r] \in Made =>
       /\ account[Email(r)] # "free"
       /\ otp[Email(r)] \in {r, NoCode}
       /\ \A q \in Registrations : at[q] \in Made /\ Email(q) = Email(r) => q = r
  /\ at[r] \in Made \ {"setOtp"} /\ account[Email(r)] = "unverified" =>
       otp[Email(r)] = r \/ Email(r) \in lapsed

OwnerInv == \A r \in Registrations : OwnerOK(r)

\* A user who is not verified has a code, had one for its whole TTL, or comes from a
\* registration that has yet to store it or was cut short before it had.
CodeKept ==
  \A a \in Spellings :
    account[a] = "unverified" =>
      \/ otp[a] # NoCode \/ a \in lapsed
      \/ \E r \in Registrations :
           asked[r] # NoSpelling /\ Email(r) = a /\ at[r] \in {"setOtp", "codeless"}

\* Nothing belongs to an address without a user, and only a verified user's keys are
\* deleted.
UserInv ==
  /\ CodeKept
  /\ \A a \in Spellings : account[a] = "free" =>
       otp[a] = NoCode /\ wrong[a] = 0 /\ attempts[a] = NoAttempts
  /\ \A v \in Visitors :
       /\ pc[v] # "idle" => visited[v] \in Spellings /\ account[visited[v]] # "free"
       /\ pc[v] = "idle" => visited[v] = NoSpelling
       /\ pc[v] \in {"delOtp", "delAttempts"} => account[visited[v]] = "verified"

AuthInv == TypeOK /\ OwnerInv /\ UserInv

----------------------------------------------------------------------------
\* A registration is about a canonical address.
LEMMA EmailIsCanonical ==
  ASSUME NEW r \in Registrations, asked[r] \in Spellings
  PROVE  Email(r) \in Spellings /\ Canonical[Email(r)] = Email(r)
BY AuthAssumption DEF Email

\* The look for the address, which takes nothing but the spelling asked for.
LEMMA LookForTakenKeeps ==
  ASSUME AuthInv, NEW r \in Registrations, LookForTaken(r)
  PROVE  AuthInv'
<1> USE DEF AuthInv
<1>1. PICK s \in Spellings : asked' = [asked EXCEPT ![r] = s]
  BY DEF LookForTaken
<1>2. PICK l \in {"save", "refused", "failed"} : at' = [at EXCEPT ![r] = l]
  BY DEF LookForTaken
<1>3. /\ UNCHANGED <<account, redis, visitor, mail, lapsed, wrong>>
      /\ faults' \in 0..MaxFaults /\ at[r] = "idle"
  BY AuthAssumption DEF LookForTaken, Fault, TypeOK
<1>4. \A q \in Registrations : q # r => Email(q)' = Email(q)
  BY <1>1 DEF Email, TypeOK
<1>5. TypeOK'
  BY <1>1, <1>2, <1>3 DEF TypeOK, Ended
<1>6. OwnerInv'
  BY <1>1, <1>2, <1>3, <1>4 DEF OwnerInv, OwnerOK, TypeOK, Made
<1>7. UserInv'
  BY <1>1, <1>2, <1>3, <1>4 DEF UserInv, CodeKept, TypeOK
<1> QED BY <1>5, <1>6, <1>7

\* The INSERT of the user: the unique index lets one registration of an address through.
LEMMA SaveUserKeeps ==
  ASSUME AuthInv, NEW r \in Registrations, SaveUser(r)
  PROVE  AuthInv'
<1> USE DEF AuthInv
<1>1. at[r] = "save" /\ asked[r] \in Spellings /\ asked' = asked
  BY DEF SaveUser, OwnerInv, OwnerOK, Move
<1>2. /\ Email(r) \in Spellings /\ Canonical[Email(r)] = Email(r)
      /\ \A q : Email(q)' = Email(q)
  BY <1>1, EmailIsCanonical DEF Email
<1>3. /\ UNCHANGED <<redis, visitor, mail, lapsed, wrong>>
      /\ faults' \in 0..MaxFaults
  BY AuthAssumption DEF SaveUser, Fault, TypeOK
<1>4. CASE UNCHANGED account /\ at' = [at EXCEPT ![r] = "failed"]
  <2>1. TypeOK'
    BY <1>1, <1>3, <1>4 DEF TypeOK, Ended
  <2>2. OwnerInv'
    BY <1>1, <1>2, <1>3, <1>4 DEF OwnerInv, OwnerOK, TypeOK, Made
  <2>3. UserInv'
    BY <1>1, <1>2, <1>3, <1>4 DEF UserInv, CodeKept, TypeOK
  <2> QED BY <2>1, <2>2, <2>3
<1>5. ASSUME account[Email(r)] = "free", Insert(Email(r)),
             NEW l \in {"setOtp", "codeless"}, at' = [at EXCEPT ![r] = l]
      PROVE  AuthInv'
  <2>1. TypeOK'
    BY <1>1, <1>2, <1>3, <1>5 DEF TypeOK, Ended, Insert, Accounts
  <2>2. ASSUME NEW q \in Registrations, at[q] \in Made
        PROVE  Email(q) # Email(r) /\ asked[q] \in Spellings /\ Email(q) \in Spellings
    BY <1>5, <2>2, EmailIsCanonical DEF OwnerInv, OwnerOK, Made
  <2>3. otp[Email(r)] = NoCode
    BY <1>2, <1>5 DEF UserInv
  <2>4. account' = [account EXCEPT ![Email(r)] = "unverified"]
    BY <1>5 DEF Insert
  <2>5. r \notin mailed /\ job[r] = "none"
    BY <1>1 DEF OwnerInv, OwnerOK
  <2>6. OwnerInv'
    <3> SUFFICES ASSUME NEW q \in Registrations PROVE OwnerOK(q)'
      BY DEF OwnerInv
    <3>1. CASE q = r
      <4>1. account'[Email(r)] # "free" /\ at'[r] \in {"setOtp", "codeless"}
        BY <1>2, <1>5, <2>4 DEF TypeOK
      <4>2. \A p \in Registrations : at'[p] \in Made /\ Email(p) = Email(r) => p = r
        BY <1>5, <2>2 DEF TypeOK
      <4>3. OwnerOK(r)
        BY DEF OwnerInv
      <4> QED BY <1>1, <1>2, <1>3, <2>3, <2>5, <3>1, <4>1, <4>2, <4>3 DEF OwnerOK, Made
    <3>2. CASE q # r
      <4>1. OwnerOK(q) /\ at'[q] = at[q]
        BY <1>5, <3>2 DEF OwnerInv, TypeOK
      <4>2. at[q] \in Made => account'[Email(q)] = account[Email(q)]
        BY <2>2, <2>4 DEF TypeOK
      <4>3. ASSUME at[q] \in Made, NEW p \in Registrations, at'[p] \in Made,
                   Email(p) = Email(q)
            PROVE  p = q
        BY <1>5, <2>2, <4>1, <4>3 DEF OwnerOK, TypeOK
      <4> QED BY <1>1, <1>2, <1>3, <4>1, <4>2, <4>3 DEF OwnerOK
    <3> QED BY <3>1, <3>2
  <2>7. CodeKept'
    <3> SUFFICES ASSUME NEW a \in Spellings, account'[a] = "unverified"
                 PROVE  \/ otp'[a] # NoCode \/ a \in lapsed'
                        \/ \E q \in Registrations : asked'[q] # NoSpelling
                             /\ Email(q)' = a /\ at'[q] \in {"setOtp", "codeless"}
      BY DEF CodeKept
    <3>1. CASE a = Email(r)
      BY <1>1, <1>2, <1>5, <3>1, AuthAssumption DEF TypeOK
    <3>2. CASE a # Email(r)
      <4>1. account[a] = "unverified"
        BY <2>4, <3>2 DEF TypeOK
      <4> QED BY <1>1, <1>2, <1>3, <1>5, <4>1 DEF UserInv, CodeKept, TypeOK
    <3> QED BY <3>1, <3>2
  <2>8. UserInv'
    BY <1>1, <1>2, <1>3, <1>5, <2>4, <2>7 DEF UserInv, TypeOK
  <2> QED BY <2>1, <2>6, <2>8
<1> QED BY <1>4, <1>5 DEF SaveUser, Move

\* The SET of the code: it belongs to the one registration that owns the row.
LEMMA SetOtpKeeps ==
  ASSUME AuthInv, NEW r \in Registrations, SetOtp(r)
  PROVE  AuthInv'
<1> USE DEF AuthInv
<1>1. at[r] = "setOtp" /\ asked[r] \in Spellings /\ asked' = asked
  BY DEF SetOtp, OwnerInv, OwnerOK, Move
<1>2. /\ Email(r) \in Spellings /\ Canonical[Email(r)] = Email(r)
      /\ \A q : Email(q)' = Email(q)
  BY <1>1, EmailIsCanonical DEF Email
<1>3. /\ UNCHANGED <<account, attempts, visitor, mail, lapsed, wrong>>
      /\ faults' \in 0..MaxFaults
  BY AuthAssumption DEF SetOtp, Fault, TypeOK
<1>4. PICK l \in {"setAttempts", "failed", "codeless"} :
        /\ at' = [at EXCEPT ![r] = l]
        /\ \/ l # "codeless" /\ otp' = [otp EXCEPT ![Email(r)] = r]
           \/ l = "codeless" /\ otp' = otp
  BY DEF SetOtp, Move
<1>5. OwnerOK(r) /\ account[Email(r)] # "free"
  BY <1>1 DEF OwnerInv, OwnerOK, Made
<1>6. TypeOK'
  BY <1>1, <1>2, <1>3, <1>4, <1>5 DEF TypeOK, Ended
<1>7. OwnerInv'
  <2> SUFFICES ASSUME NEW q \in Registrations PROVE OwnerOK(q)'
    BY DEF OwnerInv
  <2>1. OwnerOK(q)
    BY DEF OwnerInv
  <2>2. CASE q = r
    BY <1>1, <1>2, <1>3, <1>4, <1>5, <2>2 DEF OwnerOK, TypeOK, Made
  <2>3. CASE q # r
    <3>1. at'[q] = at[q] /\ (at[q] \in Made => Email(q) # Email(r))
      BY <1>1, <1>4, <1>5, <2>3 DEF OwnerOK, TypeOK, Made
    <3>2. at[q] \in Made => otp'[Email(q)] = otp[Email(q)]
      <4>1. at[q] \in Made => Email(q) \in Spellings
        BY <2>1, EmailIsCanonical DEF OwnerOK, Made
      <4> QED BY <1>4, <3>1, <4>1 DEF TypeOK
    <3>3. \A p \in Registrations : at'[p] \in Made => at[p] \in Made
      BY <1>1, <1>4 DEF TypeOK, Made
    <3> QED BY <1>1, <1>2, <1>3, <2>1, <3>1, <3>2, <3>3 DEF OwnerOK
  <2> QED BY <2>2, <2>3
<1>8. UserInv'
  <2>1. CodeKept'
    BY <1>1, <1>2, <1>3, <1>4, AuthAssumption DEF UserInv, CodeKept, TypeOK
  <2>2. \A a \in Spellings : account[a] = "free" => otp'[a] = otp[a]
    BY <1>4, <1>5 DEF TypeOK
  <2> QED BY <1>1, <1>2, <1>3, <1>4, <1>5, <2>1, <2>2 DEF UserInv, TypeOK
<1> QED BY <1>6, <1>7, <1>8

\* SetAttempts, SendOtp and a crash touch neither users nor codes.
LEMMA LaterStepsKeep ==
  ASSUME AuthInv, NEW r \in Registrations,
         SetAttempts(r) \/ SendOtp(r) \/ CrashRegistration(r)
  PROVE  AuthInv'
<1> USE DEF AuthInv
<1>1. /\ at[r] \notin Ended \cup {"idle"} /\ asked[r] \in Spellings /\ asked' = asked
      /\ UNCHANGED <<account, otp, visitor, stalls, tries, mailed, lapsed, wrong>>
      /\ faults' \in 0..MaxFaults
      /\ \A q : Email(q)' = Email(q)
  BY AuthAssumption
  DEF SetAttempts, SendOtp, CrashRegistration, OwnerInv, OwnerOK, Move, Ended, Fault, TypeOK, Email
<1>2. PICK l \in {"queue", "done", "failed", "codeless"} :
        /\ at' = [at EXCEPT ![r] = l]
        /\ l \in {"queue", "done"} => at[r] \in Made \ {"setOtp"}
        /\ at[r] = "setOtp" => l = "codeless"
        /\ job' = job \/ (l = "done" /\ job' = [job EXCEPT ![r] = "waiting"])
  BY DEF SetAttempts, SendOtp, CrashRegistration, Move, Made
<1>3. /\ attempts' \in [Spellings -> [count : Nat, life : {"absent", "ttl", "forever"}]]
      /\ \A a \in Spellings : account[a] = "free" => attempts'[a] = attempts[a]
  <2>1. CASE SetAttempts(r)
    <3>1. account[Email(r)] # "free" /\ Email(r) \in Spellings
      BY <1>1, <2>1, EmailIsCanonical DEF SetAttempts, OwnerInv, OwnerOK, Made
    <3>2. \/ attempts' = attempts
          \/ attempts' = [attempts EXCEPT ![Email(r)] = [count |-> 0, life |-> "ttl"]]
      BY <2>1 DEF SetAttempts
    <3> QED BY <3>1, <3>2 DEF TypeOK
  <2>2. CASE SendOtp(r) \/ CrashRegistration(r)
    BY <2>2 DEF SendOtp, CrashRegistration, TypeOK
  <2> QED BY <2>1, <2>2
<1>4. TypeOK'
  BY <1>1, <1>2, <1>3 DEF TypeOK, Ended
<1>5. OwnerInv'
  BY <1>1, <1>2 DEF OwnerInv, OwnerOK, TypeOK, Made, Ended
<1>6. UserInv'
  <2>1. CodeKept'
    BY <1>1, <1>2, AuthAssumption DEF UserInv, CodeKept, TypeOK, Ended, Made
  <2> QED BY <1>1, <1>2, <1>3, <2>1 DEF UserInv, TypeOK
<1> QED BY <1>4, <1>5, <1>6

\* A step of the mail queue keeps the invariant of registrations and codes.
LEMMA MailKeeps ==
  ASSUME AuthInv, NEW r \in Registrations, Mail(r)
  PROVE  AuthInv'
<1> USE DEF AuthInv
<1>1. /\ UNCHANGED <<account, redis, registration, visitor, lapsed, wrong>>
      /\ faults' \in 0..MaxFaults /\ job[r] = "waiting"
      /\ \A q : Email(q)' = Email(q)
  BY AuthAssumption DEF Mail, SendMail, SendMailFails, CrashWorker, Fault, TypeOK, Email
<1>2. /\ mailed' \in {mailed, mailed \cup {r}}
      /\ \E l \in {"waiting", "completed", "failed"} : job' = [job EXCEPT ![r] = l]
  BY DEF Mail, SendMail, SendMailFails, CrashWorker
<1>3. /\ stalls' \in [Registrations -> Nat]
      /\ \A q \in Registrations :
           /\ tries'[q] \in 0..MailAttempts
           /\ job'[q] \in {"none", "waiting"} => tries'[q] < MailAttempts
      /\ tries' \in [Registrations -> 0..MailAttempts]
  <2>1. \A q \in Registrations : OwnerOK(q)
    BY DEF OwnerInv
  <2>2. CASE SendMail(r)
    BY <1>2, <2>1, <2>2 DEF SendMail, OwnerOK, TypeOK
  <2>3. CASE SendMailFails(r)
    BY <1>1, <2>1, <2>3, AuthAssumption DEF SendMailFails, OwnerOK, TypeOK
  <2>4. CASE CrashWorker(r)
    BY <1>1, <2>1, <2>4 DEF CrashWorker, OwnerOK, TypeOK
  <2> QED BY <2>2, <2>3, <2>4 DEF Mail
<1>4. TypeOK'
  <2>1. job' \in [Registrations -> {"none", "waiting", "completed", "failed"}]
    BY <1>2 DEF TypeOK
  <2>2. mailed' \subseteq Registrations
    BY <1>2 DEF TypeOK
  <2> QED BY <1>1, <1>3, <2>1, <2>2 DEF TypeOK
<1>5. OwnerInv'
  <2> SUFFICES ASSUME NEW q \in Registrations PROVE OwnerOK(q)'
    BY DEF OwnerInv
  <2>1. OwnerOK(q) /\ OwnerOK(r)
    BY DEF OwnerInv
  <2>2. q \in mailed' \/ job'[q] # "none" => q \in mailed \/ job[q] # "none"
    BY <1>1, <1>2 DEF TypeOK
  <2> QED BY <1>1, <1>3, <2>1, <2>2 DEF OwnerOK
<1>6. UserInv'
  BY <1>1 DEF UserInv, CodeKept
<1> QED BY <1>4, <1>5, <1>6

\* Of a verification, only UpdateUser changes a user, and only the deletion of a
\* verified user's code changes a code.
LEMMA VerifyOtpKeeps ==
  ASSUME AuthInv, NEW v \in Visitors, VerifyOtp(v)
  PROVE  AuthInv'
<1> USE DEF AuthInv
<1>1. UNCHANGED <<registration, mail, lapsed>> /\ \A q : Email(q)' = Email(q)
  BY DEF VerifyOtp, LookForUser, GetOtp, GetAttempts, Compare, IncrAttempts, UpdateUser,
         DelOtp, DelAttempts, VisitFails, Email
<1>2. faults' \in 0..MaxFaults
  BY AuthAssumption
  DEF VerifyOtp, LookForUser, GetOtp, GetAttempts, Compare, IncrAttempts, UpdateUser,
      DelOtp, DelAttempts, VisitFails, Fault, TypeOK
<1>3. CASE LookForUser(v)
  <2>1. UNCHANGED <<account, redis, wrong>>
    BY <1>3 DEF LookForUser
  <2>2. PICK s \in Spellings : /\ account[s] = "unverified"
                               /\ visited' = [visited EXCEPT ![v] = s]
                               /\ pc' = [pc EXCEPT ![v] = "getOtp"]
    BY <1>3 DEF LookForUser
  <2>3. TypeOK' /\ OwnerInv'
    BY <1>1, <1>2, <2>1, <2>2 DEF TypeOK, OwnerInv, OwnerOK
  <2>4. UserInv'
    BY <1>1, <2>1, <2>2 DEF UserInv, CodeKept, TypeOK
  <2> QED BY <2>3, <2>4
<1>4. ASSUME NEW a \in Spellings, visited[v] = a, pc[v] # "idle",
             NEW l \in {"getAttempts", "compare", "incr", "update", "delOtp",
                        "delAttempts", "idle"}, Step(v, l),
             l \in {"delOtp", "delAttempts"} => account'[a] = "verified",
             account' = account \/ account' = [account EXCEPT ![a] = "verified"],
             otp' = otp \/ (account[a] = "verified" /\ otp' = [otp EXCEPT ![a] = NoCode]),
             attempts' = attempts \/ \E x \in [count : Nat, life : {"absent", "ttl", "forever"}] :
                                       attempts' = [attempts EXCEPT ![a] = x],
             wrong' = wrong \/ wrong' = [wrong EXCEPT ![a] = @ + 1]
      PROVE  AuthInv'
  <2>1. account[a] # "free" /\ Canonical[a] = a
    BY <1>4 DEF UserInv, TypeOK
  <2>2. TypeOK'
    <3>1. /\ account' \in [Spellings -> Accounts] /\ otp' \in [Spellings -> Registrations \cup {NoCode}]
          /\ wrong' \in [Spellings -> Nat]
          /\ attempts' \in [Spellings -> [count : Nat, life : {"absent", "ttl", "forever"}]]
      BY <1>4 DEF TypeOK, Accounts
    <3>2. /\ visited' \in [Visitors -> Spellings \cup {NoSpelling}]
          /\ pc' \in [Visitors -> {"idle", "getOtp", "getAttempts", "compare", "incr",
                                   "update", "delOtp", "delAttempts"}]
      BY <1>4 DEF Step, TypeOK
    <3>3. \A s \in Spellings :
            account'[s] # "free" \/ otp'[s] # NoCode \/ wrong'[s] > 0 => Canonical[s] = s
      BY <1>4, <2>1 DEF TypeOK
    <3> QED BY <1>1, <1>2, <3>1, <3>2, <3>3 DEF TypeOK
  <2>3. ASSUME NEW s \in Spellings
        PROVE  /\ account'[s] = "unverified" => account[s] = "unverified"
               /\ account[s] # "free" <=> account'[s] # "free"
               /\ account[s] = "verified" => account'[s] = "verified"
               /\ account'[s] = "unverified" => otp'[s] = otp[s]
               /\ otp'[s] \in {otp[s], NoCode}
    <3> DOMAIN account = Spellings /\ DOMAIN otp = Spellings
      BY DEF TypeOK
    <3>1. account'[s] = account[s] \/ (s = a /\ account'[s] = "verified")
      <4>1. account' = account \/ account' = [account EXCEPT ![a] = "verified"]
        BY <1>4
      <4> QED BY <4>1
    <3>2. otp'[s] = otp[s] \/ (s = a /\ account[s] = "verified" /\ otp'[s] = NoCode)
      <4>1. \/ otp' = otp
            \/ account[a] = "verified" /\ otp' = [otp EXCEPT ![a] = NoCode]
        BY <1>4
      <4> QED BY <4>1
    <3> QED BY <2>1, <3>1, <3>2
  <2>4. OwnerInv'
    <3> SUFFICES ASSUME NEW r \in Registrations PROVE OwnerOK(r)'
      BY DEF OwnerInv
    <3>1. OwnerOK(r)
      BY DEF OwnerInv
    <3>2. at[r] \in Made => Email(r) \in Spellings
      BY <3>1, EmailIsCanonical DEF OwnerOK, Made
    <3> QED BY <1>1, <2>3, <3>1, <3>2 DEF OwnerOK
  <2>5. UserInv'
    <3>1. CodeKept'
      BY <1>1, <2>3 DEF UserInv, CodeKept
    <3>2. \A s \in Spellings : account'[s] = "free" =>
            otp'[s] = NoCode /\ wrong'[s] = 0 /\ attempts'[s] = NoAttempts
      BY <1>4, <2>1, <2>3 DEF UserInv, TypeOK
    <3>3. ASSUME NEW u \in Visitors, u # v
          PROVE  pc'[u] = pc[u] /\ visited'[u] = visited[u]
      BY <1>4, <3>3 DEF Step, TypeOK
    <3>4. /\ pc'[v] = l
          /\ visited'[v] = IF l = "idle" THEN NoSpelling ELSE a
      BY <1>4 DEF Step, TypeOK
    <3> QED BY <1>4, <2>1, <2>3, <3>1, <3>2, <3>3, <3>4 DEF UserInv
  <2> QED BY <2>2, <2>4, <2>5
<1>5. pc[v] # "idle" => visited[v] \in Spellings
  BY DEF UserInv
<1>6. CASE GetOtp(v) \/ GetAttempts(v) \/ VisitFails(v)
  BY <1>4, <1>5, <1>6 DEF GetOtp, GetAttempts, VisitFails
<1>7. CASE Compare(v)
  BY <1>4, <1>5, <1>7 DEF Compare
<1>8. CASE IncrAttempts(v)
  <2>1. Incremented(visited[v]) \in [count : Nat, life : {"absent", "ttl", "forever"}]
    BY <1>5, <1>8 DEF IncrAttempts, Incremented, TypeOK
  <2> QED BY <1>4, <1>5, <1>8, <2>1 DEF IncrAttempts
<1>9. CASE UpdateUser(v)
  BY <1>4, <1>5, <1>9 DEF UpdateUser, TypeOK
<1>10. CASE DelOtp(v) \/ DelAttempts(v)
  <2>1. account[visited[v]] = "verified" /\ account' = account
    BY <1>10 DEF DelOtp, DelAttempts, UserInv
  <2>2. NoAttempts \in [count : Nat, life : {"absent", "ttl", "forever"}]
    BY DEF NoAttempts
  <2> QED BY <1>4, <1>5, <1>10, <2>1, <2>2 DEF DelOtp, DelAttempts
<1> QED BY <1>3, <1>6, <1>7, <1>8, <1>9, <1>10 DEF VerifyOtp

\* The end of a TTL keeps it: a code that lapses is on record.
LEMMA ExpiryKeeps ==
  ASSUME AuthInv, NEW a \in Spellings, ExpireOtp(a) \/ ExpireAttempts(a)
  PROVE  AuthInv'
<1> USE DEF AuthInv
<1>1. UNCHANGED <<account, registration, visitor, mail, wrong, faults>>
      /\ \A q : Email(q)' = Email(q)
  BY DEF ExpireOtp, ExpireAttempts, Email
<1>2. CASE ExpireOtp(a)
  <2>1. /\ otp' = [otp EXCEPT ![a] = NoCode] /\ lapsed' = lapsed \cup {a}
        /\ attempts' = attempts
    BY <1>2 DEF ExpireOtp
  <2>2. TypeOK'
    BY <1>1, <2>1 DEF TypeOK
  <2>3. OwnerInv'
    <3> SUFFICES ASSUME NEW r \in Registrations PROVE OwnerOK(r)'
      BY DEF OwnerInv
    <3>1. OwnerOK(r) /\ (at[r] \in Made => Email(r) \in Spellings)
      BY EmailIsCanonical DEF OwnerInv, OwnerOK, Made
    <3> QED BY <1>1, <2>1, <3>1 DEF OwnerOK, TypeOK
  <2>4. UserInv'
    BY <1>1, <2>1 DEF UserInv, CodeKept, TypeOK
  <2> QED BY <2>2, <2>3, <2>4
<1>3. CASE ExpireAttempts(a)
  <2>1. /\ otp' = otp /\ lapsed' = lapsed
        /\ attempts' = [attempts EXCEPT ![a] = NoAttempts]
        /\ NoAttempts \in [count : Nat, life : {"absent", "ttl", "forever"}]
    BY <1>3 DEF ExpireAttempts, NoAttempts
  <2>2. TypeOK'
    BY <1>1, <2>1 DEF TypeOK
  <2>3. OwnerInv'
    BY <1>1, <2>1 DEF OwnerInv, OwnerOK
  <2>4. UserInv'
    BY <1>1, <2>1 DEF UserInv, CodeKept, TypeOK
  <2> QED BY <2>2, <2>3, <2>4
<1> QED BY <1>2, <1>3

\* Every step keeps the invariant of registrations and codes.
LEMMA AuthInvHolds == Spec => []AuthInv
<1>1. Init => AuthInv
  BY AuthAssumption
  DEF Init, AuthInv, TypeOK, Accounts, Ended, NoAttempts, OwnerInv, OwnerOK, Made, UserInv,
      CodeKept
<1>2. AuthInv /\ [Next]_vars => AuthInv'
  <2> SUFFICES ASSUME AuthInv, [Next]_vars PROVE AuthInv'
    OBVIOUS
  <2>1. ASSUME NEW r \in Registrations, Register(r) PROVE AuthInv'
    BY <2>1, LookForTakenKeeps, SaveUserKeeps, SetOtpKeeps, LaterStepsKeep DEF Register
  <2>2. CASE UNCHANGED vars
    <3>1. \A q : Email(q)' = Email(q)
      BY <2>2 DEF Email
    <3>2. TypeOK' /\ OwnerInv' /\ UserInv'
      BY <2>2, <3>1
      DEF AuthInv, TypeOK, OwnerInv, OwnerOK, UserInv, CodeKept
    <3> QED BY <3>2 DEF AuthInv
  <2> QED BY <2>1, <2>2, MailKeeps, VerifyOtpKeeps, ExpiryKeeps DEF Next
<1> QED BY <1>1, <1>2, PTL DEF Spec

----------------------------------------------------------------------------
\* Users, keys and jobs have their types, and exist for canonical addresses only.
THEOREM TypesHold == Spec => []TypeOK
<1>1. AuthInv => TypeOK
  BY DEF AuthInv
<1> QED BY <1>1, AuthInvHolds, PTL

\* Of overlapping registrations of one address, one at most succeeds.
THEOREM OneRegistration == Spec => []OneRegistrationPerAddress
<1>1. AuthInv => OneRegistrationPerAddress
  BY DEF AuthInv, OwnerInv, OwnerOK, Made, OneRegistrationPerAddress, Email
<1> QED BY <1>1, AuthInvHolds, PTL

----------------------------------------------------------------------------
(* The bound on wrong guesses: the clients that have read the counter below the limit   *)
(* and not yet counted their guess are part of it.                                      *)

B == MaxAttempts + Cardinality(Visitors) - 1
Guessing(a) == {v \in Visitors : visited[v] = a /\ pc[v] \in {"compare", "incr"}}
Counting(a) == {v \in Visitors : visited[v] = a /\ pc[v] = "incr"}
Due(a, L) == \E r \in Registrations : at[r] \in L /\ Email(r) = a

\* Until the code is stored, nobody has guessed.
FreshInv ==
  \A r \in Registrations : at[r] = "setOtp" =>
    /\ attempts[Email(r)] = NoAttempts /\ otp[Email(r)] = NoCode
    /\ \A v \in Visitors : visited[v] = Email(r) => pc[v] = "getOtp"

\* The wrong guesses are counted, about to be counted, lost to a failure, or were
\* counted before the counter was set.
Counted(a) ==
  /\ attempts[a].count + Cardinality(Guessing(a)) <= B
  /\ wrong[a] <= attempts[a].count + Cardinality(Counting(a)) + faults
                   + IF Due(a, {"setOtp", "setAttempts"}) THEN 0 ELSE B

\* The code is gone for good, and nobody holds it.
Over(a) ==
  /\ otp[a] = NoCode /\ ~Due(a, {"setOtp"})
  /\ \A v \in Visitors : visited[v] = a => pc[v] \notin {"getAttempts", "compare", "incr"}
  /\ wrong[a] <= 2 * B + faults

GuessInv ==
  /\ FreshInv
  /\ \A a \in Spellings : account[a] # "verified" => Counted(a) \/ Over(a)

\* The visitors with a guess under way, and those about to count one, are finitely many.
LEMMA GuessersAreFew ==
  ASSUME NEW a
  PROVE  /\ IsFiniteSet(Guessing(a)) /\ IsFiniteSet(Counting(a))
         /\ Cardinality(Counting(a)) \in Nat /\ Cardinality(Guessing(a)) \in Nat
         /\ Cardinality(Counting(a)) <= Cardinality(Guessing(a))
         /\ Cardinality(Guessing(a)) <= Cardinality(Visitors)
         /\ Cardinality(Visitors) \in Nat
<1>1. Guessing(a) \subseteq Visitors /\ Counting(a) \subseteq Guessing(a)
  BY DEF Guessing, Counting
<1>2. IsFiniteSet(Guessing(a)) /\ Cardinality(Guessing(a)) <= Cardinality(Visitors)
  BY <1>1, AuthAssumption, FS_Subset
<1>3. IsFiniteSet(Counting(a)) /\ Cardinality(Counting(a)) <= Cardinality(Guessing(a))
  BY <1>1, <1>2, FS_Subset
<1> QED BY <1>2, <1>3, AuthAssumption, FS_CardinalityType

\* What GuessInv counts are natural numbers.
LEMMA Numbers ==
  ASSUME TypeOK, NEW a \in Spellings
  PROVE  /\ attempts[a].count \in Nat /\ wrong[a] \in Nat /\ faults \in Nat
         /\ B \in Nat /\ Cardinality(Visitors) <= B
<1>1. attempts[a].count \in Nat /\ wrong[a] \in Nat
  BY DEF TypeOK
<1>2. faults \in Nat
  BY AuthAssumption DEF TypeOK
<1>3. B \in Nat /\ Cardinality(Visitors) <= B
  BY GuessersAreFew, AuthAssumption DEF B
<1> QED BY <1>1, <1>2, <1>3

\* The bound follows.
LEMMA GuessInvBounds == ASSUME AuthInv, GuessInv PROVE GuessesBounded
<1> SUFFICES ASSUME NEW a \in Spellings, account[a] = "unverified"
             PROVE  wrong[a] <= 2 * B + faults
  BY DEF GuessesBounded, B
<1>1. attempts[a].count \in Nat /\ faults \in Nat /\ wrong[a] \in Nat /\ B \in Nat
  BY Numbers DEF AuthInv
<1>2. CASE Counted(a)
  <2> DEFINE n == attempts[a].count
             c == Cardinality(Counting(a))
             g == Cardinality(Guessing(a))
  <2>1. n + g <= B /\ c <= g /\ c \in Nat /\ g \in Nat
    BY <1>2, GuessersAreFew DEF Counted
  <2>2. wrong[a] <= n + c + faults + B
    BY <1>1, <1>2, <2>1 DEF Counted
  <2> HIDE DEF n, c, g
  <2>3. n \in Nat
    BY <1>1 DEF n
  <2> QED BY <1>1, <2>1, <2>2, <2>3
<1>3. CASE Over(a)
  BY <1>3 DEF Over
<1> QED BY <1>2, <1>3 DEF GuessInv

\* What touches neither the guesses of an address nor its counter keeps their account.
LEMMA GuessFrame ==
  ASSUME AuthInv, AuthInv', NEW a \in Spellings,
         account[a] # "verified" => Counted(a) \/ Over(a),
         account[a] = "verified" => account'[a] = "verified",
         Guessing(a)' = Guessing(a), Counting(a)' = Counting(a),
         attempts'[a] = attempts[a], wrong'[a] = wrong[a], faults' >= faults,
         Due(a, {"setOtp", "setAttempts"})' => Due(a, {"setOtp", "setAttempts"}),
         Over(a) => /\ otp'[a] = NoCode /\ ~Due(a, {"setOtp"})'
                    /\ \A v \in Visitors : visited'[v] = a =>
                         pc'[v] \notin {"getAttempts", "compare", "incr"}
  PROVE  account'[a] # "verified" => Counted(a)' \/ Over(a)'
<1>1. B \in Nat /\ B' = B
  BY GuessersAreFew, AuthAssumption DEF B
<1>2. /\ faults \in Int /\ faults' \in Int /\ wrong[a] \in Int /\ attempts[a].count \in Int
      /\ Cardinality(Counting(a)) \in Int /\ Cardinality(Guessing(a)) \in Int
  BY GuessersAreFew, AuthAssumption DEF AuthInv, TypeOK
<1>3. CASE Counted(a)
  <2>1. Counted(a)'
    <3> DEFINE c == Cardinality(Counting(a))
               g == Cardinality(Guessing(a))
    <3>1. Cardinality(Counting(a))' = c /\ Cardinality(Guessing(a))' = g
      OBVIOUS
    <3> HIDE DEF c, g
    <3>2. c \in Int /\ g \in Int
      BY <1>2 DEF c, g
    <3>3. attempts[a].count + g <= B
          /\ wrong[a] <= attempts[a].count + c + faults
                           + IF Due(a, {"setOtp", "setAttempts"}) THEN 0 ELSE B
      BY <1>3 DEF Counted, c, g
    <3> QED BY <1>1, <1>2, <3>1, <3>2, <3>3 DEF Counted
  <2> QED BY <2>1
<1>4. CASE Over(a)
  BY <1>1, <1>2, <1>4 DEF Over
<1> QED BY <1>3, <1>4

\* A step of a registration keeps every wrong guess accounted for.
LEMMA GuessRegister ==
  ASSUME AuthInv, AuthInv', GuessInv, NEW r \in Registrations, Register(r)
  PROVE  GuessInv'
<1> USE DEF AuthInv
<1>1. /\ UNCHANGED <<visitor, wrong>> /\ faults' >= faults
      /\ \A q \in Registrations : q # r => at'[q] = at[q] /\ asked'[q] = asked[q]
      /\ at[r] # "idle" => asked'[r] = asked[r]
  <2>1. faults \in Int
    BY AuthAssumption DEF TypeOK
  <2> QED BY <2>1
      DEF Register, LookForTaken, SaveUser, SetOtp, SetAttempts, SendOtp, CrashRegistration,
          Move, Fault, TypeOK
<1>2. \A a : Guessing(a)' = Guessing(a) /\ Counting(a)' = Counting(a)
  BY <1>1 DEF Guessing, Counting
<1>3. /\ \A q \in Registrations : q # r => Email(q)' = Email(q)
      /\ at[r] # "idle" => Email(r)' = Email(r)
  BY <1>1 DEF Email
<1>4. at[r] # "idle" => Email(r) \in Spellings
  BY EmailIsCanonical DEF OwnerInv, OwnerOK
<1>5. CASE LookForTaken(r) \/ SendOtp(r) \/ CrashRegistration(r)
  <2>1. /\ UNCHANGED <<account, otp, attempts>> /\ at'[r] \notin {"setOtp", "setAttempts"}
    BY <1>5 DEF LookForTaken, SendOtp, CrashRegistration, Move, TypeOK
  <2>2. FreshInv'
    BY <1>1, <1>3, <2>1 DEF GuessInv, FreshInv
  <2>3. \A a, L : L \subseteq {"setOtp", "setAttempts"} /\ Due(a, L)' => Due(a, L)
    BY <1>1, <1>3, <2>1 DEF Due
  <2>4. ASSUME NEW a \in Spellings PROVE account'[a] # "verified" => Counted(a)' \/ Over(a)'
    BY <1>1, <1>2, <2>1, <2>3, GuessFrame DEF GuessInv, Over
  <2> QED BY <2>2, <2>4 DEF GuessInv
<1>6. CASE SaveUser(r)
  <2>1. /\ UNCHANGED <<otp, attempts>> /\ at[r] = "save"
        /\ \/ account' = account /\ at'[r] = "failed"
           \/ account[Email(r)] = "free" /\ account' = [account EXCEPT ![Email(r)] = "unverified"]
    BY <1>6 DEF SaveUser, Move, Insert, TypeOK
  <2>2. ASSUME account[Email(r)] = "free"
        PROVE  /\ otp[Email(r)] = NoCode /\ wrong[Email(r)] = 0
               /\ attempts[Email(r)] = NoAttempts
               /\ \A v \in Visitors : visited[v] # Email(r)
    <3>1. NoSpelling # Email(r)
      BY <1>4, <2>1, AuthAssumption
    <3> QED BY <1>4, <2>1, <2>2, <3>1 DEF UserInv
  <2>3. at'[r] = "setOtp" => account[Email(r)] = "free"
    BY <1>6, <2>1 DEF SaveUser, Move, TypeOK
  <2>4. FreshInv'
    BY <1>1, <1>3, <2>1, <2>2, <2>3 DEF GuessInv, FreshInv
  <2>5. at'[r] # "setAttempts"
    BY <1>6 DEF SaveUser, Move, TypeOK
  <2>6. ASSUME NEW a \in Spellings PROVE account'[a] # "verified" => Counted(a)' \/ Over(a)'
    <3>1. CASE a = Email(r) /\ account[a] = "free"
      <4>1. /\ attempts'[a].count = 0 /\ wrong'[a] = 0
            /\ Guessing(a)' = {} /\ Counting(a)' = {}
        BY <1>1, <2>1, <2>2, <3>1 DEF NoAttempts, Guessing, Counting
      <4>2. B \in Nat /\ B' = B /\ faults' \in Nat
        BY Numbers, AuthAssumption DEF B, TypeOK
      <4>3. Cardinality(Guessing(a))' = 0 /\ Cardinality(Counting(a))' = 0
        BY <4>1, FS_EmptySet
      <4> QED BY <4>1, <4>2, <4>3 DEF Counted
    <3>2. CASE ~(a = Email(r) /\ account[a] = "free")
      <4>1. account'[a] = account[a]
        BY <2>1, <3>2 DEF TypeOK
      <4>2. at'[r] = "setOtp" => Email(r) # a
        BY <2>3, <3>2
      <4>3. \A L : L \subseteq {"setOtp", "setAttempts"} /\ Due(a, L)' => Due(a, L)
        BY <1>1, <1>3, <2>1, <2>5, <4>2 DEF Due
      <4> QED BY <1>1, <1>2, <2>1, <4>1, <4>3, GuessFrame DEF GuessInv, Over
    <3> QED BY <3>1, <3>2
  <2> QED BY <2>4, <2>6 DEF GuessInv
<1>7. CASE SetOtp(r)
  <2>1. /\ UNCHANGED <<account, attempts>> /\ at[r] = "setOtp" /\ at'[r] # "setOtp"
        /\ otp' = otp \/ otp' = [otp EXCEPT ![Email(r)] = r]
    BY <1>7 DEF SetOtp, Move, TypeOK
  <2>2. \A q \in Registrations : q # r /\ at[q] \in Made => Email(q) # Email(r)
    BY <2>1 DEF OwnerInv, OwnerOK, Made
  <2>3. FreshInv'
    <3> SUFFICES ASSUME NEW q \in Registrations, at'[q] = "setOtp"
                 PROVE  /\ attempts'[Email(q)'] = NoAttempts /\ otp'[Email(q)'] = NoCode
                        /\ \A v \in Visitors : visited'[v] = Email(q)' => pc'[v] = "getOtp"
      BY DEF FreshInv
    <3>1. q # r /\ at[q] = "setOtp" /\ Email(q)' = Email(q) /\ Email(q) # Email(r)
      BY <1>1, <1>3, <2>1, <2>2 DEF Made
    <3>2. Email(q) \in Spellings
      BY <3>1, EmailIsCanonical DEF OwnerInv, OwnerOK
    <3> QED BY <1>1, <2>1, <3>1, <3>2 DEF GuessInv, FreshInv, TypeOK
  <2>4. \A a, L : L = {"setOtp", "setAttempts"} /\ Due(a, L)' => Due(a, L)
    BY <1>1, <1>3, <2>1 DEF Due
  <2>5. ASSUME NEW a \in Spellings PROVE account'[a] # "verified" => Counted(a)' \/ Over(a)'
    <3>1. Over(a) => a # Email(r)
      BY <2>1 DEF Over, Due
    <3>2. Over(a) => otp'[a] = NoCode /\ ~Due(a, {"setOtp"})'
      BY <1>1, <1>3, <2>1, <3>1 DEF Over, Due, TypeOK
    <3> QED BY <1>1, <1>2, <2>1, <2>4, <3>2, GuessFrame DEF GuessInv, Over
  <2> QED BY <2>3, <2>5 DEF GuessInv
<1>8. CASE SetAttempts(r)
  <2>1. /\ UNCHANGED <<account, otp>> /\ at[r] = "setAttempts"
        /\ at'[r] \in {"queue", "failed"}
        /\ \/ attempts' = attempts
           \/ attempts' = [attempts EXCEPT ![Email(r)] = [count |-> 0, life |-> "ttl"]]
    BY <1>8 DEF SetAttempts, Move, TypeOK
  <2>2. \A q \in Registrations : q # r /\ at[q] \in Made => Email(q) # Email(r)
    BY <2>1 DEF OwnerInv, OwnerOK, Made
  <2>3. FreshInv'
    <3> SUFFICES ASSUME NEW q \in Registrations, at'[q] = "setOtp"
                 PROVE  /\ attempts'[Email(q)'] = NoAttempts /\ otp'[Email(q)'] = NoCode
                        /\ \A v \in Visitors : visited'[v] = Email(q)' => pc'[v] = "getOtp"
      BY DEF FreshInv
    <3>1. q # r /\ at[q] = "setOtp" /\ Email(q)' = Email(q) /\ Email(q) # Email(r)
      BY <1>1, <1>3, <2>1, <2>2 DEF Made
    <3>2. Email(q) \in Spellings
      BY <3>1, EmailIsCanonical DEF OwnerInv, OwnerOK
    <3> QED BY <1>1, <2>1, <3>1, <3>2 DEF GuessInv, FreshInv, TypeOK
  <2>4. \A a, L : L \subseteq {"setOtp", "setAttempts"} /\ Due(a, L)' => Due(a, L)
    BY <1>1, <1>3, <2>1 DEF Due
  <2>5. ASSUME NEW a \in Spellings PROVE account'[a] # "verified" => Counted(a)' \/ Over(a)'
    <3>1. CASE a # Email(r) \/ attempts' = attempts \/ Over(a)
      <4>1. a # Email(r) \/ attempts' = attempts => attempts'[a] = attempts[a]
        BY <2>1 DEF TypeOK
      <4>2. CASE a # Email(r) \/ attempts' = attempts
        BY <1>1, <1>2, <2>1, <2>4, <4>1, <4>2, GuessFrame DEF GuessInv, Over
      <4>3. CASE Over(a)
        <5>1. ~Due(a, {"setOtp"})' /\ B' = B /\ B \in Int /\ faults \in Int /\ faults' \in Int
              /\ wrong[a] \in Int
          <6>1. ~Due(a, {"setOtp"})'
            BY <2>4, <4>3 DEF Over
          <6>2. B' = B /\ B \in Int /\ faults \in Int /\ wrong[a] \in Int
            BY Numbers DEF B
          <6>3. faults' \in Int
            BY AuthAssumption DEF TypeOK
          <6> QED BY <6>1, <6>2, <6>3
        <5> QED BY <1>1, <2>1, <4>3, <5>1 DEF Over
      <4> QED BY <3>1, <4>2, <4>3
    <3>2. CASE a = Email(r) /\ attempts'[a].count = 0 /\ Counted(a)
      <4> DEFINE n == attempts[a].count
                 c == Cardinality(Counting(a))
                 g == Cardinality(Guessing(a))
      <4>1. Cardinality(Counting(a))' = c /\ Cardinality(Guessing(a))' = g
        BY <1>2
      <4>2. /\ c \in Nat /\ g \in Nat /\ c <= g /\ g <= B /\ B \in Nat /\ B' = B
            /\ n \in Nat /\ faults \in Int /\ faults' \in Int /\ wrong[a] \in Int
        <5>1. g <= Cardinality(Visitors) /\ Cardinality(Visitors) \in Nat /\ c \in Nat
              /\ g \in Nat /\ c <= g
          BY GuessersAreFew
        <5>2. n \in Nat /\ wrong[a] \in Int
          BY DEF TypeOK
        <5>3. faults \in Int /\ faults' \in Int
          BY AuthAssumption DEF TypeOK
        <5> QED BY <5>1, <5>2, <5>3, AuthAssumption DEF B
      <4>3. n + g <= B /\ wrong[a] <= n + c + faults
        <5>1. Due(a, {"setOtp", "setAttempts"})
          BY <2>1, <3>2 DEF Due
        <5>2. n + g <= B /\ wrong[a] <= n + c + faults + 0
          BY <3>2, <5>1 DEF Counted
        <5> HIDE DEF n, c, g
        <5> QED BY <4>2, <5>2
      <4>4. ~Due(a, {"setOtp", "setAttempts"})'
        BY <1>1, <1>3, <2>1, <2>2, <3>2 DEF Due, Made
      <4>5. wrong'[a] = wrong[a]
        BY <1>1
      <4> HIDE DEF n, c, g
      <4>6. Counted(a)'
        BY <1>1, <3>2, <4>1, <4>2, <4>3, <4>4, <4>5 DEF Counted
      <4> QED BY <4>6
    <3>3. a = Email(r) /\ attempts' # attempts => attempts'[a].count = 0
      BY <2>1 DEF TypeOK
    <3> QED BY <2>1, <3>1, <3>2, <3>3 DEF GuessInv
  <2> QED BY <2>3, <2>5 DEF GuessInv
<1> QED BY <1>5, <1>6, <1>7, <1>8 DEF Register

\* The mail queue and the clock.
LEMMA GuessElsewhere ==
  ASSUME AuthInv, AuthInv', GuessInv,
         \/ \E r \in Registrations : Mail(r)
         \/ \E a \in Spellings : ExpireOtp(a) \/ ExpireAttempts(a)
         \/ UNCHANGED vars
  PROVE  GuessInv'
<1> USE DEF AuthInv
<1>1. /\ UNCHANGED <<account, registration, visitor, wrong>> /\ faults' >= faults
  <2>1. faults \in Int
    BY AuthAssumption DEF TypeOK
  <2> QED BY <2>1 DEF Mail, SendMail, SendMailFails, CrashWorker, ExpireOtp, ExpireAttempts, Fault
<1>2. \A a : /\ Guessing(a)' = Guessing(a) /\ Counting(a)' = Counting(a)
             /\ Email(a)' = Email(a)
             /\ \A L : Due(a, L)' = Due(a, L)
  BY <1>1 DEF Guessing, Counting, Email, Due
<1>3. \A a \in Spellings : otp'[a] \in {otp[a], NoCode} /\ attempts'[a] \in {attempts[a], NoAttempts}
  BY DEF Mail, SendMail, SendMailFails, CrashWorker, ExpireOtp, ExpireAttempts, TypeOK
<1>4. FreshInv'
  <2> SUFFICES ASSUME NEW r \in Registrations, at[r] = "setOtp"
               PROVE  /\ attempts'[Email(r)] = NoAttempts /\ otp'[Email(r)] = NoCode
                      /\ \A v \in Visitors : visited[v] = Email(r) => pc[v] = "getOtp"
    BY <1>1, <1>2 DEF FreshInv
  <2>1. Email(r) \in Spellings
    BY EmailIsCanonical DEF OwnerInv, OwnerOK
  <2> QED BY <1>3, <2>1 DEF GuessInv, FreshInv
<1>5. ASSUME NEW a \in Spellings PROVE account'[a] # "verified" => Counted(a)' \/ Over(a)'
  <2>1. CASE attempts'[a] = attempts[a]
    <3>1. Over(a) => otp'[a] = NoCode
      BY <1>3 DEF Over
    <3> QED BY <1>1, <1>2, <2>1, <3>1, GuessFrame DEF GuessInv, Over
  <2>2. CASE attempts'[a] # attempts[a]
    <3>1. /\ otp[a] = NoCode /\ otp' = otp /\ faults' = faults /\ attempts[a] # NoAttempts
          /\ \A v \in Visitors : visited[v] = a => pc[v] \notin {"getAttempts", "compare", "incr"}
      BY <1>3, <2>2 DEF Mail, SendMail, SendMailFails, CrashWorker, ExpireOtp, ExpireAttempts, TypeOK
    <3>2. ~Due(a, {"setOtp"})
      BY <3>1 DEF GuessInv, FreshInv, Due
    <3>3. account[a] # "verified" => wrong[a] <= 2 * B + faults
      <4>1. CASE Counted(a)
        <5> DEFINE n == attempts[a].count
                   c == Cardinality(Counting(a))
                   g == Cardinality(Guessing(a))
        <5>1. n + g <= B
              /\ wrong[a] <= n + c + faults
                               + IF Due(a, {"setOtp", "setAttempts"}) THEN 0 ELSE B
          BY <4>1 DEF Counted
        <5>2. /\ c <= g /\ c \in Nat /\ g \in Nat /\ n \in Nat /\ B \in Nat
              /\ wrong[a] \in Nat /\ faults \in Nat
          BY Numbers, GuessersAreFew
        <5> HIDE DEF n, c, g
        <5> QED BY <5>1, <5>2
      <4>2. CASE Over(a)
        BY <4>2 DEF Over
      <4> QED BY <4>1, <4>2 DEF GuessInv
    <3>4. B' = B
      BY DEF B
    <3> QED BY <1>1, <1>2, <3>1, <3>2, <3>3, <3>4 DEF Over
  <2> QED BY <2>1, <2>2
<1> QED BY <1>4, <1>5 DEF GuessInv

\* What a step does to the account of an address: the guesses not yet accounted for do
\* not grow.
LEMMA CountedStep ==
  ASSUME TypeOK, TypeOK', NEW a \in Spellings, Counted(a),
         NEW n \in Nat, NEW c \in Nat, NEW g \in Nat,
         NEW m \in Nat, NEW d \in Nat, NEW h \in Nat,
         n = attempts[a].count, c = Cardinality(Counting(a)), g = Cardinality(Guessing(a)),
         m = attempts'[a].count, d = Cardinality(Counting(a))',
         h = Cardinality(Guessing(a))',
         Due(a, {"setOtp", "setAttempts"})' = Due(a, {"setOtp", "setAttempts"}),
         m + h <= B,
         wrong'[a] + n + c + faults <= wrong[a] + m + d + faults'
  PROVE  Counted(a)'
<1>1. wrong[a] \in Nat /\ faults \in Nat /\ B \in Nat /\ B' = B
  BY Numbers DEF B
<1>2. wrong'[a] \in Nat
  BY DEF TypeOK
<1>3. faults' \in Nat
  BY AuthAssumption DEF TypeOK
<1>4. n + g <= B
      /\ wrong[a] <= n + c + faults + IF Due(a, {"setOtp", "setAttempts"}) THEN 0 ELSE B
  BY DEF Counted
<1>5. m + h <= B'
      /\ wrong'[a] <= m + d + faults' + IF Due(a, {"setOtp", "setAttempts"})' THEN 0 ELSE B'
  BY <1>1, <1>2, <1>3, <1>4
<1> QED BY <1>5 DEF Counted

\* A verification takes part in the bound of the address it is about.
LEMMA GuessVerifyOtp ==
  ASSUME AuthInv, AuthInv', GuessInv, NEW v \in Visitors, VerifyOtp(v)
  PROVE  GuessInv'
<1> USE DEF AuthInv
<1>0. PICK a \in Spellings : a = IF pc[v] = "idle" THEN visited'[v] ELSE visited[v]
  BY DEF VerifyOtp, LookForUser, GetOtp, GetAttempts, Compare, IncrAttempts, UpdateUser,
         DelOtp, DelAttempts, VisitFails, Step, TypeOK, UserInv
<1>1. /\ UNCHANGED registration /\ faults' \in {faults, faults + 1} /\ a \in Spellings
      /\ \A u \in Visitors : u # v => pc'[u] = pc[u] /\ visited'[u] = visited[u]
      /\ visited'[v] = IF pc'[v] = "idle" THEN NoSpelling ELSE a
      /\ visited[v] = IF pc[v] = "idle" THEN NoSpelling ELSE a
      /\ account[a] # "free"
  BY <1>0 DEF VerifyOtp, LookForUser, GetOtp, GetAttempts, Compare, IncrAttempts, UpdateUser,
         DelOtp, DelAttempts, VisitFails, Fault, Step, TypeOK, UserInv
<1>2. /\ \A r : Email(r)' = Email(r)
      /\ \A b, L : Due(b, L)' = Due(b, L)
  BY <1>1 DEF Email, Due
<1>3. \A b \in Spellings : b # a =>
        /\ account'[b] = account[b] /\ otp'[b] = otp[b] /\ attempts'[b] = attempts[b]
        /\ wrong'[b] = wrong[b]
  BY <1>0 DEF VerifyOtp, LookForUser, GetOtp, GetAttempts, Compare, IncrAttempts, UpdateUser,
         DelOtp, DelAttempts, VisitFails, TypeOK
<1>4. \/ account' = account /\ otp' = otp
      \/ account' = [account EXCEPT ![a] = "verified"] /\ otp' = otp
      \/ account[a] = "verified" /\ account' = account
  BY <1>0 DEF VerifyOtp, LookForUser, GetOtp, GetAttempts, Compare, IncrAttempts, UpdateUser,
         DelOtp, DelAttempts, VisitFails, UserInv
<1>5. B' = B /\ B \in Nat /\ faults \in Nat /\ wrong[a] \in Nat /\ attempts[a].count \in Nat
  BY <1>1, Numbers DEF B
<1>6. FreshInv'
  <2> SUFFICES ASSUME NEW r \in Registrations, at[r] = "setOtp"
               PROVE  /\ attempts'[Email(r)] = NoAttempts /\ otp'[Email(r)] = NoCode
                      /\ \A u \in Visitors : visited'[u] = Email(r) => pc'[u] = "getOtp"
    BY <1>1, <1>2 DEF FreshInv
  <2>1. /\ Email(r) \in Spellings /\ NoSpelling # Email(r)
        /\ attempts[Email(r)] = NoAttempts /\ otp[Email(r)] = NoCode
        /\ \A u \in Visitors : visited[u] = Email(r) => pc[u] = "getOtp"
    BY EmailIsCanonical, AuthAssumption DEF GuessInv, FreshInv, OwnerInv, OwnerOK
  <2>2. CASE Email(r) # a
    BY <1>1, <1>3, <2>1, <2>2
  <2>3. CASE Email(r) = a
    <3>1. pc[v] \in {"idle", "getOtp"}
      BY <1>1, <2>1, <2>3 DEF TypeOK
    <3>2. /\ attempts' = attempts /\ otp' = otp
          /\ visited'[v] = a => pc'[v] = "getOtp"
      BY <1>1, <2>1, <2>3, <3>1, AuthAssumption
      DEF VerifyOtp, LookForUser, GetOtp, GetAttempts, Compare, IncrAttempts, UpdateUser,
          DelOtp, DelAttempts, VisitFails, Step, TypeOK
    <3> QED BY <1>1, <2>1, <2>3, <3>2
  <2> QED BY <2>2, <2>3
<1>7. ASSUME NEW b \in Spellings, b # a
      PROVE  account'[b] # "verified" => Counted(b)' \/ Over(b)'
  <2>1. visited[v] # b /\ visited'[v] # b
    BY <1>1, <1>7, AuthAssumption
  <2>2. Guessing(b)' = Guessing(b) /\ Counting(b)' = Counting(b)
    BY <1>1, <2>1 DEF Guessing, Counting
  <2>3. Over(b) => /\ otp'[b] = NoCode /\ ~Due(b, {"setOtp"})'
                   /\ \A u \in Visitors : visited'[u] = b =>
                        pc'[u] \notin {"getAttempts", "compare", "incr"}
    BY <1>1, <1>2, <1>3, <1>7, <2>1 DEF Over
  <2> QED BY <1>1, <1>2, <1>3, <1>5, <1>7, <2>2, <2>3, GuessFrame DEF GuessInv
<1>8. ASSUME account'[a] # "verified" PROVE Counted(a)' \/ Over(a)'
  <2>1. account[a] # "verified" /\ otp' = otp
    BY <1>1, <1>4, <1>8 DEF TypeOK
  <2>2. pc[v] \notin {"delOtp", "delAttempts"}
    BY <1>1, <2>1 DEF UserInv
  <2>3. CASE /\ pc[v] \in {"compare", "incr"} <=> pc'[v] \in {"compare", "incr"}
             /\ pc[v] = "incr" <=> pc'[v] = "incr"
             /\ attempts' = attempts /\ wrong' = wrong
             /\ pc'[v] = "getAttempts" => pc[v] = "getOtp" /\ otp[a] # NoCode
    <3>1. Guessing(a)' = Guessing(a) /\ Counting(a)' = Counting(a)
      BY <1>1, <2>3 DEF Guessing, Counting
    <3>2. Over(a) => /\ otp'[a] = NoCode /\ ~Due(a, {"setOtp"})'
                     /\ \A u \in Visitors : visited'[u] = a =>
                          pc'[u] \notin {"getAttempts", "compare", "incr"}
      BY <1>1, <1>2, <2>1, <2>3 DEF Over
    <3> QED BY <1>1, <1>2, <1>5, <1>8, <2>1, <2>3, <3>1, <3>2, GuessFrame DEF GuessInv
  <2>4. CASE pc[v] \in {"getAttempts", "compare", "incr"}
             /\ ~(pc[v] = "getAttempts" /\ pc'[v] = "idle")
    <3> DEFINE n == attempts[a].count
               m == attempts'[a].count
               G == Guessing(a)
               C == Counting(a)
               H == Guessing(a)'
               D == Counting(a)'
    <3>1. Counted(a)
      BY <1>1, <2>1, <2>4 DEF GuessInv, Over
    <3>2. n \in Nat /\ m \in Nat
      BY DEF TypeOK
    <3>3. /\ IsFiniteSet(G) /\ IsFiniteSet(C)
          /\ Cardinality(G) \in Nat /\ Cardinality(C) \in Nat
          /\ Cardinality(Visitors) \in Nat
      BY GuessersAreFew
    <3>4. n + Cardinality(G) <= B
      BY <3>1 DEF Counted
    <3>5. H \subseteq Visitors
      BY DEF Guessing
    <3>6. visited[v] = a
      BY <1>1, <2>4
    <3>7. m + Cardinality(H) <= B /\ Cardinality(H) \in Nat /\ Cardinality(D) \in Nat
          /\ wrong'[a] + n + Cardinality(C) + faults <= wrong[a] + m + Cardinality(D) + faults'
      <4>1. CASE pc[v] = "getAttempts"
        <5>1. pc'[v] = "compare" /\ attempts' = attempts /\ wrong' = wrong
              /\ faults' = faults /\ n < MaxAttempts
          BY <2>4, <3>2, <3>6, <4>1, AuthAssumption
          DEF VerifyOtp, LookForUser, GetOtp, GetAttempts, Compare, IncrAttempts, UpdateUser,
              DelOtp, DelAttempts, VisitFails, Step, Exhausted, TypeOK
        <5>2. D = C
          BY <1>1, <4>1, <5>1 DEF Counting
        <5>3. Cardinality(H) \in Nat /\ Cardinality(H) <= Cardinality(Visitors)
          BY <3>5, AuthAssumption, FS_Subset, FS_CardinalityType
        <5>4. m = n /\ Cardinality(D) = Cardinality(C) /\ wrong'[a] = wrong[a]
          BY <5>1, <5>2
        <5> HIDE DEF n, m, G, C, H, D
        <5>5. m + Cardinality(H) <= B
          BY <3>2, <3>3, <5>1, <5>3, <5>4, AuthAssumption DEF B
        <5> QED BY <1>5, <3>2, <3>3, <5>1, <5>3, <5>4, <5>5
      <4>2. CASE pc[v] = "compare" /\ pc'[v] = "incr"
        <5>1. attempts' = attempts /\ wrong' = [wrong EXCEPT ![a] = @ + 1] /\ faults' = faults
          BY <3>6, <4>2
          DEF VerifyOtp, LookForUser, GetOtp, GetAttempts, Compare, IncrAttempts, UpdateUser,
              DelOtp, DelAttempts, VisitFails, Step, TypeOK
        <5>2. H = G
          BY <1>1, <3>6, <4>2 DEF Guessing
        <5>3. D = C \cup {v} /\ v \notin C
          BY <1>1, <3>6, <4>2 DEF Counting
        <5>4. Cardinality(D) = Cardinality(C) + 1
          BY <3>3, <5>3, FS_AddElement
        <5>5. m = n /\ Cardinality(H) = Cardinality(G) /\ wrong'[a] = wrong[a] + 1
          BY <5>1, <5>2 DEF TypeOK
        <5> HIDE DEF n, m, G, C, H, D
        <5> QED BY <1>5, <3>2, <3>3, <3>4, <5>1, <5>4, <5>5
      <4>3. CASE pc[v] = "compare" /\ pc'[v] # "incr"
        <5>1. attempts' = attempts /\ wrong' = wrong /\ pc'[v] # "compare"
          BY <3>6, <4>3
          DEF VerifyOtp, LookForUser, GetOtp, GetAttempts, Compare, IncrAttempts, UpdateUser,
              DelOtp, DelAttempts, VisitFails, Step, TypeOK
        <5>2. H = G \ {v} /\ v \in G
          BY <1>1, <3>6, <4>3, <5>1 DEF Guessing
        <5>3. D = C
          BY <1>1, <3>6, <4>3 DEF Counting
        <5>4. Cardinality(H) = Cardinality(G) - 1 /\ Cardinality(H) \in Nat
          BY <3>3, <5>2, FS_RemoveElement, FS_CardinalityType
        <5>5. m = n /\ Cardinality(D) = Cardinality(C) /\ wrong'[a] = wrong[a]
          BY <5>1, <5>3
        <5> HIDE DEF n, m, G, C, H, D
        <5> QED BY <1>1, <1>5, <3>2, <3>3, <3>4, <5>4, <5>5
      <4>4. CASE pc[v] = "incr"
        <5>1. wrong' = wrong /\ pc'[v] = "idle"
              /\ \/ m = n + 1
                 \/ m = n /\ faults' = faults + 1
          BY <1>1, <3>6, <4>4
          DEF VerifyOtp, LookForUser, GetOtp, GetAttempts, Compare, IncrAttempts, UpdateUser,
              DelOtp, DelAttempts, VisitFails, Step, Fault, Incremented, TypeOK
        <5>2. H = G \ {v} /\ v \in G /\ D = C \ {v} /\ v \in C
          BY <1>1, <3>6, <4>4, <5>1 DEF Guessing, Counting
        <5>3. /\ Cardinality(H) = Cardinality(G) - 1 /\ Cardinality(H) \in Nat
              /\ Cardinality(D) = Cardinality(C) - 1 /\ Cardinality(D) \in Nat
          BY <3>3, <5>2, FS_RemoveElement, FS_CardinalityType
        <5>4. wrong'[a] = wrong[a]
          BY <5>1
        <5> HIDE DEF n, m, G, C, H, D
        <5> QED BY <1>1, <1>5, <3>2, <3>3, <3>4, <5>1, <5>3, <5>4
      <4> QED BY <2>4, <4>1, <4>2, <4>3, <4>4
    <3>8. Due(a, {"setOtp", "setAttempts"})' = Due(a, {"setOtp", "setAttempts"})
      BY <1>2
    <3> HIDE DEF n, m
    <3>9. Counted(a)'
      BY <3>1, <3>2, <3>3, <3>7, <3>8, CountedStep DEF n, m
    <3> QED BY <3>9
  <2>5. \/ /\ pc[v] \in {"compare", "incr"} <=> pc'[v] \in {"compare", "incr"}
           /\ pc[v] = "incr" <=> pc'[v] = "incr"
           /\ attempts' = attempts /\ wrong' = wrong
           /\ pc'[v] = "getAttempts" => pc[v] = "getOtp" /\ otp[a] # NoCode
        \/ /\ pc[v] \in {"getAttempts", "compare", "incr"}
           /\ ~(pc[v] = "getAttempts" /\ pc'[v] = "idle")
    BY <1>1, <1>8, <2>1, <2>2
    DEF VerifyOtp, LookForUser, GetOtp, GetAttempts, Compare, IncrAttempts, UpdateUser,
        DelOtp, DelAttempts, VisitFails, Step, TypeOK
  <2> QED BY <2>3, <2>4, <2>5
<1> QED BY <1>6, <1>7, <1>8 DEF GuessInv

\* Every step accounts for the guesses that were made.
LEMMA GuessInvHolds == Spec => []GuessInv
<1>1. Init => GuessInv
  <2> SUFFICES ASSUME Init PROVE GuessInv
    OBVIOUS
  <2>1. FreshInv
    BY DEF Init, FreshInv
  <2>2. ASSUME NEW a \in Spellings PROVE Counted(a)
    <3>1. /\ Guessing(a) = {} /\ Counting(a) = {} /\ attempts[a].count = 0 /\ wrong[a] = 0
          /\ faults = 0
      BY DEF Init, Guessing, Counting, NoAttempts
    <3>2. Cardinality(Guessing(a)) = 0 /\ Cardinality(Counting(a)) = 0
      BY <3>1, FS_EmptySet
    <3>3. B \in Nat
      BY GuessersAreFew, AuthAssumption DEF B
    <3> QED BY <3>1, <3>2, <3>3 DEF Counted
  <2> QED BY <2>1, <2>2 DEF GuessInv
<1>2. AuthInv /\ AuthInv' /\ GuessInv /\ [Next]_vars => GuessInv'
  <2> SUFFICES ASSUME AuthInv, AuthInv', GuessInv, [Next]_vars PROVE GuessInv'
    OBVIOUS
  <2>1. CASE \E r \in Registrations : Register(r)
    BY <2>1, GuessRegister
  <2>2. CASE \E v \in Visitors : VerifyOtp(v)
    BY <2>2, GuessVerifyOtp
  <2>3. CASE \/ \E r \in Registrations : Mail(r)
             \/ \E a \in Spellings : ExpireOtp(a) \/ ExpireAttempts(a)
             \/ UNCHANGED vars
    BY <2>3, GuessElsewhere
  <2> QED BY <2>1, <2>2, <2>3 DEF Next
<1> QED BY <1>1, <1>2, AuthInvHolds, PTL DEF Spec

\* Clients who guess at the same time overshoot the limit of wrong guesses, and no more
\* than by one request each, however the counter is set, expires or fails.
THEOREM GuessesAreBounded == Spec => []GuessesBounded
<1>1. AuthInv /\ GuessInv => GuessesBounded
  BY GuessInvBounds
<1> QED BY <1>1, AuthInvHolds, GuessInvHolds, PTL

----------------------------------------------------------------------------
(* What locks a code: the counter never runs ahead of the wrong guesses.   *)

\* Each INCR made or about to be made is a wrong guess of its own.
CountInv ==
  \A a \in Spellings : attempts[a].count + Cardinality(Counting(a)) <= wrong[a]

\* Registrations, mails and the clock only ever set the counter back.
LEMMA CountElsewhere ==
  ASSUME AuthInv, AuthInv', CountInv,
         \/ \E r \in Registrations : Register(r) \/ Mail(r)
         \/ \E a \in Spellings : ExpireOtp(a) \/ ExpireAttempts(a)
         \/ UNCHANGED vars
  PROVE  CountInv'
<1> SUFFICES ASSUME NEW a \in Spellings
             PROVE  attempts'[a].count + Cardinality(Counting(a))' <= wrong'[a]
  BY DEF CountInv
<1>1. UNCHANGED <<visitor, wrong>>
  BY DEF Register, LookForTaken, SaveUser, SetOtp, SetAttempts, SendOtp, CrashRegistration,
         Mail, SendMail, SendMailFails, CrashWorker, ExpireOtp, ExpireAttempts
<1>2. attempts'[a] = attempts[a] \/ attempts'[a].count = 0
  BY DEF Register, LookForTaken, SaveUser, SetOtp, SetAttempts, SendOtp, CrashRegistration,
         Mail, SendMail, SendMailFails, CrashWorker, ExpireOtp, ExpireAttempts, NoAttempts,
         AuthInv, TypeOK
<1> DEFINE n == attempts[a].count
           c == Cardinality(Counting(a))
           w == wrong[a]
<1>3. Cardinality(Counting(a))' = c
  BY <1>1 DEF Counting
<1>4. n \in Nat /\ c \in Nat /\ w \in Nat
  BY GuessersAreFew, Numbers DEF AuthInv
<1>5. n + c <= w
  BY DEF CountInv
<1>6. wrong'[a] = w /\ (attempts'[a].count = n \/ attempts'[a].count = 0)
  BY <1>1, <1>2
<1> HIDE DEF n, c, w
<1> QED BY <1>3, <1>4, <1>5, <1>6

\* A verification notes a wrong guess before it counts it, and counts it once.
LEMMA CountVerifyOtp ==
  ASSUME AuthInv, AuthInv', CountInv, NEW v \in Visitors, VerifyOtp(v)
  PROVE  CountInv'
<1> SUFFICES ASSUME NEW a \in Spellings
             PROVE  attempts'[a].count + Cardinality(Counting(a))' <= wrong'[a]
  BY DEF CountInv
<1> USE DEF AuthInv
<1> DEFINE n == attempts[a].count
           m == attempts'[a].count
           C == Counting(a)
           D == Counting(a)'
           w == wrong[a]
           x == wrong'[a]
<1>1. n \in Nat /\ w \in Nat /\ IsFiniteSet(C) /\ Cardinality(C) \in Nat
  BY GuessersAreFew, Numbers
<1>2. n + Cardinality(C) <= w
  BY DEF CountInv
<1>3. \A u \in Visitors : u # v => pc'[u] = pc[u] /\ visited'[u] = visited[u]
  BY DEF VerifyOtp, LookForUser, GetOtp, GetAttempts, Compare, IncrAttempts, UpdateUser,
         DelOtp, DelAttempts, VisitFails, Step, TypeOK
<1>4. CASE pc[v] = "compare" /\ pc'[v] = "incr" /\ visited[v] = a
  <2>1. visited'[v] = a /\ m = n /\ x = w + 1
    BY <1>4
    DEF VerifyOtp, LookForUser, GetOtp, GetAttempts, Compare, IncrAttempts, UpdateUser,
        DelOtp, DelAttempts, VisitFails, Step, TypeOK
  <2>2. D = C \cup {v} /\ v \notin C
    BY <1>3, <1>4, <2>1 DEF Counting
  <2>3. Cardinality(D) = Cardinality(C) + 1
    BY <1>1, <2>2, FS_AddElement
  <2> HIDE DEF n, m, C, D, w, x
  <2>4. m + Cardinality(D) <= x
    BY <1>1, <1>2, <2>1, <2>3
  <2> QED BY <2>4 DEF m, D, x
<1>5. CASE pc[v] = "incr" /\ visited[v] = a
  <2>1. pc'[v] = "idle" /\ m \in {n, n + 1} /\ x = w
    BY <1>5
    DEF VerifyOtp, LookForUser, GetOtp, GetAttempts, Compare, IncrAttempts, UpdateUser,
        DelOtp, DelAttempts, VisitFails, Step, Incremented, TypeOK
  <2>2. D = C \ {v} /\ v \in C
    BY <1>3, <1>5, <2>1 DEF Counting
  <2>3. Cardinality(D) = Cardinality(C) - 1
    BY <1>1, <2>2, FS_RemoveElement
  <2> HIDE DEF n, m, C, D, w, x
  <2>4. m + Cardinality(D) <= x
    BY <1>1, <1>2, <2>1, <2>3
  <2> QED BY <2>4 DEF m, D, x
<1>6. CASE ~(pc[v] = "compare" /\ pc'[v] = "incr" /\ visited[v] = a)
           /\ ~(pc[v] = "incr" /\ visited[v] = a)
  <2>1. D = C
    <3>1. pc'[v] = "incr" => pc[v] = "compare" /\ visited'[v] = visited[v]
      BY DEF VerifyOtp, LookForUser, GetOtp, GetAttempts, Compare, IncrAttempts, UpdateUser,
             DelOtp, DelAttempts, VisitFails, Step, TypeOK
    <3>2. ~(pc'[v] = "incr" /\ visited'[v] = a) /\ ~(pc[v] = "incr" /\ visited[v] = a)
      BY <1>6, <3>1
    <3> QED BY <1>3, <3>2 DEF Counting
  <2>2. m \in {n, 0} /\ x \in {w, w + 1}
    BY <1>6
    DEF VerifyOtp, LookForUser, GetOtp, GetAttempts, Compare, IncrAttempts, UpdateUser,
        DelOtp, DelAttempts, VisitFails, Step, NoAttempts, TypeOK
  <2> HIDE DEF n, m, C, D, w, x
  <2>3. m + Cardinality(D) <= x
    BY <1>1, <1>2, <2>1, <2>2
  <2> QED BY <2>3 DEF m, D, x
<1> QED BY <1>4, <1>5, <1>6

\* Every step keeps the counter within the wrong guesses.
LEMMA CountInvHolds == Spec => []CountInv
<1>1. Init => CountInv
  <2> SUFFICES ASSUME Init, NEW a \in Spellings
               PROVE  attempts[a].count + Cardinality(Counting(a)) <= wrong[a]
    BY DEF CountInv
  <2>1. Counting(a) = {} /\ attempts[a].count = 0 /\ wrong[a] = 0
    BY DEF Init, Counting, NoAttempts
  <2> QED BY <2>1, FS_EmptySet
<1>2. AuthInv /\ AuthInv' /\ CountInv /\ [Next]_vars => CountInv'
  BY CountElsewhere, CountVerifyOtp DEF Next
<1> QED BY <1>1, <1>2, AuthInvHolds, PTL DEF Spec

\* A counter at the limit stands for as many wrong guesses.
LEMMA ExhaustedByGuesses ==
  ASSUME AuthInv, CountInv, NEW a \in Spellings, Exhausted(a)
  PROVE  wrong[a] >= MaxAttempts
<1> DEFINE n == attempts[a].count
           c == Cardinality(Counting(a))
           w == wrong[a]
<1>1. n \in Nat /\ c \in Nat /\ w \in Nat
  BY GuessersAreFew, Numbers DEF AuthInv
<1>2. n + c <= w /\ n >= MaxAttempts
  BY DEF CountInv, Exhausted
<1> HIDE DEF n, c, w
<1>3. w >= MaxAttempts
  BY <1>1, <1>2, AuthAssumption
<1> QED BY <1>3 DEF w

\* Until its TTL is over, the code a client was sent is the one that is stored, and it
\* is refused only after as many wrong guesses as are allowed.
THEOREM CodesWork == Spec => []MailedCodeWorks
<1>1. ASSUME AuthInv, CountInv, NEW r \in mailed,
             account[Email(r)] = "unverified", Email(r) \notin lapsed
      PROVE  otp[Email(r)] = r /\ (Exhausted(Email(r)) => wrong[Email(r)] >= MaxAttempts)
  <2>1. /\ r \in Registrations /\ at[r] = "done" /\ Email(r) \in Spellings
        /\ otp[Email(r)] = r
    BY <1>1, EmailIsCanonical DEF AuthInv, TypeOK, OwnerInv, OwnerOK, Made
  <2> QED BY <1>1, <2>1, ExhaustedByGuesses
<1>2. AuthInv /\ CountInv => MailedCodeWorks
  BY <1>1 DEF MailedCodeWorks
<1> QED BY <1>2, AuthInvHolds, CountInvHolds, PTL

\* Only time, the allowed number of wrong guesses and a registration that did not come
\* to storing its code shut a user out.
THEOREM NobodyElseIsShutOut == Spec => []ShutOutForAReason
<1>1. ASSUME AuthInv, CountInv, NEW a \in Spellings, account[a] = "unverified",
             ~Accepting(a)
      PROVE  \/ a \in lapsed
             \/ wrong[a] >= MaxAttempts
             \/ \E r \in Registrations :
                  asked[r] # NoSpelling /\ Email(r) = a /\ at[r] \in {"setOtp", "codeless"}
  <2>1. CASE otp[a] = NoCode
    BY <1>1, <2>1 DEF AuthInv, UserInv, CodeKept
  <2>2. CASE Exhausted(a)
    BY <1>1, <2>2, ExhaustedByGuesses
  <2> QED BY <1>1, <2>1, <2>2 DEF Accepting
<1>2. AuthInv /\ CountInv => ShutOutForAReason
  BY <1>1 DEF ShutOutForAReason
<1> QED BY <1>2, AuthInvHolds, CountInvHolds, PTL
=============================================================================
