----------------------------- MODULE VoiceSessions -----------------------------
(***************************************************************************)
(* The voice orchestrator (device-voice-service.js) as a client of the AI  *)
(* usage service: a session is paid for by one usage event, kept in the    *)
(* memory of the orchestrator, served once, and its event closed.  An      *)
(* answer of the usage service may get lost, and so may a call: it is one  *)
(* that never goes on.                                                     *)
(***************************************************************************)
EXTENDS CreditAccounts

CONSTANTS
  Sessions,    \* session requests of devices; the event of a session has its name
  Uploads,     \* audio requests
  Admins,      \* administrative requests to the usage service
  SessionOf    \* SessionOf[u]: session the audio is for

ASSUME VoiceAssumption ==
  /\ Events = Sessions
  /\ Calls = (Sessions \X {"preflight", "expire"}) \cup (Uploads \X {"complete", "fail"})
               \cup (Admins \X {"admin"})
  /\ SessionOf \in [Uploads -> Sessions]

VARIABLES
  session,     \* session[s]: createSession, then the entry of the repository, which
               \* keeps "expired" ones, past expires_at, until they are purged
  upload       \* upload[u]: processAudio

voiceVars == <<session, upload>>
vars == <<account, ledger, booked, event, policy, call, month, session, upload>>

VoiceInit ==
  /\ UsageInit
  /\ session = [s \in Sessions |-> "new"]
  /\ upload = [u \in Uploads |-> "new"]

Ended(c) == call[c].pc \in {"done", "error"}

Send(c, op, s, n) ==
  /\ call' = [call EXCEPT ![c] = Begin(c, op, s, n)]
  /\ UNCHANGED <<account, ledger, booked, event, policy, month>>

----------------------------------------------------------------------------

\* purgeExpired, and the call that closes each event (failExpiredSessions)
Purged == {s \in Sessions : session[s] = "expired"}
Closing == [c \in Calls |-> IF c[2] = "expire" /\ c[1] \in Purged
                            THEN Begin(c, "fail", c[1], 0) ELSE call[c]]

\* A createSession that is refused later: it has purged, nothing more.
PurgeExpired ==
  /\ Purged # {}
  /\ session' = [s \in Sessions |-> IF s \in Purged THEN "closed" ELSE session[s]]
  /\ call' = Closing
  /\ UNCHANGED <<account, ledger, booked, event, policy, month, upload>>

\* createSession up to its first await, which is for the calls of its own purge.
AskSession(s) ==
  /\ session[s] = "new"
  /\ session' = [e \in Sessions |-> CASE e = s -> "asked"
                                      [] e \in Purged -> "closed"
                                      [] OTHER -> session[e]]
  /\ call' = Closing
  /\ UNCHANGED <<account, ledger, booked, event, policy, month, upload>>

\* Those calls were answered or lost, which is all the same (`.catch(() => {})`); the
\* authorization, the binding and the rate limits pass, and the preflight is sent.
CreateSession(s) ==
  /\ session[s] = "asked"
  /\ session' = [session EXCEPT ![s] = "preflight"]
  /\ \E n \in Amounts : Send(<<s, "preflight">>, "preflight", s, n)
  /\ UNCHANGED upload

\* The answer of the preflight: the session is saved, or the request refused.
OpenSession(s) ==
  /\ session[s] = "preflight" /\ Ended(<<s, "preflight">>)
  /\ session' = [session EXCEPT ![s] =
       IF call[<<s, "preflight">>].pc = "done" THEN "awaiting_audio" ELSE "closed"]
  /\ UNCHANGED <<usageVars, upload>>

\* Mutant: a failed preflight leaves the session half open.
PreflightLostHalf(s) ==
  /\ session[s] = "preflight"
  /\ session' = [session EXCEPT ![s] = "pending"]
  /\ UNCHANGED <<usageVars, upload>>

\* fetch fails although the usage service goes on
PreflightLost(s) ==
  /\ session[s] = "preflight"
  /\ session' = [session EXCEPT ![s] = "closed"]
  /\ UNCHANGED <<usageVars, upload>>

\* Date.now() passes expires_at
Expire(s) ==
  /\ session[s] = "awaiting_audio"
  /\ session' = [session EXCEPT ![s] = "expired"]
  /\ UNCHANGED <<usageVars, upload>>

\* Mutant: the session is deleted when its audio has been processed.
ProcessAudioKept(u) ==
  /\ upload[u] = "new" /\ session[SessionOf[u]] = "awaiting_audio"
  /\ upload' = [upload EXCEPT ![u] = "processing"]
  /\ UNCHANGED <<usageVars, session>>

\* processAudio: find, check and delete without an await in between
ProcessAudio(u) ==
  LET s == SessionOf[u] IN
  /\ upload[u] = "new" /\ session[s] = "awaiting_audio"
  /\ session' = [session EXCEPT ![s] = "closed"]
  /\ upload' = [upload EXCEPT ![u] = "processing"]
  /\ UNCHANGED usageVars

\* Audio for an expired session: the event is closed at once.
RejectExpired(u) ==
  LET s == SessionOf[u] IN
  /\ upload[u] = "new" /\ session[s] = "expired"
  /\ session' = [session EXCEPT ![s] = "closed"]
  /\ upload' = [upload EXCEPT ![u] = "failing"]
  /\ Send(<<u, "fail">>, "fail", s, 0)

\* No such session, wrong token, wrong format or length: nothing changes.
RejectAudio(u) ==
  /\ upload[u] = "new"
  /\ upload' = [upload EXCEPT ![u] = "ended"]
  /\ UNCHANGED <<usageVars, session>>

\* Mutant: billing without an answer is tried again.
BillAudioAgain(u) ==
  /\ upload[u] \in {"processing", "completing"}
  /\ upload' = [upload EXCEPT ![u] = "completing"]
  /\ \E n \in Amounts : Send(<<u, "complete">>, "complete", SessionOf[u], n)
  /\ UNCHANGED session

\* The provider answers with audio and a safety decision: the usage is billed.
BillAudio(u) ==
  /\ upload[u] = "processing"
  /\ upload' = [upload EXCEPT ![u] = "completing"]
  /\ \E n \in Amounts : Send(<<u, "complete">>, "complete", SessionOf[u], n)
  /\ UNCHANGED session

AnswerAudio(u) ==
  /\ upload[u] = "completing" /\ call[<<u, "complete">>].pc = "done"
  /\ upload' = [upload EXCEPT ![u] = "ended"]
  /\ UNCHANGED <<usageVars, session>>

\* The catch: the provider failed, or the billing call failed or its answer is lost.
FailAudio(u) ==
  /\ \/ upload[u] = "processing"
     \/ upload[u] = "completing" /\ call[<<u, "complete">>].pc # "done"
  /\ upload' = [upload EXCEPT ![u] = "failing"]
  /\ Send(<<u, "fail">>, "fail", SessionOf[u], 0)
  /\ UNCHANGED session

FailAnswered(u) ==
  /\ upload[u] = "failing"
  /\ upload' = [upload EXCEPT ![u] = "ended"]
  /\ UNCHANGED <<usageVars, session>>

\* The orchestrator dies with its sessions; a new one starts empty.
Restart ==
  /\ session' = [s \in Sessions |-> IF session[s] = "new" THEN "new" ELSE "lost"]
  /\ upload' = [u \in Uploads |-> IF upload[u] = "new" THEN "new" ELSE "ended"]
  /\ UNCHANGED usageVars

\* Administrative requests, one per name.
Administrate ==
  /\ \E a \in Admins, op \in AdminOps, e \in Events, n \in Amounts :
       Request(<<a, "admin">>, op, e, n)
  /\ UNCHANGED voiceVars

SessionStep(s) ==
  \/ AskSession(s)
  \/ CreateSession(s)
  \/ OpenSession(s)
  \/ PreflightLost(s)
  \/ Expire(s)

UploadStep(u) ==
  \/ ProcessAudio(u)
  \/ RejectExpired(u)
  \/ RejectAudio(u)
  \/ BillAudio(u)
  \/ AnswerAudio(u)
  \/ FailAudio(u)
  \/ FailAnswered(u)

Next ==
  \/ PurgeExpired
  \/ \E s \in Sessions : SessionStep(s)
  \/ \E u \in Uploads : UploadStep(u)
  \/ Restart
  \/ Administrate
  \/ (\E c \in Calls : CallStep(c)) /\ UNCHANGED voiceVars
  \/ NextMonth /\ UNCHANGED voiceVars

\* No fairness: a call that never goes on was lost, and nobody has to call again.
Spec == VoiceInit /\ [][Next]_vars

----------------------------------------------------------------------------

VoiceTypeOK ==
  /\ TypeOK
  /\ session \in [Sessions -> {"new", "asked", "preflight", "awaiting_audio", "expired", "closed", "lost"}]
  /\ upload \in [Uploads -> {"new", "processing", "completing", "failing", "ended"}]

(***************************************************************************)
(* A session is paid for once, although the usage service would book the   *)
(* same event twice: uploads for one session race, one of them wins        *)
(* ("processes bounded PCM once").                                         *)
(***************************************************************************)
BookedOnce == \A e \in Events : booked[e] <= 1

(***************************************************************************)
(* Whatever is reported as a success has been entered in the ledger.       *)
(***************************************************************************)
SuccessIsBooked == \A e \in Events : event[e].status = "success" => booked[e] >= 1

(***************************************************************************)
(* A session is either served or given up: one whose event a purge closes  *)
(* as expired is not billed, before or after, whatever upload arrives at   *)
(* the same time and whichever request purges (failExpiredSessions runs at *)
(* the start of every createSession, while audio is being processed).      *)
(***************************************************************************)
ExpiredNotBilled ==
  \A s \in Sessions : call[<<s, "expire">>].op = "fail" => booked[s] = 0

=============================================================================
