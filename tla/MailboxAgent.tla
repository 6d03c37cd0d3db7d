---------------------------- MODULE MailboxAgent -----------------------------
(***************************************************************************)
(* The buyer's mailbox: agents/mailbox_agent.js, "confirm", and             *)
(* handleMailboxConfirm of frontend/server.js.  Both sign with the mailbox *)
(* key and share one file, lastSign, that limits the rate: it is read       *)
(* before the sensors, the AI and the transaction are awaited and written  *)
(* after.  A job is one run of the agent or one request to the server;      *)
(* what happens between two awaits is one step.  lastSign = 0 stands for    *)
(* "never", as with a clock that counts from 1970.                         *)
(***************************************************************************)
EXTENDS Deliveries

CONSTANTS
    Runs,               \* invocations of the agent
    Posts,              \* requests to the server
    Pause               \* the 60 s between confirmations, in ticks

ASSUME MailboxConstants ==
    /\ Runs \cap Posts = {}
    /\ Pause \in Nat \ {0}

VARIABLES
    lastSign,           \* agents/.mailbox-state.json
    jobs

mailboxVars == <<vars, lastSign, jobs>>

Jobs == Runs \cup Posts
InFlight == {"consulting", "sending", "saving"}

\* sensed: did the sensors read ok; consent: what let it sign if they did not.
\* signedAt, savedAt: when the confirmation was mined and the file written.
NewJob == [at |-> "new", vault |-> NoVault, sensed |-> FALSE, consent |-> "none",
           checkedAt |-> 0, signedAt |-> 0, savedAt |-> 0]
\* A job that is over and has signed nothing leaves nothing behind.
Over == [NewJob EXCEPT !.at = "over"]

PickedUp(t) == [Fresh(t) EXCEPT !.initialized = TRUE, !.funded = TRUE,
                                !.balance = t.courierFee, !.state = "PickedUp"]

\* The couriers are on their way.
MailboxInit ==
    /\ now = 1
    /\ \E t \in Offers : Constructible(t) /\ vault = [v \in Vaults |-> PickedUp(t)]
    /\ backing = [v \in Vaults |-> "spawned"]
    /\ lastSign = 0
    /\ jobs = [j \in Jobs |-> NewJob]

-----------------------------------------------------------------------------
(* One confirmation.                                                       *)

\* Bug: the pause ends a tick early.
RateLimitedShorter == lastSign # 0 /\ now - lastSign < Pause - 1
RateLimited == lastSign # 0 /\ now - lastSign < Pause

\* The file is read, and then the sensors, as the process finds them.  An
\* agent run refuses at once if they read an anomaly.
Check(j, v) ==
    /\ jobs[j].at = "new"
    /\ \/ /\ RateLimited \/ j \in Runs          \* or a sensor anomaly
          /\ jobs' = [jobs EXCEPT ![j] = Over]
       \/ /\ ~RateLimited
          /\ \E ok \in IF j \in Runs THEN {TRUE} ELSE BOOLEAN :
               jobs' = [jobs EXCEPT ![j].at = IF j \in Runs THEN "sending" ELSE "consulting",
                                    ![j].sensed = ok, ![j].vault = v, ![j].checkedAt = now]
    /\ UNCHANGED <<vars, lastSign>>

\* mailboxAiDecision(), as far as it confirms.  "ai": the AI says yes; "nokey":
\* there is no key to ask it with; "fallback": its answer cannot be fetched or
\* parsed, and the sensors read ok.
\* Bug: without an answer it confirms.
ConsentsLenient(j) == {"ai", "nokey", "fallback"}
Consents(j) == {"ai", "nokey"} \cup IF jobs[j].sensed THEN {"fallback"} ELSE {}

\* The server goes on with a consent, or is refused one.
Consulted(j) ==
    /\ jobs[j].at = "consulting"
    /\ \/ jobs' = [jobs EXCEPT ![j] = Over]
       \/ \E c \in Consents(j) :
            jobs' = [jobs EXCEPT ![j].at = "sending",
                                 ![j].consent = IF jobs[j].sensed THEN @ ELSE c]
    /\ UNCHANGED <<vars, lastSign>>

\* The transaction is mined, for a job that waits for it or has died since.
Mined(j) ==
    /\ \/ jobs[j].at = "sending"
          /\ jobs' = [jobs EXCEPT ![j].at = "saving", ![j].signedAt = now]
       \/ jobs[j].at = "orphaned"
          /\ jobs' = [jobs EXCEPT ![j].at = "lost", ![j].signedAt = now]
    /\ ConfirmDelivery(jobs[j].vault) \/ ConfirmAndPay(jobs[j].vault)
    /\ AtOnce /\ UNCHANGED lastSign

\* A wrong code, a late one, or a vault already confirmed.
Reverted(j) ==
    /\ jobs[j].at = "sending" /\ jobs' = [jobs EXCEPT ![j] = Over]
    /\ UNCHANGED <<vars, lastSign>>

\* The agent writes the time it read before it signed, the server the time
\* it is.
\* Bug: the file is written once the transaction is sent.
SaveBeforeMined(j) ==
    /\ jobs[j].at \in {"sending", "saving"}
    /\ lastSign' = now
    /\ jobs' = [jobs EXCEPT ![j].savedAt = now,
                            ![j].at = IF @ = "saving" THEN "saved" ELSE @]
    /\ UNCHANGED vars
Save(j) ==
    /\ jobs[j].at = "saving"
    /\ lastSign' = IF j \in Runs THEN jobs[j].checkedAt ELSE now
    /\ jobs' = [jobs EXCEPT ![j].at = "saved", ![j].savedAt = now]
    /\ UNCHANGED vars

\* A process ends with its jobs, the server with all of its requests; a
\* transaction already sent may still be mined.
Crash(dying) ==
    /\ \E j \in dying : jobs[j].at \in InFlight
    /\ jobs' = [j \in Jobs |->
         IF j \notin dying THEN jobs[j]
         ELSE IF jobs[j].at = "consulting" THEN Over
         ELSE [jobs[j] EXCEPT !.at = CASE @ = "sending" -> "orphaned"
                                       [] @ = "saving" -> "lost"
                                       [] OTHER -> @]]
    /\ UNCHANGED <<vars, lastSign>>

Job(j) ==
    \/ \E v \in Vaults : Check(j, v)
    \/ Consulted(j) \/ Mined(j) \/ Reverted(j) \/ Save(j)

\* Everybody else, once the couriers are on their way.
Elsewhere ==
    /\ \/ \E v \in Vaults :
            \/ RaiseDispute(v) /\ AtOnce
            \/ FinalizeDelivered(v) /\ AtOnce
            \/ ResolveForCourier(v) /\ AtOnce
            \/ Slashing(v)
       \/ Clock
    /\ UNCHANGED <<lastSign, jobs>>

MailboxNext ==
    \/ \E j \in Jobs : Job(j)
    \/ Crash(Posts)
    \/ \E j \in Runs : Crash({j})
    \/ Elsewhere

MailboxSpec == MailboxInit /\ [][MailboxNext]_mailboxVars

-----------------------------------------------------------------------------
(* Properties.                                                             *)

\* Whatever is lost or tried again, a vault is confirmed by one job at most,
\* and the time of that confirmation is the one its dispute window runs from.
ConfirmedOnce ==
    \A j \in Jobs : jobs[j].signedAt # 0 =>
        /\ vault[jobs[j].vault].deliveredAt = jobs[j].signedAt
        /\ \A k \in Jobs \ {j} : jobs[k].signedAt # 0 => jobs[k].vault # jobs[j].vault

\* What a job puts in the file: an agent run the time of its check.
Stamp(j) == IF j \in Runs THEN jobs[j].checkedAt ELSE jobs[j].savedAt

\* Only a confirmation that went through starts the pause: a wrong code, a
\* refusal or a crash costs the next courier no time.
PauseHasACause ==
    lastSign # 0 => \E j \in Jobs :
        /\ jobs[j].at = "saved" /\ jobs[j].signedAt # 0
        /\ lastSign = Stamp(j)

\* A job that begins to confirm does so a full pause after every confirmation
\* on record, counted for the server from its end and for an agent run from
\* its check, unless an agent run that overlapped that one has put its own,
\* older time back in the file.
PausesAreKept ==
    [][\A j, k \in Jobs :
         /\ jobs[j].at = "new" /\ jobs'[j].at \in InFlight
         /\ jobs[k].at = "saved"
         => \/ now - Stamp(k) >= Pause
            \/ \E r \in Runs \ {k} :
                 /\ jobs[r].at = "saved"
                 /\ jobs[r].checkedAt <= jobs[k].savedAt
                 /\ jobs[r].savedAt >= jobs[k].savedAt]_mailboxVars

\* No failure gets a confirmation past sensors that read an anomaly: not an
\* answer of the AI that is lost or cannot be parsed, not a process that dies,
\* and no run of the agent.  What does get past them is the server, when the AI
\* says yes all the same, and when there is no key, so that nobody is asked.
NoFailurePassesSensors ==
    \A j \in Jobs : jobs[j].signedAt # 0 /\ ~jobs[j].sensed =>
        j \in Posts /\ jobs[j].consent \in {"ai", "nokey"}

-----------------------------------------------------------------------------
(* What the documentation says and the code does not keep.                 *)

\* docs/REPORT.md:22, the mailbox "will not call `confirmDelivery` unless its
\* simulated sensors pass": what is confirmed was sensed, whoever signed.
SensorsGateTheMailbox == \A j \in Jobs : jobs[j].signedAt # 0 => jobs[j].sensed
=============================================================================
