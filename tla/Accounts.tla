------------------------------ MODULE Accounts ------------------------------
(***************************************************************************)
(* One address, the account registered for it, its sessions and its reset  *)
(* links (AuthService, PasswordResetService and their repositories).       *)
(*                                                                         *)
(* A request is one READ COMMITTED transaction on one pooled connection; a *)
(* failed login is journalled on a second one.  An action is one statement *)
(* with the code up to the next await.  An UPDATE of several rows takes    *)
(* them one at a time, waits for rows others have written, and looks again *)
(* at its WHERE clause then.  A session in use is a row written: every     *)
(* authenticated request touches its own.                                  *)
(***************************************************************************)
EXTENDS Naturals, FiniteSets

CONSTANTS
    Register,       \* POST /auth/register
    Login,          \* POST /auth/login
    Forgot,         \* POST /auth/password-reset
    Reset,          \* POST /auth/password-reset/confirm
    Change,         \* POST /auth/password
    Logout,         \* POST /auth/logout and /auth/logout-all
    Revoke,         \* DELETE /auth/sessions/...
    Visit,          \* any other request of a signed-in user
    Password,       \* what somebody may type that check_policy accepts
    MaxFailures,    \* MAX_LOGIN_FAILURES
    MaxResets,      \* MAX_RESET_REQUESTS
    PoolSize,       \* pool_size + max_overflow
    MayFail,        \* whether a statement may fail and the process die
    Committed,      \* the transaction of a row everybody sees
    None

Signed  == Change \cup Logout \cup Revoke \cup Visit
Request == Register \cup Login \cup Forgot \cup Reset \cup Signed
Session == Register \cup Login      \* a session is named after its request
Link    == Forgot                   \* and so is a reset token
Row     == Session \cup Link
Writer  == Login \cup Reset \cup Change

\* An argon2 hash: the password and the cost it was made with.
Hash == [word: Password, cost: {0, 1}]

ASSUME RequestAssumption ==
    /\ Register \cap Login = {}
    /\ Session \cap Forgot = {}
    /\ (Session \cup Forgot) \cap Reset = {}
    /\ (Session \cup Forgot \cup Reset) \cap Signed = {}
    /\ Change \cap Logout = {}
    /\ (Change \cup Logout) \cap Revoke = {}
    /\ (Change \cup Logout \cup Revoke) \cap Visit = {}
    /\ Committed \notin Request /\ None \notin Request \cup Password \cup Hash
ASSUME BoundAssumption ==
    /\ MaxFailures \in Nat \ {0} /\ MaxResets \in Nat \ {0} /\ PoolSize \in Nat \ {0}
    /\ MayFail \in BOOLEAN

VARIABLES
    user,       \* rows of app_user, in-flight ones included
    policy,     \* rows of user_policy, likewise
    hash,       \* the committed password_hash
    draft,      \* the password_hash a transaction has written
    row,        \* rows of user_session and password_reset_token
    holder,     \* the transaction that has written a committed row
    ending,     \* the rows whose holder has set revoked_at or used_at
    attempts,   \* failed rows of login_attempt
    audit,      \* rows of audit_event: <<outcome, request, transaction>>
    mailed,     \* the links that were sent
    cost,       \* the hasher's parameters
    pc,         \* the statement a request has reached
    word,       \* the password typed: to sign in, or as the current one
    fresh,      \* the new password
    via,        \* the session of the cookie
    link,       \* the reset token presented
    aim,        \* the sessions a request is to end
    todo,       \* the rows an UPDATE has still to take
    known       \* the sessions and links that were good when it began

account == <<user, policy, hash, draft>>
rights  == <<row, holder, ending, mailed>>
journal == <<attempts, audit>>
inputs  == <<word, fresh, via, link, aim, known>>
vars == <<account, rights, journal, cost, pc, inputs, todo>>

Ended   == {"done", "refused", "rejected", "turned_away", "timed_out", "failed"}
Running == {"user", "policy", "verify", "wrong", "limited", "rehash", "session",
            "burn", "burning", "token", "mark", "touch", "check", "reject",
            "raise", "rewrite", "end", "ending", "log", "log_refusal", "sent"}

TypeOK ==
    /\ user \subseteq [by: Register, tx: Register \cup {Committed}]
    /\ policy \subseteq [by: Register, tx: Register \cup {Committed}]
    /\ hash \in Hash \cup {None}
    /\ draft \in [Register \cup Writer -> Hash \cup {None}]
    /\ row \in [Row -> {"none", "open", "good", "over"}]
    /\ holder \in [Row -> Reset \cup Signed \cup Forgot \cup {None}]
    /\ ending \subseteq {x \in Row : holder[x] # None}
    /\ attempts \subseteq [by: Login, tx: Login \cup {Committed}]
    /\ audit \subseteq [outcome: {"done", "refused"}, by: Request,
                        tx: Request \cup {Committed}]
    /\ mailed \subseteq Link
    /\ cost \in {0, 1}
    /\ pc \in [Request -> {"idle"} \cup Running \cup Ended]
    /\ word \in [Session \cup Change -> Password \cup {None}]
    /\ fresh \in [Reset \cup Change -> Password \cup {None}]
    /\ via \in [Signed -> Session \cup {None}]
    /\ link \in [Reset -> Link \cup {None}]
    /\ aim \in [Request -> SUBSET Session]
    /\ todo \in [Request -> SUBSET Row]
    /\ known \in [Request -> SUBSET Row]

Init ==
    /\ user = {} /\ policy = {} /\ attempts = {} /\ audit = {} /\ mailed = {}
    /\ hash = None /\ draft = [r \in Register \cup Writer |-> None]
    /\ row = [x \in Row |-> "none"] /\ holder = [x \in Row |-> None] /\ ending = {}
    /\ cost = 0
    /\ pc = [r \in Request |-> "idle"]
    /\ word = [r \in Session \cup Change |-> None]
    /\ fresh = [r \in Reset \cup Change |-> None]
    /\ via = [r \in Signed |-> None]
    /\ link = [r \in Reset |-> None]
    /\ aim = [r \in Request |-> {}]
    /\ todo = [r \in Request |-> {}] /\ known = [r \in Request |-> {}]

-----------------------------------------------------------------------------
(* Transactions, locks and connections.                                    *)

Registered == \E u \in user : u.tx = Committed
Good(X)    == {x \in X : row[x] = "good"}

\* The row x is written by nobody but, perhaps, r.
Free(r, x) == holder[x] \in {r, None}

\* (Mutant: no unique constraint on the address.)
AnyAddress(r) == {}

\* uq_app_user_email: rows that keep r from inserting its own.
SameAddress(r) == {u \in user : u.by # r}

Wanted(r) ==
    CASE pc[r] = "touch"               -> {via[r]}
      [] pc[r] = "mark"                -> {link[r]}
      [] pc[r] \in {"burning", "ending"} -> todo[r]
      [] OTHER                         -> {}

\* The transactions whose end r's statement waits for.
Blockers(r) ==
    {t \in Request \ {r} :
        \/ pc[r] = "user" /\ [by |-> t, tx |-> t] \in SameAddress(r)
        \/ /\ pc[r] \in {"rehash", "rewrite"}
           /\ t \in Writer /\ draft[t] # None
        \/ /\ \A x \in Wanted(r) : ~Free(r, x)
           /\ \E x \in Wanted(r) : holder[x] = t}

Deadlocked(r) ==
    \E S \in SUBSET {x \in Request : Blockers(x) # {}} :
        /\ r \in S
        /\ \A x \in S : Blockers(x) \cap S # {}
        /\ \A x \in S : \E y \in S : x \in Blockers(y)

Connections == Cardinality({r \in Request : pc[r] \in Running})
Available   == Connections < PoolSize

Goto(r, label) == pc' = [pc EXCEPT ![r] = label]

Settled(T, r) == {x \in T : x.tx # r}
                 \cup {[x EXCEPT !.tx = Committed] : x \in {y \in T : y.tx = r}}
Undone(T, r)  == {x \in T : x.tx # r}

\* (Mutant: a transaction that is left open keeps the rows it has written.)
KeepRows(r) == UNCHANGED holder

\* The end of a transaction lets go of its rows.
Release(r) == holder' = [x \in Row |-> IF holder[x] = r THEN None ELSE holder[x]]

Owns(r, x) == x = r /\ row[x] = "open"

Rollback(r) ==
    /\ user' = Undone(user, r) /\ policy' = Undone(policy, r)
    /\ attempts' = Undone(attempts, r) /\ audit' = Undone(audit, r)
    /\ draft' = [t \in DOMAIN draft |-> IF t = r THEN None ELSE draft[t]]
    /\ row' = [x \in Row |-> IF Owns(r, x) THEN "none" ELSE row[x]]
    /\ ending' = {x \in ending : holder[x] # r}
    /\ Release(r)
    /\ todo' = [todo EXCEPT ![r] = {}]
    /\ UNCHANGED <<hash, mailed, cost, inputs>>

\* A request arrives when a connection is free for it, and remembers nothing:
\* `known` is kept for the properties.
Begin(r, label) ==
    /\ pc[r] = "idle" /\ Available
    /\ Goto(r, label)
    /\ known' = [known EXCEPT ![r] = Good(Row)]
    /\ UNCHANGED <<account, rights, journal, cost, todo>>

-----------------------------------------------------------------------------
(* AuthService.register.                                                   *)

CheckAddress(r) ==
    \E p \in Password :
        /\ Begin(r, IF Registered THEN "refused" ELSE "user")
        /\ word' = [word EXCEPT ![r] = p]
        /\ UNCHANGED <<fresh, via, link, aim>>

\* UserRepository.create: whoever comes second fails on the constraint.
InsertUser(r) ==
    /\ pc[r] = "user" /\ Blockers(r) = {}
    /\ IF SameAddress(r) = {}
         THEN /\ user' = user \cup {[by |-> r, tx |-> r]}
              /\ draft' = [draft EXCEPT ![r] = [word |-> word[r], cost |-> cost]]
              /\ Goto(r, "policy")
              /\ UNCHANGED <<policy, hash, rights, journal, cost, inputs, todo>>
         ELSE Rollback(r) /\ Goto(r, "failed")

InsertPolicy(r) ==
    /\ pc[r] = "policy"
    /\ policy' = policy \cup {[by |-> r, tx |-> r]}
    /\ Goto(r, "session")
    /\ UNCHANGED <<user, hash, draft, rights, journal, cost, inputs, todo>>

-----------------------------------------------------------------------------
(* AuthService.login.                                                      *)

\* recent_failures: some of the failures may be older than the window.
CountFailures(r) ==
    \E p \in Password, recent \in SUBSET {a \in attempts : a.tx = Committed} :
        /\ Begin(r, IF Cardinality(recent) >= MaxFailures THEN "limited" ELSE "verify")
        /\ word' = [word EXCEPT ![r] = p]
        /\ UNCHANGED <<fresh, via, link, aim>>

\* The account's hash, or the dummy one, against the password.
Verify(r) ==
    /\ pc[r] = "verify"
    /\ Goto(r, IF hash = None THEN "wrong"
               ELSE IF hash.word # word[r] THEN "wrong"
               ELSE IF hash.cost < cost THEN "rehash" ELSE "session")
    /\ UNCHANGED <<account, rights, journal, cost, inputs, todo>>

\* (Mutant: journalled on the request's own connection, then rolled back.)
JournalInline(r) ==
    /\ pc[r] \in {"wrong", "limited"} /\ Available
    /\ Goto(r, IF pc[r] = "wrong" THEN "refused" ELSE "turned_away")
    /\ UNCHANGED <<account, rights, journal, cost, inputs, todo>>

\* _journal_failure: committed on a connection of its own, then the 401 or
\* the 429 rolls the request's transaction back, which has written nothing.
Journal(r) ==
    /\ pc[r] \in {"wrong", "limited"} /\ Available
    /\ audit' = audit \cup {[outcome |-> "refused", by |-> r, tx |-> Committed]}
    /\ IF pc[r] = "wrong"
         THEN /\ attempts' = attempts \cup {[by |-> r, tx |-> Committed]}
              /\ Goto(r, "refused")
         ELSE UNCHANGED attempts /\ Goto(r, "turned_away")
    /\ UNCHANGED <<account, rights, cost, inputs, todo>>

\* No second connection within the pool's timeout.
PoolTimeout(r) ==
    /\ pc[r] \in {"wrong", "limited"} /\ ~Available
    /\ Goto(r, "timed_out")
    /\ UNCHANGED <<account, rights, journal, cost, inputs, todo>>

\* update_password_hash, with the password that was verified.
Rehash(r) ==
    /\ pc[r] = "rehash" /\ Blockers(r) = {}
    /\ draft' = [draft EXCEPT ![r] = [word |-> word[r], cost |-> cost]]
    /\ Goto(r, "session")
    /\ UNCHANGED <<user, policy, hash, rights, journal, cost, inputs, todo>>

\* attempts.record and _issue_session.
InsertSession(r) ==
    /\ pc[r] = "session"
    /\ row' = [row EXCEPT ![r] = "open"]
    /\ Goto(r, "log")
    /\ UNCHANGED <<account, holder, ending, mailed, journal, cost, inputs, todo>>

-----------------------------------------------------------------------------
(* Ending sessions and links: UPDATE ... WHERE ... IS NULL.                *)

\* The statement sees the rows that are committed when it starts,
StartEnding(r) ==
    /\ pc[r] = "end"
    /\ todo' = [todo EXCEPT ![r] = Good(aim[r])]
    /\ Goto(r, "ending")
    /\ UNCHANGED <<account, rights, journal, cost, inputs>>

StartBurning(r) ==
    /\ pc[r] = "burn"
    /\ todo' = [todo EXCEPT ![r] = Good(Link)]
    /\ Goto(r, "burning")
    /\ UNCHANGED <<account, rights, journal, cost, inputs>>

\* (Mutant: rows another transaction has written are left out.)
TakeFree(r, x) ==
    /\ pc[r] \in {"burning", "ending"} /\ x \in todo[r]
    /\ todo' = [todo EXCEPT ![r] = @ \ {x}]
    /\ IF row[x] = "good" /\ Free(r, x)
         THEN /\ holder' = [holder EXCEPT ![x] = r] /\ ending' = ending \cup {x}
         ELSE UNCHANGED <<holder, ending>>
    /\ UNCHANGED <<account, row, mailed, journal, cost, pc, inputs>>

\* (Mutant: revoked_at is set without the row's lock.)
TakeUnlocked(r, x) ==
    /\ pc[r] \in {"burning", "ending"} /\ x \in todo[r] /\ Free(r, x)
    /\ todo' = [todo EXCEPT ![r] = @ \ {x}]
    /\ ending' = IF row[x] = "good" THEN ending \cup {x} ELSE ending
    /\ UNCHANGED <<account, row, holder, mailed, journal, cost, pc, inputs>>

\* takes one after the other, and skips those that ended while it waited.
Take(r, x) ==
    /\ pc[r] \in {"burning", "ending"} /\ x \in todo[r] /\ Free(r, x)
    /\ todo' = [todo EXCEPT ![r] = @ \ {x}]
    /\ IF row[x] = "good"
         THEN /\ holder' = [holder EXCEPT ![x] = r] /\ ending' = ending \cup {x}
         ELSE UNCHANGED <<holder, ending>>
    /\ UNCHANGED <<account, row, mailed, journal, cost, pc, inputs>>

\* revoke_session: no row is a 404.
Taken(r) ==
    /\ pc[r] \in {"burning", "ending"} /\ todo[r] = {}
    /\ IF r \in Revoke /\ ~\E x \in aim[r] : x \in ending /\ holder[x] = r
         THEN Rollback(r) /\ Goto(r, "refused")
         ELSE /\ Goto(r, IF pc[r] = "ending" /\ r \in Change THEN "burn"
                         ELSE IF r \in Forgot THEN "token" ELSE "log")
              /\ UNCHANGED <<account, rights, journal, cost, inputs, todo>>

-----------------------------------------------------------------------------
(* PasswordResetService.                                                   *)

\* get_by_email and count_recent; some requests may be older than the window.
LookUp(r) ==
    \E recent \in SUBSET {x \in Link : row[x] \in {"good", "over"}} :
        /\ Begin(r, IF Registered /\ Cardinality(recent) < MaxResets
                      THEN "burn" ELSE "log_refusal")
        /\ UNCHANGED <<word, fresh, via, link, aim>>

\* The message is sent before the row is committed.
InsertLink(r) ==
    /\ pc[r] = "token"
    /\ row' = [row EXCEPT ![r] = "open"]
    /\ mailed' = mailed \cup {r}
    /\ Goto(r, "log")
    /\ UNCHANGED <<account, holder, ending, journal, cost, inputs, todo>>

\* get_by_token_hash: an unknown, used or, at any time, expired link is a 400.
ReadLink(r) ==
    \E x \in mailed, p \in Password, expired \in BOOLEAN :
        /\ Begin(r, IF row[x] = "good" /\ ~expired THEN "mark" ELSE "refused")
        /\ link' = [link EXCEPT ![r] = x]
        /\ fresh' = [fresh EXCEPT ![r] = p]
        /\ aim' = [aim EXCEPT ![r] = Session]
        /\ UNCHANGED <<word, via>>

\* (Mutant: the token was seen unused, so it is marked without looking again.)
MarkSeen(r) ==
    /\ pc[r] = "mark" /\ Blockers(r) = {}
    /\ holder' = [holder EXCEPT ![link[r]] = r]
    /\ ending' = ending \cup {link[r]}
    /\ Goto(r, "rewrite")
    /\ UNCHANGED <<account, row, mailed, journal, cost, inputs, todo>>

\* mark_used: of two confirmations one gets a row.
MarkUsed(r) ==
    /\ pc[r] = "mark" /\ Blockers(r) = {}
    /\ IF row[link[r]] = "good"
         THEN /\ holder' = [holder EXCEPT ![link[r]] = r]
              /\ ending' = ending \cup {link[r]}
              /\ Goto(r, "rewrite")
         ELSE UNCHANGED <<holder, ending>> /\ Goto(r, "refused")
    /\ UNCHANGED <<account, row, mailed, journal, cost, inputs, todo>>

\* (Mutant: the sessions are left as they are.)
RewriteOnly(r) ==
    /\ pc[r] = "rewrite" /\ Blockers(r) = {}
    /\ draft' = [draft EXCEPT ![r] = [word |-> fresh[r], cost |-> cost]]
    /\ Goto(r, "log")
    /\ UNCHANGED <<user, policy, hash, rights, journal, cost, inputs, todo>>

\* update_password_hash, of a reset and of a change.
Rewrite(r) ==
    /\ pc[r] = "rewrite" /\ Blockers(r) = {}
    /\ draft' = [draft EXCEPT ![r] = [word |-> fresh[r], cost |-> cost]]
    /\ Goto(r, "end")
    /\ UNCHANGED <<user, policy, hash, rights, journal, cost, inputs, todo>>

-----------------------------------------------------------------------------
(* Signed-in requests.                                                     *)

\* The sessions r ends: all but its own, its own or all, or one of the list.
Aims(r, s) ==
    IF r \in Change THEN {Session \ {s}}
    ELSE IF r \in Logout THEN {{s}, Session}
    ELSE IF r \in Revoke THEN {{t} : t \in Session} ELSE {{}}

Typed(r) == IF r \in Change THEN Password ELSE {None}

\* authenticate: a session unknown, revoked or, at any time, expired is a 401.
Authenticate(r) ==
    \E s \in {x \in Session : row[x] # "none"}, expired \in BOOLEAN,
       p \in Typed(r), q \in Typed(r) :
        \E sessions \in Aims(r, s) :
            /\ Begin(r, IF row[s] = "good" /\ ~expired THEN "touch" ELSE "refused")
            /\ via' = [via EXCEPT ![r] = s]
            /\ aim' = [aim EXCEPT ![r] = sessions]
            /\ word' = IF r \in Change THEN [word EXCEPT ![r] = p] ELSE word
            /\ fresh' = IF r \in Change THEN [fresh EXCEPT ![r] = q] ELSE fresh
            /\ UNCHANGED link

\* touch: a session that was revoked while it waited is touched as well.
Touch(r) ==
    /\ pc[r] = "touch" /\ Blockers(r) = {}
    /\ holder' = [holder EXCEPT ![via[r]] = r]
    /\ Goto(r, IF r \in Change THEN "check" ELSE IF r \in Visit THEN "sent" ELSE "end")
    /\ UNCHANGED <<account, row, ending, mailed, journal, cost, inputs, todo>>

\* change_password: the current password is required,
CheckCurrent(r) ==
    /\ pc[r] = "check"
    /\ Goto(r, IF hash.word = word[r] THEN "rewrite" ELSE "reject")
    /\ UNCHANGED <<account, rights, journal, cost, inputs, todo>>

\* and a wrong one is recorded in the transaction that
LogRejection(r) ==
    /\ pc[r] = "reject"
    /\ audit' = audit \cup {[outcome |-> "refused", by |-> r, tx |-> r]}
    /\ Goto(r, "raise")
    /\ UNCHANGED <<account, rights, attempts, cost, inputs, todo>>

\* the 401 then rolls back.
Raise(r) == pc[r] = "raise" /\ Rollback(r) /\ Goto(r, "rejected")

-----------------------------------------------------------------------------
(* The end of a request.                                                   *)

Log(r) ==
    /\ pc[r] \in {"log", "log_refusal"}
    /\ audit' = audit \cup
          {[outcome |-> IF pc[r] = "log" THEN "done" ELSE "refused",
            by |-> r, tx |-> r]}
    /\ Goto(r, "sent")
    /\ UNCHANGED <<account, rights, attempts, cost, inputs, todo>>

Commit(r) ==
    /\ pc[r] = "sent"
    /\ user' = Settled(user, r) /\ policy' = Settled(policy, r)
    /\ audit' = Settled(audit, r)
    /\ IF r \in DOMAIN draft /\ draft[r] # None
         THEN hash' = draft[r] /\ draft' = [draft EXCEPT ![r] = None]
         ELSE UNCHANGED <<hash, draft>>
    /\ row' = [x \in Row |-> IF Owns(r, x) THEN "good"
                             ELSE IF x \in ending /\ holder[x] = r THEN "over"
                             ELSE row[x]]
    /\ ending' = {x \in ending : holder[x] # r}
    /\ Release(r)
    /\ Goto(r, "done")
    /\ UNCHANGED <<mailed, attempts, cost, inputs, todo>>

\* A statement fails, or the process dies, and PostgreSQL rolls back.
Fail(r) == MayFail /\ pc[r] \in Running /\ Rollback(r) /\ Goto(r, "failed")

DeadlockAbort(r) ==
    pc[r] \in Running /\ Deadlocked(r) /\ Rollback(r) /\ Goto(r, "failed")

\* The server is started again with a higher cost.
RaiseCost ==
    /\ cost = 0 /\ \A r \in Request : pc[r] \notin Running
    /\ cost' = 1
    /\ UNCHANGED <<account, rights, journal, pc, inputs, todo>>

-----------------------------------------------------------------------------

RegisterStep(r) == CheckAddress(r) \/ InsertUser(r) \/ InsertPolicy(r)
LoginStep(r)    == CountFailures(r) \/ Verify(r) \/ Journal(r) \/ Rehash(r)
ForgotStep(r)   == LookUp(r) \/ StartBurning(r) \/ InsertLink(r)
ResetStep(r)    == ReadLink(r) \/ MarkUsed(r) \/ Rewrite(r)
SignedStep(r)   ==
    Authenticate(r) \/ Touch(r) \/ CheckCurrent(r) \/ LogRejection(r) \/ Raise(r)
ChangeStep(r)   == Rewrite(r) \/ StartBurning(r)
Sweep(r)        == StartEnding(r) \/ (\E x \in Row : Take(r, x)) \/ Taken(r)

Step(r) ==
    \/ r \in Register /\ RegisterStep(r)
    \/ r \in Login /\ LoginStep(r)
    \/ r \in Session /\ InsertSession(r)
    \/ r \in Forgot /\ ForgotStep(r)
    \/ r \in Reset /\ ResetStep(r)
    \/ r \in Signed /\ SignedStep(r)
    \/ r \in Change /\ ChangeStep(r)
    \/ Sweep(r) \/ Log(r) \/ Commit(r)

Next ==
    \/ \E r \in Request : Step(r) \/ Fail(r) \/ DeadlockAbort(r)
    \/ \E r \in Login : PoolTimeout(r)
    \/ RaiseCost

Spec == Init /\ [][Next]_vars

\* A started handler keeps running, PostgreSQL looks for deadlocks and the
\* pool's timeout expires; nothing need arrive and nothing need fail.
FairSpec ==
    /\ Spec
    /\ \A r \in Request : WF_vars(pc[r] # "idle" /\ Step(r)) /\ WF_vars(DeadlockAbort(r))
    /\ \A r \in Login : WF_vars(PoolTimeout(r))

-----------------------------------------------------------------------------
(* Properties.                                                             *)

\* One account per address, complete when anybody sees it: its policy, its
\* first session and its event come with it (register; uq_app_user_email).
AccountsAreComplete ==
    /\ \A u, v \in user : u = v
    /\ \A u \in user : u.tx = Committed =>
          /\ [by |-> u.by, tx |-> Committed] \in policy
          /\ row[u.by] \in {"good", "over"}
          /\ [outcome |-> "done", by |-> u.by, tx |-> Committed] \in audit
          /\ hash # None

\* A reset link changes the password once, however many requests present it
\* and whatever fails in between (mark_used).
LinksWorkOnce ==
    \A a, b \in {r \in Reset : pc[r] \in {"sent", "done"}} :
        link[a] = link[b] => a = b

\* What r ends of the rows x that were good when it began.
Ends(r, x) ==
    \/ x \in Session /\ r \in Reset \cup Change \cup Logout /\ x \in aim[r]
    \/ x \in Link /\ (r \in Change \/ (r \in Forgot /\ row[r] # "none"))

\* Sessions and links that were good when a logout, a password change, a reset
\* or a new link was asked for are over once it is answered and committed,
\* whoever used them meanwhile (revoke_*_for_user, invalidate_outstanding).
WhatWasGoodEnds ==
    \A r \in Request : pc[r] = "done" =>
        \A x \in known[r] : Ends(r, x) => row[x] = "over"

\* Every login refused for its password is counted, and every refused or
\* limited one is on record, although its own transaction is rolled back
\* (_journal_failure).
RefusalsAreOnRecord ==
    \A r \in Login :
        /\ pc[r] = "refused" => [by |-> r, tx |-> Committed] \in attempts
        /\ pc[r] \in {"refused", "turned_away"} =>
              [outcome |-> "refused", by |-> r, tx |-> Committed] \in audit

\* Every request that starts ends, whichever rows it waits for: deadlocks are
\* found, and the pool's timeout breaks the ones PostgreSQL cannot see.
EveryRequestEnds ==
    \A r \in Request : pc[r] # "idle" ~> pc[r] \in Ended
=============================================================================
