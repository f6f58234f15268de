------------------------------ MODULE Accounts -----------------------------
(***************************************************************************)
(* Accounts on the server: Invitations and the links that make an Account, *)
(* Sign-ins with a password or with Google, the pause after wrong          *)
(* passwords, password resets, Suspension and Impersonation                *)
(* (identity.service.ts, invitations.service.ts, accounts.service.ts).     *)
(*                                                                         *)
(* Every request is a task of its own, so whatever it read before an await *)
(* may be stale when it writes. A transaction is one step, unless what     *)
(* another one does between two of its statements matters: the attempt at  *)
(* a password, which holds its email's row while it hashes, and the request*)
(* for a reset, whose delete does not see a link not committed yet.        *)
(*                                                                         *)
(* Whatever a request makes is named after it: its Sign-in's token, the    *)
(* link it sends, the Invitation, Account or Impersonation it inserts and  *)
(* the password it chooses.                                                *)
(***************************************************************************)
EXTENDS Absent, Naturals, FiniteSets, Sequences

CONSTANTS
    Request,            \* the requests that reach the server
    Email, Subject,     \* email addresses and Google accounts
    founder,            \* an Account there already,
    founderMail,        \*   its email,
    first,              \*   its password, and the first Invitation and its link
    invitedMail,        \* the email that Invitation is for
    InvitationLife, ResetLife, ImpersonationLife,   \* how long each lasts
    FreeFailures,       \* wrong passwords that cost nothing
    Waits,              \* the wait after each one past those
    MaxTime             \* bound: how far the clock goes

Account == Request \cup {founder}
Sent == Request \cup {first}

ASSUME MailsAreKnown == {founderMail, invitedMail} \subseteq Email

ASSUME NamesAreApart ==
    /\ first \notin Request /\ founder \notin Request
    /\ None \notin Request \cup {first, founder} \cup Email \cup Subject

ASSUME TimesAreNumbers ==
    /\ {InvitationLife, ResetLife, ImpersonationLife} \subseteq Nat
    /\ FreeFailures \in Nat /\ Waits \in Seq(Nat) /\ Waits # <<>>
    /\ MaxTime \in Nat

VARIABLES
    now,            \* the clock
    account,        \* the identities that are Accounts
    invitation,     \* the Invitations
    reset,          \* the password resets, by their link
    attempts,       \* the password attempts at each email
    session,        \* the Sign-ins, by their token
    impersonation,  \* the Impersonations
    task,           \* how far each request has gone, and what it read
    wrong           \* history: when each wrong password in a row was typed

vars == <<now, account, invitation, reset, attempts, session, impersonation,
          task, wrong>>

AccountRow ==
    [email : Email, password : Sent \cup {None}, google : Subject \cup {None},
     suspended : BOOLEAN, from : Sent \cup {None},
     out : Request \cup {None}]     \* history: the last request that signed it out

InvitationRow ==
    [email : Email, link : Sent, expires : Nat,
     accepted : Request \cup {None}, cancelled : BOOLEAN]

ResetRow == [who : Account, expires : Nat, used : SUBSET Request]

AttemptsRow ==
    [failures : Nat, until : Nat,
     holder : Request \cup {None}, fresh : BOOLEAN]  \* its lock; not committed yet

SessionRow ==
    [who : Account, through : Request \cup {None},
     out : Request \cup {None}]     \* history: the Account's `out` as it began

ImpersonationRow == [who : Account, ends : Nat, ended : BOOLEAN]

Step == {"new", "inviting", "reinviting", "resending", "cancelling", "accepting",
         "waiting", "verifying", "linking", "asking", "sending", "choosing",
         "adding", "changing", "leaving", "suspending", "impersonating",
         "starting", "failed", "done"}

Task == [at : Step, who : Account \cup {None},
         key : Sent \cup Email \cup (Subject \X Email) \cup {None}]

ASSUME NoneIsNoRow ==
    None \notin AccountRow \cup InvitationRow \cup ResetRow \cup AttemptsRow
               \cup SessionRow \cup ImpersonationRow

----------------------------------------------------------------------------
(* What a request reads. *)

There(table) == {k \in DOMAIN table : table[k] # None}

Expired(i) == invitation[i].expires <= now

Open(i) == invitation[i].accepted = None /\ ~invitation[i].cancelled

Pending(i) == Open(i) /\ ~Expired(i)

ByLink(l) == {i \in There(invitation) : invitation[i].link = l}

WithEmail(e) == {a \in There(account) : account[a].email = e}

WithSubject(g) == {a \in There(account) : account[a].google = g}

Live(i) == ~impersonation[i].ended /\ impersonation[i].ends > now

Holds(t, a) ==
    /\ session[t] # None
    /\ session[t].who = a
    /\ ~account[a].suspended
    /\ session[t].through # None => Live(session[t].through)

Wait(n) ==
    IF n <= FreeFailures THEN 0
    ELSE Waits[IF n - FreeFailures < Len(Waits) THEN n - FreeFailures ELSE Len(Waits)]

(* What a request writes. *)

Idle == [at |-> "new", who |-> None, key |-> None]

Go(r, at, who, key) ==
    task' = [task EXCEPT ![r] = [at |-> at, who |-> who, key |-> key]]

Over(r) == Go(r, "done", None, None)

SignedOut(a) ==
    [t \in Request |-> IF session[t] # None /\ session[t].who = a
                       THEN None ELSE session[t]]

EndedOf(a) ==
    [i \in Request |-> IF impersonation[i] # None /\ impersonation[i].who = a /\ Live(i)
                       THEN [impersonation[i] EXCEPT !.ended = TRUE]
                       ELSE impersonation[i]]

EndSignInsOf(a) == session' = SignedOut(a) /\ impersonation' = EndedOf(a)

Joined(r, e, password, g, i) ==
    [account EXCEPT ![r] = [email |-> e, password |-> password, google |-> g,
                            suspended |-> FALSE, from |-> i, out |-> None]]

Init ==
    /\ now = 0
    /\ account = [a \in Account |->
          IF a = founder
          THEN [email |-> founderMail, password |-> first, google |-> None,
                suspended |-> FALSE, from |-> None, out |-> None]
          ELSE None]
    /\ invitation = [i \in Sent |->
          IF i = first
          THEN [email |-> invitedMail, link |-> first, expires |-> InvitationLife,
                accepted |-> None, cancelled |-> FALSE]
          ELSE None]
    /\ reset = [l \in Request |-> None]
    /\ attempts = [e \in Email |-> None]
    /\ session = [t \in Request |-> None]
    /\ impersonation = [i \in Request |-> None]
    /\ task = [r \in Request |-> Idle]
    /\ wrong = [e \in Email |-> <<>>]

----------------------------------------------------------------------------
(* Invitations: an Administrator sends, sends again and cancels them. Each *)
(* reads the row, and writes it later without looking again.               *)

Invite(r, e) ==
    /\ task[r].at = "new"
    /\ WithEmail(e) = {}
    /\ LET open == {i \in There(invitation) : invitation[i].email = e /\ Open(i)}
       IN  \/ open = {} /\ Go(r, "inviting", None, e)
           \/ \E i \in open : Expired(i) /\ Go(r, "reinviting", None, i)
    /\ UNCHANGED <<now, account, invitation, reset, attempts, session, impersonation, wrong>>

InviteWrite(r) ==
    LET e == task[r].key IN
    /\ task[r].at = "inviting"
    /\ IF \E i \in There(invitation) : invitation[i].email = e /\ Open(i)
       THEN UNCHANGED invitation
       ELSE invitation' = [invitation EXCEPT ![r] =
               [email |-> e, link |-> r, expires |-> now + InvitationLife,
                accepted |-> None, cancelled |-> FALSE]]
    /\ Over(r)
    /\ UNCHANGED <<now, account, reset, attempts, session, impersonation, wrong>>

Resend(r, i) ==
    /\ \/ task[r].at = "new"
       \/ task[r].at = "reinviting" /\ task[r].key = i
    /\ invitation[i] # None
    /\ IF Open(i) THEN Go(r, "resending", None, i) ELSE Over(r)
    /\ UNCHANGED <<now, account, invitation, reset, attempts, session, impersonation, wrong>>

ResendWrite(r) ==
    /\ task[r].at = "resending"
    /\ invitation' = [invitation EXCEPT ![task[r].key].link = r,
                                        ![task[r].key].expires = now + InvitationLife]
    /\ Over(r)
    /\ UNCHANGED <<now, account, reset, attempts, session, impersonation, wrong>>

Cancel(r, i) ==
    /\ task[r].at = "new"
    /\ invitation[i] # None /\ Pending(i)
    /\ Go(r, "cancelling", None, i)
    /\ UNCHANGED <<now, account, invitation, reset, attempts, session, impersonation, wrong>>

CancelWrite(r) ==
    /\ task[r].at = "cancelling"
    /\ invitation' = [invitation EXCEPT ![task[r].key].cancelled = TRUE]
    /\ Over(r)
    /\ UNCHANGED <<now, account, reset, attempts, session, impersonation, wrong>>

(* Accepting one: with a password, whose hashing comes between a first look *)
(* at the link and the transaction; or with the Google account invited.     *)

AcceptPassword(r, l) ==
    /\ task[r].at = "new"
    /\ \E i \in ByLink(l) : Pending(i)
    /\ Go(r, "accepting", None, l)
    /\ UNCHANGED <<now, account, invitation, reset, attempts, session, impersonation, wrong>>

Accepted(r, i, password, g) ==
    /\ account' = Joined(r, invitation[i].email, password, g, i)
    /\ invitation' = [invitation EXCEPT ![i].accepted = r]
    /\ Go(r, "starting", r, i)

Accept(r) ==
    LET valid == {i \in ByLink(task[r].key) :
                     Pending(i) /\ WithEmail(invitation[i].email) = {}} IN
    /\ task[r].at = "accepting"
    /\ IF valid # {}
       THEN \E i \in valid : Accepted(r, i, r, None)
       ELSE Over(r) /\ UNCHANGED <<account, invitation>>
    /\ UNCHANGED <<now, reset, attempts, session, impersonation, wrong>>

AcceptGoogle(r, l, g, e) ==
    /\ task[r].at = "new"
    /\ WithSubject(g) = {}
    /\ \E i \in ByLink(l) :
          /\ Pending(i) /\ invitation[i].email = e /\ WithEmail(e) = {}
          /\ Accepted(r, i, None, g)
    /\ UNCHANGED <<now, reset, attempts, session, impersonation, wrong>>

StartSession(r) ==
    LET a == task[r].who IN
    /\ task[r].at = "starting"
    /\ session' = [session EXCEPT ![r] = [who |-> a, through |-> None,
                                          out |-> account[a].out]]
    /\ Over(r)
    /\ UNCHANGED <<now, account, invitation, reset, attempts, impersonation, wrong>>

----------------------------------------------------------------------------
(* Signing in with a password. The email's row is locked from before the    *)
(* password is hashed until the attempt is counted; success deletes it, and *)
(* whoever was waiting for it finds nothing.                                *)

Locked(e, r, row, fresh) == attempts' = [attempts EXCEPT ![e] =
                               [row EXCEPT !.holder = r, !.fresh = fresh]]

NoFailures == [failures |-> 0, until |-> 0, holder |-> None, fresh |-> FALSE]

AttemptLocked(r, e, fresh) ==
    LET row == IF attempts[e] = None THEN NoFailures ELSE attempts[e] IN
    IF row.until > now
    THEN Over(r) /\ UNCHANGED attempts
    ELSE Locked(e, r, row, fresh) /\ Go(r, "verifying", None, e)

Attempt(r, e) ==
    /\ task[r].at = "new"
    /\ \/ attempts[e] = None /\ AttemptLocked(r, e, TRUE)
       \/ /\ attempts[e] # None /\ attempts[e].holder = None
          /\ AttemptLocked(r, e, FALSE)
       \/ /\ attempts[e] # None /\ attempts[e].holder # None /\ ~attempts[e].fresh
          /\ Go(r, "waiting", None, e)
          /\ UNCHANGED attempts
    /\ UNCHANGED <<now, account, invitation, reset, session, impersonation, wrong>>

\* Bug: whether the email has to wait was read before the lock, not under it.
AttemptLock_Stale(r) ==
    LET e == task[r].key IN
    /\ task[r].at = "waiting"
    /\ attempts[e].holder = None
    /\ Locked(e, r, attempts[e], FALSE)
    /\ Go(r, "verifying", None, e)
    /\ UNCHANGED <<now, account, invitation, reset, session, impersonation, wrong>>

AttemptLock(r) ==
    LET e == task[r].key IN
    /\ task[r].at = "waiting"
    /\ attempts[e].holder = None
    /\ AttemptLocked(r, e, FALSE)
    /\ UNCHANGED <<now, account, invitation, reset, session, impersonation, wrong>>

\* The row of an email is deleted: those waiting for it get none, and fail.
Forgotten(e, r, next) ==
    /\ attempts' = [attempts EXCEPT ![e] = None]
    /\ wrong' = [wrong EXCEPT ![e] = <<>>]
    /\ task' = [q \in Request |->
          IF q = r THEN next
          ELSE IF task[q].at = "waiting" /\ task[q].key = e
          THEN [at |-> "failed", who |-> None, key |-> None]
          ELSE task[q]]

AttemptRight(r) ==
    LET e == task[r].key IN
    /\ task[r].at = "verifying"
    /\ \E a \in WithEmail(e) :
          /\ account[a].password # None
          /\ Forgotten(e, r, IF account[a].suspended
                             THEN [Idle EXCEPT !.at = "done"]
                             ELSE [at |-> "starting", who |-> a, key |-> None])
    /\ UNCHANGED <<now, account, invitation, reset, session, impersonation>>

AttemptWrong(r) ==
    LET e == task[r].key
        n == attempts[e].failures + 1 IN
    /\ task[r].at = "verifying"
    /\ attempts' = [attempts EXCEPT ![e] =
          [failures |-> n, until |-> IF Wait(n) = 0 THEN 0 ELSE now + Wait(n),
           holder |-> None, fresh |-> FALSE]]
    /\ wrong' = [wrong EXCEPT ![e] = Append(@, now)]
    /\ Over(r)
    /\ UNCHANGED <<now, account, invitation, reset, session, impersonation>>

(* Signing in with Google, which may link the Google account or carry a    *)
(* new email to the Account. A new Account only comes from an Invitation.  *)

GoogleFind(r, g, e) ==
    /\ task[r].at = "new"
    /\ \/ \E a \in WithSubject(g) :
             IF account[a].email # e THEN Go(r, "linking", a, <<g, e>>)
             ELSE ~account[a].suspended /\ Go(r, "starting", a, None)
       \/ /\ WithSubject(g) = {}
          /\ \E a \in WithEmail(e) :
                account[a].google = None /\ Go(r, "linking", a, <<g, e>>)
    /\ UNCHANGED <<now, account, invitation, reset, attempts, session, impersonation, wrong>>

GoogleLink(r) ==
    LET a == task[r].who
        g == task[r].key[1]
        e == task[r].key[2] IN
    /\ task[r].at = "linking"
    /\ IF WithEmail(e) \cup WithSubject(g) \subseteq {a}
       THEN /\ account' = [account EXCEPT ![a].google = g, ![a].email = e]
            /\ IF account[a].suspended THEN Over(r) ELSE Go(r, "starting", a, None)
       ELSE Over(r) /\ UNCHANGED account
    /\ UNCHANGED <<now, invitation, reset, attempts, session, impersonation, wrong>>

----------------------------------------------------------------------------
(* Password resets, and changing or adding a password once signed in. *)

RequestReset(r, e) ==
    /\ task[r].at = "new"
    /\ \E a \in WithEmail(e) : ~account[a].suspended /\ Go(r, "asking", a, None)
    /\ UNCHANGED <<now, account, invitation, reset, attempts, session, impersonation, wrong>>

ResetDelete(r) ==
    /\ task[r].at = "asking"
    /\ reset' = [l \in Request |->
          IF reset[l] # None /\ reset[l].who = task[r].who /\ reset[l].used = {}
          THEN None ELSE reset[l]]
    /\ Go(r, "sending", task[r].who, None)
    /\ UNCHANGED <<now, account, invitation, attempts, session, impersonation, wrong>>

ResetInsert(r) ==
    /\ task[r].at = "sending"
    /\ reset' = [reset EXCEPT ![r] = [who |-> task[r].who, used |-> {},
                                      expires |-> now + ResetLife]]
    /\ Over(r)
    /\ UNCHANGED <<now, account, invitation, attempts, session, impersonation, wrong>>

CompleteReset(r, l) ==
    /\ task[r].at = "new"
    /\ reset[l] # None
    /\ Go(r, "choosing", None, l)
    /\ UNCHANGED <<now, account, invitation, reset, attempts, session, impersonation, wrong>>

ResetDone(r, l) ==
    LET a == reset[l].who IN
    /\ attempts[account[a].email] # None => attempts[account[a].email].holder = None
    /\ account' = [account EXCEPT ![a].password = r, ![a].out = r]
    /\ reset' = [reset EXCEPT ![l].used = @ \cup {r}]
    /\ EndSignInsOf(a)
    /\ Forgotten(account[a].email, r, [at |-> "starting", who |-> a, key |-> None])

\* Bug: that the link is there is all that is asked of it.
CompleteWrite_Unlocked(r) ==
    LET l == task[r].key IN
    /\ task[r].at = "choosing"
    /\ IF reset[l] # None /\ ~account[reset[l].who].suspended
       THEN ResetDone(r, l)
       ELSE /\ Over(r)
            /\ UNCHANGED <<account, reset, attempts, session, impersonation, wrong>>
    /\ UNCHANGED <<now, invitation>>

CompleteWrite(r) ==
    LET l == task[r].key IN
    /\ task[r].at = "choosing"
    /\ IF /\ reset[l] # None
          /\ reset[l].used = {} /\ reset[l].expires > now
          /\ ~account[reset[l].who].suspended
       THEN ResetDone(r, l)
       ELSE /\ Over(r)
            /\ UNCHANGED <<account, reset, attempts, session, impersonation, wrong>>
    /\ UNCHANGED <<now, invitation>>

AddPassword(r, t) ==
    /\ task[r].at = "new"
    /\ \E a \in There(account) :
          /\ Holds(t, a) /\ session[t].through = None
          /\ Go(r, "adding", a, None)
    /\ UNCHANGED <<now, account, invitation, reset, attempts, session, impersonation, wrong>>

AddWrite(r) ==
    LET a == task[r].who IN
    /\ task[r].at = "adding"
    /\ account' = [account EXCEPT ![a].password = IF @ = None THEN r ELSE @]
    /\ Over(r)
    /\ UNCHANGED <<now, invitation, reset, attempts, session, impersonation, wrong>>

ChangePassword(r, t) ==
    /\ task[r].at = "new"
    /\ \E a \in There(account) :
          /\ Holds(t, a) /\ session[t].through = None /\ account[a].password # None
          /\ Go(r, "changing", a, t)
    /\ UNCHANGED <<now, account, invitation, reset, attempts, session, impersonation, wrong>>

ChangeWrite(r) ==
    LET a == task[r].who
        own == task[r].key IN
    /\ task[r].at = "changing"
    /\ account' = [account EXCEPT ![a].password = r, ![a].out = r]
    /\ session' = [SignedOut(a) EXCEPT ![own] =
          IF session[own] # None THEN [session[own] EXCEPT !.out = r] ELSE None]
    /\ Over(r)
    /\ UNCHANGED <<now, invitation, reset, attempts, impersonation, wrong>>

\* The token goes first; the Impersonation it was for is ended after it.
SignOut(r, t) ==
    /\ task[r].at = "new"
    /\ session[t] # None
    /\ session' = [session EXCEPT ![t] = None]
    /\ IF session[t].through = None THEN Over(r)
       ELSE Go(r, "leaving", None, session[t].through)
    /\ UNCHANGED <<now, account, invitation, reset, attempts, impersonation, wrong>>

SignOutWrite(r) ==
    /\ task[r].at = "leaving"
    /\ impersonation' = [impersonation EXCEPT ![task[r].key].ended = TRUE]
    /\ Over(r)
    /\ UNCHANGED <<now, account, invitation, reset, attempts, session, wrong>>

----------------------------------------------------------------------------
(* An Administrator suspends an Account, lifts it, or impersonates it.     *)

Suspend(r, a) ==
    /\ task[r].at = "new"
    /\ account[a] # None /\ ~account[a].suspended
    /\ Go(r, "suspending", a, None)
    /\ UNCHANGED <<now, account, invitation, reset, attempts, session, impersonation, wrong>>

\* Bug: the Account is refused from now on, but its Sign-ins are kept.
SuspendWrite_SignedIn(r) ==
    LET a == task[r].who IN
    /\ task[r].at = "suspending"
    /\ account' = [account EXCEPT ![a].suspended = TRUE, ![a].out = r]
    /\ impersonation' = EndedOf(a)
    /\ Over(r)
    /\ UNCHANGED <<now, invitation, reset, attempts, session, wrong>>

SuspendWrite(r) ==
    LET a == task[r].who IN
    /\ task[r].at = "suspending"
    /\ account' = [account EXCEPT ![a].suspended = TRUE, ![a].out = r]
    /\ EndSignInsOf(a)
    /\ Over(r)
    /\ UNCHANGED <<now, invitation, reset, attempts, wrong>>

Lift(r, a) ==
    /\ task[r].at = "new"
    /\ account[a] # None
    /\ account' = [account EXCEPT ![a].suspended = FALSE]
    /\ Over(r)
    /\ UNCHANGED <<now, invitation, reset, attempts, session, impersonation, wrong>>

Impersonate(r, a) ==
    /\ task[r].at = "new"
    /\ account[a] # None /\ ~account[a].suspended
    /\ Go(r, "impersonating", a, None)
    /\ UNCHANGED <<now, account, invitation, reset, attempts, session, impersonation, wrong>>

ImpersonateWrite(r) ==
    LET a == task[r].who IN
    /\ task[r].at = "impersonating"
    /\ impersonation' = [impersonation EXCEPT ![r] =
          [who |-> a, ends |-> now + ImpersonationLife, ended |-> FALSE]]
    /\ session' = [session EXCEPT ![r] = [who |-> a, through |-> r,
                                          out |-> account[a].out]]
    /\ Over(r)
    /\ UNCHANGED <<now, account, invitation, reset, attempts, wrong>>

\* The server stops, or the database does, with the request half-way: what
\* it had not committed is undone, and the lock it held is released.
Fail(r) ==
    /\ task[r].at \notin {"new", "done", "failed"}
    /\ attempts' = [e \in Email |->
          IF attempts[e] = None \/ attempts[e].holder # r THEN attempts[e]
          ELSE IF attempts[e].fresh THEN None
          ELSE [attempts[e] EXCEPT !.holder = None]]
    /\ Over(r)
    /\ UNCHANGED <<now, account, invitation, reset, session, impersonation, wrong>>

Tick ==
    /\ now < MaxTime
    /\ now' = now + 1
    /\ UNCHANGED <<account, invitation, reset, attempts, session, impersonation, task, wrong>>

Next ==
    \/ Tick
    \/ \E r \in Request :
        \/ \E e \in Email : Invite(r, e) \/ Attempt(r, e) \/ RequestReset(r, e)
        \/ \E i \in Sent : Resend(r, i) \/ Cancel(r, i)
        \/ \E l \in Sent : AcceptPassword(r, l)
        \/ \E l \in Sent, g \in Subject, e \in Email : AcceptGoogle(r, l, g, e)
        \/ \E g \in Subject, e \in Email : GoogleFind(r, g, e)
        \/ \E l \in Request : CompleteReset(r, l)
        \/ \E t \in Request : AddPassword(r, t) \/ ChangePassword(r, t) \/ SignOut(r, t)
        \/ \E a \in Account : Suspend(r, a) \/ Lift(r, a) \/ Impersonate(r, a)
        \/ InviteWrite(r) \/ ResendWrite(r) \/ CancelWrite(r)
        \/ Accept(r) \/ StartSession(r)
        \/ AttemptLock(r) \/ AttemptRight(r) \/ AttemptWrong(r) \/ GoogleLink(r)
        \/ ResetDelete(r) \/ ResetInsert(r) \/ CompleteWrite(r)
        \/ AddWrite(r) \/ ChangeWrite(r) \/ SignOutWrite(r)
        \/ SuspendWrite(r) \/ ImpersonateWrite(r) \/ Fail(r)

Spec == Init /\ [][Next]_vars

----------------------------------------------------------------------------
(* Every row and every task has the shape the schema and the code give it. *)
TypeOK ==
    /\ now \in 0..MaxTime
    /\ account \in [Account -> AccountRow \cup {None}]
    /\ invitation \in [Sent -> InvitationRow \cup {None}]
    /\ reset \in [Request -> ResetRow \cup {None}]
    /\ attempts \in [Email -> AttemptsRow \cup {None}]
    /\ session \in [Request -> SessionRow \cup {None}]
    /\ impersonation \in [Request -> ImpersonationRow \cup {None}]
    /\ task \in [Request -> Task]
    /\ wrong \in [Email -> Seq(Nat)]

LinkStep ==
    /\ \A a \in There(account'), b \in There(account) :
          a \notin There(account) /\ account'[a].from # None => account'[a].from # account[b].from
    /\ \A l \in There(reset') : Cardinality(reset'[l].used) <= 1
    /\ \A a \in There(account') \ There(account) :
          LET i == account'[a].from IN
          i # None =>
             /\ Pending(i)
             /\ task[a].at = "accepting" => task[a].key = invitation[i].link

(* A link makes one Account or chooses one password, however many times it *)
(* is used side by side, also once the Account's email has changed and the *)
(* unique index no longer stands in the way (`accept`,                     *)
(* `completePasswordReset`); and an Account is only made by the newest     *)
(* link of an Invitation nobody has accepted or cancelled and whose days   *)
(* are not over, though all of that may have changed while its password    *)
(* was being hashed.                                                       *)
LinkUsedOnce == [][LinkStep]_vars

(* Between two wrong passwords in a row for an email at least the wait that *)
(* the first of them earned goes by, however many are typed side by side    *)
(* ("attempts made side by side can't all slip past the wait").             *)
GuessesWait ==
    \A e \in Email : \A k \in 1..(Len(wrong[e]) - 1) :
        wrong[e][k + 1] >= wrong[e][k] + Wait(k)

(* A Sign-in that a Suspension, a reset or a change of password ended never *)
(* works again, not even once the Suspension is lifted.                     *)
SignedOutStaysOut ==
    \A t \in There(session) : session[t].out = account[session[t].who].out
=============================================================================
