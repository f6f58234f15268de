--------------------------- MODULE AccountsProofs ---------------------------
(***************************************************************************)
(* For any number of requests, emails and Accounts: every row and every    *)
(* task keeps its shape, and wrong passwords for an email are typed as far *)
(* apart as the waits they earn; whoever was signed out stays out, and a   *)
(* link works once.                                                        *)
(*                                                                         *)
(* The invariant has two parts. Typed adds to the types what the rows and  *)
(* the tasks half-way refer to: it is there (no row is deleted but a link  *)
(* for a reset, and an attempt, taken by Forgotten from whoever waits).    *)
(* Guessing adds to GuessesWait who holds the row of an email (LockOK) and *)
(* what its count and its wait say of the passwords typed (CountOK).       *)
(***************************************************************************)
EXTENDS Accounts, Administration, SequenceTheorems, FiniteSetTheorems, TLAPS

(* What is known of a task half-way, and of its request's rows.            *)
Fits(d) ==
    /\ d.at \in {"inviting", "waiting", "verifying"} => d.key \in Email
    /\ d.at \in {"reinviting", "resending", "cancelling"} => d.key \in There(invitation)
    /\ d.at = "accepting" => d.key \in Sent
    /\ d.at = "linking" => d.key \in Subject \X Email
    /\ d.at = "leaving" => d.key \in There(impersonation)
    /\ d.at \in {"choosing", "changing"} => d.key \in Request
    /\ d.at \in {"starting", "linking", "asking", "sending", "adding", "changing",
                 "suspending", "impersonating"} => d.who \in There(account)

TasksOK == \A r \in Request : Fits(task[r])

RowsOK ==
    /\ \A l \in There(reset) : reset[l].who \in There(account)
    /\ \A t \in There(session) :
          /\ session[t].who \in There(account)
          /\ session[t].through # None => session[t].through \in There(impersonation)

Typed == TypeOK /\ TasksOK /\ RowsOK

USE DEF There, Account, Sent

(* Steps that only look: nothing changes but the task of the request.      *)
Looks(r) ==
    \/ \E e \in Email : Invite(r, e) \/ RequestReset(r, e)
    \/ \E i \in Sent : Resend(r, i) \/ Cancel(r, i) \/ AcceptPassword(r, i)
    \/ \E g \in Subject, e \in Email : GoogleFind(r, g, e)
    \/ \E l \in Request : CompleteReset(r, l)
    \/ \E t \in Request : AddPassword(r, t) \/ ChangePassword(r, t)
    \/ \E a \in Account : Suspend(r, a) \/ Impersonate(r, a)

Rows == <<now, account, invitation, reset, attempts, session, impersonation, wrong>>

LEMMA LooksShape ==
    ASSUME Typed, NEW r \in Request, Looks(r)
    PROVE  /\ UNCHANGED Rows /\ task[r].at \in {"new", "reinviting"}
           /\ \E d \in Task : /\ task' = [task EXCEPT ![r] = d] /\ Fits(d)
                              /\ d.at \notin {"new", "waiting", "verifying"}
<1>1. CASE \E e \in Email : Invite(r, e) \/ RequestReset(r, e)
  BY <1>1 DEF Typed, TypeOK, Invite, RequestReset, Go, Over, Fits, Task, Step, Rows, WithEmail
<1>2. CASE \E i \in Sent : Resend(r, i) \/ Cancel(r, i) \/ AcceptPassword(r, i)
  BY <1>2 DEF Typed, TypeOK, Resend, Cancel, AcceptPassword, Go, Over, Fits, Task, Step, Rows
<1>3. CASE \E g \in Subject, e \in Email : GoogleFind(r, g, e)
  BY <1>3 DEF Typed, TypeOK, GoogleFind, WithSubject, WithEmail, Go, Over, Fits, Task, Step, Rows
<1>4. CASE \E l \in Request : CompleteReset(r, l)
  BY <1>4 DEF Typed, TypeOK, CompleteReset, Go, Over, Fits, Task, Step, Rows
<1>5. CASE \E t \in Request : AddPassword(r, t) \/ ChangePassword(r, t)
  BY <1>5 DEF Typed, TypeOK, AddPassword, ChangePassword, Go, Over, Fits, Task, Step, Rows
<1>6. CASE \E a \in Account : Suspend(r, a) \/ Impersonate(r, a)
  BY <1>6 DEF Typed, TypeOK, Suspend, Impersonate, Go, Over, Fits, Task, Step, Rows
<1> QED BY <1>1, <1>2, <1>3, <1>4, <1>5, <1>6 DEF Looks

(* Rows that there are stay, whatever is written in them.                  *)
Grows ==
    /\ There(account) \subseteq There(account')
    /\ There(invitation) \subseteq There(invitation')
    /\ There(impersonation) \subseteq There(impersonation')

LEMMA WaitIsNat == ASSUME NEW n \in Nat PROVE Wait(n) \in Nat
<1>1. Len(Waits) \in Nat \ {0}
  BY TimesAreNumbers
<1>2. CASE n > FreeFailures
  <2>1. (IF n - FreeFailures < Len(Waits) THEN n - FreeFailures ELSE Len(Waits)) \in 1..Len(Waits)
    BY <1>1, <1>2, TimesAreNumbers
  <2> QED BY <2>1, <1>2, TimesAreNumbers DEF Wait
<1>3. CASE n <= FreeFailures
  BY <1>3 DEF Wait
<1> QED BY <1>2, <1>3, TimesAreNumbers


LEMMA GoTyped ==
    ASSUME TypeOK, NEW r \in Request, NEW at \in Step, NEW who \in Account \cup {None},
           NEW key \in Sent \cup Email \cup (Subject \X Email) \cup {None}, Go(r, at, who, key)
    PROVE  task' \in [Request -> Task]
  BY DEF TypeOK, Go, Task

LEMMA OverTyped ==
    ASSUME TypeOK, NEW r \in Request, Over(r)
    PROVE  task' \in [Request -> Task]
  BY GoTyped DEF Over, Step

LEMMA Later ==
    ASSUME TypeOK
    PROVE  /\ now \in Nat /\ now + InvitationLife \in Nat
           /\ now + ResetLife \in Nat /\ now + ImpersonationLife \in Nat
  BY TimesAreNumbers DEF TypeOK

(* An Invitation is written: the others stay as they are.                  *)
LEMMA InvitationWritten ==
    ASSUME TypeOK, NEW i \in Sent, NEW row \in InvitationRow,
           invitation' = [invitation EXCEPT ![i] = row]
    PROVE  /\ invitation' \in [Sent -> InvitationRow \cup {None}]
           /\ There(invitation) \subseteq There(invitation')
  BY NoneIsNoRow DEF TypeOK

LEMMA AccountWritten ==
    ASSUME TypeOK, NEW a \in Account, NEW row \in AccountRow,
           account' = [account EXCEPT ![a] = row]
    PROVE  /\ account' \in [Account -> AccountRow \cup {None}]
           /\ There(account) \subseteq There(account')
  BY NoneIsNoRow DEF TypeOK

LEMMA InviteWriteTyped ==
    ASSUME Typed, NEW r \in Request, InviteWrite(r)
    PROVE  TypeOK' /\ Grows
<1> DEFINE new == [email |-> task[r].key, link |-> r, expires |-> now + InvitationLife,
                   accepted |-> None, cancelled |-> FALSE]
<1>1. task' \in [Request -> Task]
  BY OverTyped DEF InviteWrite, Typed
<1>2. new \in InvitationRow
  BY TimesAreNumbers DEF InviteWrite, Typed, TypeOK, TasksOK, Fits, InvitationRow
<1>3. UNCHANGED invitation \/ invitation' = [invitation EXCEPT ![r] = new]
  BY DEF InviteWrite
<1>4. UNCHANGED <<now, account, reset, attempts, session, impersonation, wrong>>
  BY DEF InviteWrite
<1> HIDE DEF new
<1>5. /\ invitation' \in [Sent -> InvitationRow \cup {None}]
      /\ There(invitation) \subseteq There(invitation')
  BY <1>2, <1>3, InvitationWritten DEF Typed, TypeOK
<1> QED BY <1>1, <1>4, <1>5 DEF Typed, TypeOK, Grows

LEMMA ResendWriteTyped ==
    ASSUME Typed, NEW r \in Request, ResendWrite(r)
    PROVE  TypeOK' /\ Grows
<1>1. PICK i \in Sent : i = task[r].key /\ invitation[i] \in InvitationRow
  BY DEF ResendWrite, Typed, TypeOK, TasksOK, Fits
<1>2. PICK row \in InvitationRow : row = invitation[i]
  BY <1>1
<1> DEFINE new == [row EXCEPT !.link = r, !.expires = now + InvitationLife]
<1>3. new \in InvitationRow
  BY Later DEF Typed, InvitationRow
<1>4. invitation' = [invitation EXCEPT ![i] = new]
  BY <1>1, <1>2 DEF ResendWrite, Typed, TypeOK, InvitationRow
<1>5. UNCHANGED <<now, account, reset, attempts, session, impersonation, wrong>> /\ Over(r)
  BY DEF ResendWrite
<1> HIDE DEF new
<1>6. /\ invitation' \in [Sent -> InvitationRow \cup {None}]
      /\ There(invitation) \subseteq There(invitation')
  BY <1>3, <1>4, InvitationWritten DEF Typed
<1> QED BY <1>5, <1>6, OverTyped DEF Typed, TypeOK, Grows

LEMMA CancelWriteTyped ==
    ASSUME Typed, NEW r \in Request, CancelWrite(r)
    PROVE  TypeOK' /\ Grows
<1>1. PICK i \in Sent : i = task[r].key /\ invitation[i] \in InvitationRow
  BY DEF CancelWrite, Typed, TypeOK, TasksOK, Fits
<1>2. PICK row \in InvitationRow : row = invitation[i]
  BY <1>1
<1> DEFINE new == [row EXCEPT !.cancelled = TRUE]
<1>3. new \in InvitationRow
  BY DEF InvitationRow
<1>4. invitation' = [invitation EXCEPT ![i] = new]
  BY <1>1, <1>2 DEF CancelWrite, Typed, TypeOK, InvitationRow
<1>5. UNCHANGED <<now, account, reset, attempts, session, impersonation, wrong>> /\ Over(r)
  BY DEF CancelWrite
<1> HIDE DEF new
<1>6. /\ invitation' \in [Sent -> InvitationRow \cup {None}]
      /\ There(invitation) \subseteq There(invitation')
  BY <1>3, <1>4, InvitationWritten DEF Typed
<1> QED BY <1>5, <1>6, OverTyped DEF Typed, TypeOK, Grows

LEMMA AcceptedTyped ==
    ASSUME Typed, NEW r \in Request, NEW i \in Sent, invitation[i] # None,
           NEW password \in Sent \cup {None}, NEW g \in Subject \cup {None},
           Accepted(r, i, password, g),
           UNCHANGED <<now, reset, attempts, session, impersonation, wrong>>
    PROVE  TypeOK' /\ Grows /\ account'[r] # None
<1>1. PICK row \in InvitationRow : row = invitation[i]
  BY DEF Typed, TypeOK
<1> DEFINE new == [row EXCEPT !.accepted = r]
           made == [email |-> row.email, password |-> password, google |-> g,
                    suspended |-> FALSE, from |-> i, out |-> None]
<1>2. new \in InvitationRow /\ made \in AccountRow
  BY DEF InvitationRow, AccountRow
<1>3. invitation' = [invitation EXCEPT ![i] = new]
  BY <1>1 DEF Accepted, Typed, TypeOK, InvitationRow
<1>4. account' = [account EXCEPT ![r] = made]
  BY <1>1 DEF Accepted, Joined
<1> HIDE DEF new, made
<1>5. /\ invitation' \in [Sent -> InvitationRow \cup {None}]
      /\ There(invitation) \subseteq There(invitation')
  BY <1>2, <1>3, InvitationWritten DEF Typed
<1>6. /\ account' \in [Account -> AccountRow \cup {None}]
      /\ There(account) \subseteq There(account')
  BY <1>2, <1>4, AccountWritten DEF Typed
<1>7. account'[r] # None
  BY <1>2, <1>4, NoneIsNoRow DEF Typed, TypeOK
<1>8. task' \in [Request -> Task]
  BY GoTyped DEF Accepted, Typed, Step
<1> QED BY <1>5, <1>6, <1>7, <1>8 DEF Typed, TypeOK, Grows

LEMMA AcceptTyped ==
    ASSUME Typed, NEW r \in Request, Accept(r)
    PROVE  TypeOK' /\ Grows
<1>1. UNCHANGED <<now, reset, attempts, session, impersonation, wrong>>
  BY DEF Accept
<1>2. CASE Over(r) /\ UNCHANGED <<account, invitation>>
  BY <1>1, <1>2, OverTyped DEF Typed, TypeOK, Grows
<1>3. CASE \E i \in ByLink(task[r].key) : Accepted(r, i, r, None)
  BY <1>1, <1>3, AcceptedTyped DEF ByLink, Typed, TypeOK
<1> QED BY <1>2, <1>3 DEF Accept

LEMMA AcceptGoogleTyped ==
    ASSUME Typed, NEW r \in Request, NEW l \in Sent, NEW g \in Subject, NEW e \in Email,
           AcceptGoogle(r, l, g, e)
    PROVE  TypeOK' /\ Grows
<1>1. UNCHANGED <<now, reset, attempts, session, impersonation, wrong>>
  BY DEF AcceptGoogle
<1>2. \E i \in ByLink(l) : Accepted(r, i, None, g)
  BY DEF AcceptGoogle
<1> QED BY <1>1, <1>2, AcceptedTyped DEF ByLink, Typed, TypeOK

LEMMA StartSessionTyped ==
    ASSUME Typed, NEW r \in Request, StartSession(r)
    PROVE  TypeOK' /\ Grows
<1>1. PICK a \in Account : a = task[r].who /\ account[a] \in AccountRow
  BY DEF StartSession, Typed, TypeOK, TasksOK, Fits
<1> DEFINE new == [who |-> a, through |-> None, out |-> account[a].out]
<1>2. new \in SessionRow
  BY <1>1 DEF SessionRow, AccountRow
<1>3. session' = [session EXCEPT ![r] = new]
  BY <1>1 DEF StartSession
<1>4. UNCHANGED <<now, account, invitation, reset, attempts, impersonation, wrong>> /\ Over(r)
  BY DEF StartSession
<1> HIDE DEF new
<1> QED BY <1>2, <1>3, <1>4, OverTyped DEF Typed, TypeOK, Grows

LEMMA GoogleLinkTyped ==
    ASSUME Typed, NEW r \in Request, GoogleLink(r)
    PROVE  TypeOK' /\ Grows
<1>1. PICK a \in Account, g \in Subject, e \in Email :
        a = task[r].who /\ task[r].key = <<g, e>> /\ account[a] \in AccountRow
  BY DEF GoogleLink, Typed, TypeOK, TasksOK, Fits
<1>2. PICK row \in AccountRow : row = account[a]
  BY <1>1
<1> DEFINE new == [row EXCEPT !.google = g, !.email = e]
<1>3. new \in AccountRow
  BY DEF AccountRow
<1>4. UNCHANGED account \/ account' = [account EXCEPT ![a] = new]
  <2>1. task[r].key[1] = g /\ task[r].key[2] = e
    BY <1>1
  <2>2. \/ UNCHANGED account
        \/ account' = [account EXCEPT ![a].google = g, ![a].email = e]
    BY <1>1, <2>1, Zenon DEF GoogleLink
  <2>3. account \in [Account -> AccountRow \cup {None}]
    BY DEF Typed, TypeOK
  <2> QED BY <1>2, <2>2, <2>3 DEF AccountRow
<1>5. /\ UNCHANGED <<now, invitation, reset, attempts, session, impersonation, wrong>>
      /\ Over(r) \/ Go(r, "starting", a, None)
  BY <1>1 DEF GoogleLink
<1> HIDE DEF new
<1>6. /\ account' \in [Account -> AccountRow \cup {None}]
      /\ There(account) \subseteq There(account')
  BY <1>3, <1>4, AccountWritten DEF Typed, TypeOK
<1>7. task' \in [Request -> Task]
  BY <1>5, OverTyped, GoTyped DEF Typed, Step
<1> QED BY <1>5, <1>6, <1>7 DEF Typed, TypeOK, Grows

LEMMA ResetDeleteTyped ==
    ASSUME Typed, NEW r \in Request, ResetDelete(r)
    PROVE  TypeOK' /\ Grows
<1>1. reset' \in [Request -> ResetRow \cup {None}]
  BY DEF ResetDelete, Typed, TypeOK
<1>2. task[r].who \in Account
  BY DEF ResetDelete, Typed, TypeOK, TasksOK, Fits
<1>3. task' \in [Request -> Task]
  BY <1>2, GoTyped DEF ResetDelete, Typed, Step
<1>4. UNCHANGED <<now, account, invitation, attempts, session, impersonation, wrong>>
  BY DEF ResetDelete
<1> QED BY <1>1, <1>3, <1>4 DEF Typed, TypeOK, Grows

LEMMA ResetInsertTyped ==
    ASSUME Typed, NEW r \in Request, ResetInsert(r)
    PROVE  TypeOK' /\ Grows
<1>1. task[r].who \in Account
  BY DEF ResetInsert, Typed, TypeOK, TasksOK, Fits
<1>2. reset' \in [Request -> ResetRow \cup {None}]
  BY <1>1, Later DEF ResetInsert, Typed, TypeOK, ResetRow
<1>3. UNCHANGED <<now, account, invitation, attempts, session, impersonation, wrong>> /\ Over(r)
  BY DEF ResetInsert
<1> QED BY <1>2, <1>3, OverTyped DEF Typed, TypeOK, Grows

(* What ends the Sign-ins of an Account only takes rows of theirs away.    *)
LEMMA SignedOutTyped ==
    ASSUME TypeOK, NEW a \in Account
    PROVE  SignedOut(a) \in [Request -> SessionRow \cup {None}]
  BY DEF TypeOK, SignedOut

LEMMA EndedOfTyped ==
    ASSUME TypeOK, NEW a \in Account, impersonation' = EndedOf(a)
    PROVE  /\ impersonation' \in [Request -> ImpersonationRow \cup {None}]
           /\ There(impersonation) \subseteq There(impersonation')
<1>1. ASSUME NEW i \in Request, impersonation[i] # None
      PROVE  [impersonation[i] EXCEPT !.ended = TRUE] \in ImpersonationRow
  BY <1>1 DEF TypeOK, ImpersonationRow
<1>2. ASSUME NEW i \in Request
      PROVE  /\ EndedOf(a)[i] \in ImpersonationRow \cup {None}
             /\ impersonation[i] # None => EndedOf(a)[i] # None
  BY <1>1, NoneIsNoRow DEF EndedOf, TypeOK
<1> QED BY <1>2 DEF EndedOf, TypeOK

LEMMA ForgottenTyped ==
    ASSUME TypeOK, NEW r \in Request, NEW e \in Email, NEW next \in Task, Forgotten(e, r, next)
    PROVE  /\ attempts' \in [Email -> AttemptsRow \cup {None}]
           /\ wrong' \in [Email -> Seq(Nat)]
           /\ task' \in [Request -> Task]
<1>1. [at |-> "failed", who |-> None, key |-> None] \in Task
  BY DEF Task, Step
<1> QED BY <1>1 DEF TypeOK, Forgotten

LEMMA CompleteWriteTyped ==
    ASSUME Typed, NEW r \in Request, CompleteWrite(r)
    PROVE  TypeOK' /\ Grows
<1>1. UNCHANGED <<now, invitation>>
  BY DEF CompleteWrite
<1>2. CASE Over(r) /\ UNCHANGED <<account, reset, attempts, session, impersonation, wrong>>
  BY <1>1, <1>2, OverTyped DEF Typed, TypeOK, Grows
<1>3. ASSUME NEW l \in Request, reset[l] # None, ResetDone(r, l)  PROVE TypeOK' /\ Grows
  <2>1. PICK row \in ResetRow : row = reset[l]
    BY <1>3 DEF Typed, TypeOK
  <2>2. PICK a \in Account : a = reset[l].who /\ account[a] \in AccountRow
    BY <1>3 DEF Typed, TypeOK, RowsOK
  <2>3. PICK one \in AccountRow : one = account[a]
    BY <2>2
  <2> DEFINE new == [one EXCEPT !.password = r, !.out = r]
             done == [row EXCEPT !.used = @ \cup {r}]
             next == [at |-> "starting", who |-> a, key |-> None]
  <2>4. new \in AccountRow /\ done \in ResetRow /\ next \in Task
    BY DEF AccountRow, ResetRow, Task, Step
  <2>5. account' = [account EXCEPT ![a] = new]
    <3>1. account' = [account EXCEPT ![a].password = r, ![a].out = r]
      BY <1>3, <2>2 DEF ResetDone
    <3> QED BY <3>1, <2>2, <2>3 DEF Typed, TypeOK, AccountRow
  <2>6. reset' = [reset EXCEPT ![l] = done]
    BY <1>3, <2>1 DEF ResetDone, Typed, TypeOK, ResetRow
  <2>7. EndSignInsOf(a) /\ Forgotten(one.email, r, next)
    BY <1>3, <2>2, <2>3 DEF ResetDone
  <2>8. one.email \in Email
    BY DEF AccountRow
  <2> HIDE DEF new, done, next
  <2>9. /\ account' \in [Account -> AccountRow \cup {None}]
        /\ There(account) \subseteq There(account')
    BY <2>4, <2>5, AccountWritten DEF Typed
  <2>10. reset' \in [Request -> ResetRow \cup {None}]
    BY <2>4, <2>6 DEF Typed, TypeOK
  <2>11. /\ session' \in [Request -> SessionRow \cup {None}]
         /\ impersonation' \in [Request -> ImpersonationRow \cup {None}]
         /\ There(impersonation) \subseteq There(impersonation')
    BY <2>7, SignedOutTyped, EndedOfTyped DEF EndSignInsOf, Typed
  <2>12. /\ attempts' \in [Email -> AttemptsRow \cup {None}]
         /\ wrong' \in [Email -> Seq(Nat)]
         /\ task' \in [Request -> Task]
    BY <2>4, <2>7, <2>8, ForgottenTyped DEF Typed
  <2> QED BY <1>1, <2>9, <2>10, <2>11, <2>12 DEF Typed, TypeOK, Grows
<1>4. task[r].key \in Request
  BY DEF CompleteWrite, Typed, TasksOK, Fits
<1> QED BY <1>2, <1>3, <1>4 DEF CompleteWrite

LEMMA AddWriteTyped ==
    ASSUME Typed, NEW r \in Request, AddWrite(r)
    PROVE  TypeOK' /\ Grows
<1>1. PICK a \in Account : a = task[r].who /\ account[a] \in AccountRow
  BY DEF AddWrite, Typed, TypeOK, TasksOK, Fits
<1>2. PICK row \in AccountRow : row = account[a]
  BY <1>1
<1> DEFINE new == [row EXCEPT !.password = IF @ = None THEN r ELSE @]
<1>3. new \in AccountRow
  BY DEF AccountRow
<1>4. account' = [account EXCEPT ![a] = new]
  BY <1>1, <1>2 DEF AddWrite, Typed, TypeOK, AccountRow
<1>5. UNCHANGED <<now, invitation, reset, attempts, session, impersonation, wrong>> /\ Over(r)
  BY DEF AddWrite
<1> HIDE DEF new
<1>6. /\ account' \in [Account -> AccountRow \cup {None}]
      /\ There(account) \subseteq There(account')
  BY <1>3, <1>4, AccountWritten DEF Typed
<1> QED BY <1>5, <1>6, OverTyped DEF Typed, TypeOK, Grows

LEMMA ChangeWriteTyped ==
    ASSUME Typed, NEW r \in Request, ChangeWrite(r)
    PROVE  TypeOK' /\ Grows
<1>1. PICK a \in Account : a = task[r].who /\ account[a] \in AccountRow
  BY DEF ChangeWrite, Typed, TypeOK, TasksOK, Fits
<1>2. PICK row \in AccountRow : row = account[a]
  BY <1>1
<1>3. PICK own \in Request : own = task[r].key
  BY DEF ChangeWrite, Typed, TasksOK, Fits
<1> DEFINE new == [row EXCEPT !.password = r, !.out = r]
           kept == IF session[own] # None THEN [session[own] EXCEPT !.out = r] ELSE None
<1>4. new \in AccountRow /\ kept \in SessionRow \cup {None}
  <2>1. new \in AccountRow
    BY DEF AccountRow
  <2>2. CASE session[own] = None
    BY <2>1, <2>2
  <2>3. CASE session[own] # None
    <3>1. PICK before \in SessionRow : before = session[own]
      BY <2>3 DEF Typed, TypeOK
    <3>2. [before EXCEPT !.out = r] \in SessionRow
      BY DEF SessionRow
    <3> QED BY <2>1, <2>3, <3>1, <3>2
  <2> QED BY <2>2, <2>3
<1>5. account' = [account EXCEPT ![a] = new]
  <2>1. account' = [account EXCEPT ![a].password = r, ![a].out = r]
    BY <1>1 DEF ChangeWrite
  <2> QED BY <2>1, <1>1, <1>2 DEF Typed, TypeOK, AccountRow
<1>6. session' = [SignedOut(a) EXCEPT ![own] = kept]
  BY <1>1, <1>3 DEF ChangeWrite
<1>7. UNCHANGED <<now, invitation, reset, attempts, impersonation, wrong>> /\ Over(r)
  BY DEF ChangeWrite
<1> HIDE DEF new, kept
<1>8. /\ account' \in [Account -> AccountRow \cup {None}]
      /\ There(account) \subseteq There(account')
  BY <1>4, <1>5, AccountWritten DEF Typed
<1>9. session' \in [Request -> SessionRow \cup {None}]
  BY <1>4, <1>6, SignedOutTyped DEF Typed
<1> QED BY <1>7, <1>8, <1>9, OverTyped DEF Typed, TypeOK, Grows

LEMMA SignOutTyped ==
    ASSUME Typed, NEW r \in Request, NEW t \in Request, SignOut(r, t)
    PROVE  TypeOK' /\ Grows
<1>1. session' \in [Request -> SessionRow \cup {None}]
  BY DEF SignOut, Typed, TypeOK
<1>2. session[t].through \in Request \cup {None}
  BY DEF SignOut, Typed, TypeOK, SessionRow
<1>3. task' \in [Request -> Task]
  BY <1>2, OverTyped, GoTyped DEF SignOut, Typed, Step
<1>4. UNCHANGED <<now, account, invitation, reset, attempts, impersonation, wrong>>
  BY DEF SignOut
<1> QED BY <1>1, <1>3, <1>4 DEF Typed, TypeOK, Grows

LEMMA SignOutWriteTyped ==
    ASSUME Typed, NEW r \in Request, SignOutWrite(r)
    PROVE  TypeOK' /\ Grows
<1>1. PICK i \in Request : i = task[r].key /\ impersonation[i] \in ImpersonationRow
  BY DEF SignOutWrite, Typed, TypeOK, TasksOK, Fits
<1>2. [impersonation[i] EXCEPT !.ended = TRUE] \in ImpersonationRow
  BY <1>1 DEF ImpersonationRow
<1>3. impersonation' = [impersonation EXCEPT ![i] = [impersonation[i] EXCEPT !.ended = TRUE]]
  BY <1>1 DEF SignOutWrite, Typed, TypeOK
<1>4. /\ impersonation' \in [Request -> ImpersonationRow \cup {None}]
      /\ There(impersonation) \subseteq There(impersonation')
  BY <1>2, <1>3, NoneIsNoRow DEF Typed, TypeOK
<1>5. UNCHANGED <<now, account, invitation, reset, attempts, session, wrong>> /\ Over(r)
  BY DEF SignOutWrite
<1> QED BY <1>4, <1>5, OverTyped DEF Typed, TypeOK, Grows

LEMMA SuspendWriteTyped ==
    ASSUME Typed, NEW r \in Request, SuspendWrite(r)
    PROVE  TypeOK' /\ Grows
<1>1. PICK a \in Account : a = task[r].who /\ account[a] \in AccountRow
  BY DEF SuspendWrite, Typed, TypeOK, TasksOK, Fits
<1>2. PICK row \in AccountRow : row = account[a]
  BY <1>1
<1> DEFINE new == [row EXCEPT !.suspended = TRUE, !.out = r]
<1>3. new \in AccountRow
  BY DEF AccountRow
<1>4. account' = [account EXCEPT ![a] = new]
  <2>1. account' = [account EXCEPT ![a].suspended = TRUE, ![a].out = r]
    BY <1>1 DEF SuspendWrite
  <2> QED BY <2>1, <1>1, <1>2 DEF Typed, TypeOK, AccountRow
<1>5. UNCHANGED <<now, invitation, reset, attempts, wrong>> /\ Over(r) /\ EndSignInsOf(a)
  BY <1>1 DEF SuspendWrite
<1> HIDE DEF new
<1>6. /\ account' \in [Account -> AccountRow \cup {None}]
      /\ There(account) \subseteq There(account')
  BY <1>3, <1>4, AccountWritten DEF Typed
<1>7. /\ session' \in [Request -> SessionRow \cup {None}]
      /\ impersonation' \in [Request -> ImpersonationRow \cup {None}]
      /\ There(impersonation) \subseteq There(impersonation')
  BY <1>5, SignedOutTyped, EndedOfTyped DEF EndSignInsOf, Typed
<1> QED BY <1>5, <1>6, <1>7, OverTyped DEF Typed, TypeOK, Grows

LEMMA LiftTyped ==
    ASSUME Typed, NEW r \in Request, NEW a \in Account, Lift(r, a)
    PROVE  TypeOK' /\ Grows
<1>1. PICK row \in AccountRow : row = account[a]
  BY DEF Lift, Typed, TypeOK
<1> DEFINE new == [row EXCEPT !.suspended = FALSE]
<1>2. new \in AccountRow
  BY DEF AccountRow
<1>3. account' = [account EXCEPT ![a] = new]
  BY <1>1 DEF Lift, Typed, TypeOK, AccountRow
<1>4. UNCHANGED <<now, invitation, reset, attempts, session, impersonation, wrong>> /\ Over(r)
  BY DEF Lift
<1> HIDE DEF new
<1>5. /\ account' \in [Account -> AccountRow \cup {None}]
      /\ There(account) \subseteq There(account')
  BY <1>2, <1>3, AccountWritten DEF Typed
<1> QED BY <1>4, <1>5, OverTyped DEF Typed, TypeOK, Grows

LEMMA ImpersonateWriteTyped ==
    ASSUME Typed, NEW r \in Request, ImpersonateWrite(r)
    PROVE  TypeOK' /\ Grows
<1>1. PICK a \in Account : a = task[r].who /\ account[a] \in AccountRow
  BY DEF ImpersonateWrite, Typed, TypeOK, TasksOK, Fits
<1> DEFINE new  == [who |-> a, ends |-> now + ImpersonationLife, ended |-> FALSE]
           began == [who |-> a, through |-> r, out |-> account[a].out]
<1>2. new \in ImpersonationRow /\ began \in SessionRow
  BY <1>1, Later DEF ImpersonationRow, SessionRow, AccountRow, Typed
<1>3. impersonation' = [impersonation EXCEPT ![r] = new] /\ session' = [session EXCEPT ![r] = began]
  BY <1>1 DEF ImpersonateWrite
<1>4. UNCHANGED <<now, account, invitation, reset, attempts, wrong>> /\ Over(r)
  BY DEF ImpersonateWrite
<1> HIDE DEF new, began
<1>5. /\ impersonation' \in [Request -> ImpersonationRow \cup {None}]
      /\ There(impersonation) \subseteq There(impersonation')
      /\ session' \in [Request -> SessionRow \cup {None}]
  BY <1>2, <1>3, NoneIsNoRow DEF Typed, TypeOK
<1> QED BY <1>4, <1>5, OverTyped DEF Typed, TypeOK, Grows

(* A row of the attempts is written, or none is; nothing else but a task.  *)
LEMMA AttemptRowTyped ==
    ASSUME TypeOK, NEW e \in Email, NEW row \in AttemptsRow \cup {None},
           attempts' = [attempts EXCEPT ![e] = row],
           UNCHANGED <<now, account, invitation, reset, session, impersonation, wrong>>,
           task' \in [Request -> Task]
    PROVE  TypeOK' /\ Grows
  BY DEF TypeOK, Grows

LEMMA AttemptLockedTyped ==
    ASSUME TypeOK, NEW r \in Request, NEW e \in Email, NEW fresh \in BOOLEAN,
           AttemptLocked(r, e, fresh),
           UNCHANGED <<now, account, invitation, reset, session, impersonation, wrong>>
    PROVE  TypeOK' /\ Grows
<1>1. NoFailures \in AttemptsRow
  BY DEF NoFailures, AttemptsRow
<1>2. PICK row \in AttemptsRow : row = IF attempts[e] = None THEN NoFailures ELSE attempts[e]
  BY <1>1 DEF TypeOK
<1>3. CASE Over(r) /\ UNCHANGED attempts
  BY <1>3, OverTyped DEF TypeOK, Grows
<1>4. CASE Locked(e, r, row, fresh) /\ Go(r, "verifying", None, e)
  <2> DEFINE new == [row EXCEPT !.holder = r, !.fresh = fresh]
  <2>1. new \in AttemptsRow
    BY DEF AttemptsRow
  <2>2. attempts' = [attempts EXCEPT ![e] = new]
    BY <1>4 DEF Locked
  <2>3. task' \in [Request -> Task]
    BY <1>4, GoTyped DEF Step
  <2> HIDE DEF new
  <2> QED BY <2>1, <2>2, <2>3, AttemptRowTyped
<1> QED BY <1>2, <1>3, <1>4 DEF AttemptLocked

LEMMA AttemptTyped ==
    ASSUME Typed, NEW r \in Request, NEW e \in Email, Attempt(r, e)
    PROVE  TypeOK' /\ Grows
<1>1. UNCHANGED <<now, account, invitation, reset, session, impersonation, wrong>>
  BY DEF Attempt
<1>2. CASE \E fresh \in BOOLEAN : AttemptLocked(r, e, fresh)
  BY <1>1, <1>2, AttemptLockedTyped DEF Typed
<1>3. CASE Go(r, "waiting", None, e) /\ UNCHANGED attempts
  <2>1. task' \in [Request -> Task]
    BY <1>3, GoTyped DEF Typed, Step
  <2> QED BY <1>1, <1>3, <2>1 DEF Typed, TypeOK, Grows
<1> QED BY <1>2, <1>3 DEF Attempt

LEMMA AttemptLockTyped ==
    ASSUME Typed, NEW r \in Request, AttemptLock(r)
    PROVE  TypeOK' /\ Grows
<1>1. PICK e \in Email : e = task[r].key
  BY DEF AttemptLock, Typed, TasksOK, Fits
<1>2. /\ UNCHANGED <<now, account, invitation, reset, session, impersonation, wrong>>
      /\ AttemptLocked(r, e, FALSE)
  BY <1>1 DEF AttemptLock
<1> QED BY <1>2, AttemptLockedTyped DEF Typed

LEMMA AttemptRightTyped ==
    ASSUME Typed, NEW r \in Request, AttemptRight(r)
    PROVE  TypeOK' /\ Grows
<1>1. PICK e \in Email : e = task[r].key
  BY DEF AttemptRight, Typed, TasksOK, Fits
<1>2. UNCHANGED <<now, account, invitation, reset, session, impersonation>>
  BY DEF AttemptRight
<1>3. PICK next \in Task : Forgotten(e, r, next)
  <2>1. PICK a \in WithEmail(e) :
          Forgotten(e, r, IF account[a].suspended THEN [Idle EXCEPT !.at = "done"]
                          ELSE [at |-> "starting", who |-> a, key |-> None])
    BY <1>1 DEF AttemptRight
  <2>2. [Idle EXCEPT !.at = "done"] \in Task
    BY DEF Idle, Task, Step
  <2>3. [at |-> "starting", who |-> a, key |-> None] \in Task
    BY DEF Task, Step, WithEmail, Typed, TypeOK
  <2> QED BY <2>1, <2>2, <2>3
<1> QED BY <1>2, <1>3, ForgottenTyped DEF Typed, TypeOK, Grows

LEMMA AttemptWrongTyped ==
    ASSUME Typed, NEW r \in Request, AttemptWrong(r), NEW e \in Email, e = task[r].key,
           attempts[e] # None
    PROVE  TypeOK' /\ Grows
<1>1. PICK row \in AttemptsRow : row = attempts[e]
  BY DEF Typed, TypeOK
<1>2. row.failures + 1 \in Nat /\ now \in Nat
  BY Later DEF AttemptsRow, Typed
<1> DEFINE n == row.failures + 1
           new == [failures |-> n, until |-> IF Wait(n) = 0 THEN 0 ELSE now + Wait(n),
                   holder |-> None, fresh |-> FALSE]
<1>3. Wait(n) \in Nat
  BY <1>2, WaitIsNat
<1>4. new \in AttemptsRow
  BY <1>2, <1>3 DEF AttemptsRow
<1>5. attempts' = [attempts EXCEPT ![e] = new]
  BY <1>1 DEF AttemptWrong
<1>6. /\ wrong' = [wrong EXCEPT ![e] = Append(@, now)] /\ Over(r)
      /\ UNCHANGED <<now, account, invitation, reset, session, impersonation>>
  BY DEF AttemptWrong
<1> HIDE DEF new
<1>7. wrong' \in [Email -> Seq(Nat)]
  BY <1>2, <1>6 DEF Typed, TypeOK
<1> QED BY <1>4, <1>5, <1>6, <1>7, OverTyped DEF Typed, TypeOK, Grows

LEMMA FailTyped ==
    ASSUME Typed, NEW r \in Request, Fail(r)
    PROVE  TypeOK' /\ Grows
<1>1. ASSUME NEW e \in Email
      PROVE  (IF attempts[e] = None \/ attempts[e].holder # r THEN attempts[e]
              ELSE IF attempts[e].fresh THEN None
              ELSE [attempts[e] EXCEPT !.holder = None]) \in AttemptsRow \cup {None}
  <2>1. CASE attempts[e] = None
    BY <2>1
  <2>2. CASE attempts[e] # None
    <3>1. PICK row \in AttemptsRow : row = attempts[e]
      BY <2>2 DEF Typed, TypeOK
    <3>2. [row EXCEPT !.holder = None] \in AttemptsRow
      BY DEF AttemptsRow
    <3> QED BY <3>1, <3>2
  <2> QED BY <2>1, <2>2
<1>2. attempts' \in [Email -> AttemptsRow \cup {None}]
  BY <1>1 DEF Fail
<1>3. UNCHANGED <<now, account, invitation, reset, session, impersonation, wrong>> /\ Over(r)
  BY DEF Fail
<1> QED BY <1>2, <1>3, OverTyped DEF Typed, TypeOK, Grows

----------------------------------------------------------------------------
(* What the tasks and the rows refer to stays there.                       *)

LEMMA FitsStay ==
    ASSUME NEW d, Fits(d), Grows
    PROVE  Fits(d)'
  BY DEF Fits, Grows

\* Only one request goes on, but for those waiting for a row that is gone.
Moved(r, d) ==
    /\ task'[r] = d
    /\ \A q \in Request \ {r} :
          \/ task'[q] = task[q]
          \/ task[q].at = "waiting" /\ task'[q].at = "failed"

LEMMA GoMoves ==
    ASSUME TypeOK, NEW r \in Request, NEW at, NEW who, NEW key, Go(r, at, who, key)
    PROVE  Moved(r, [at |-> at, who |-> who, key |-> key])
  BY DEF TypeOK, Go, Moved

LEMMA OverMoves ==
    ASSUME TypeOK, NEW r \in Request, Over(r)
    PROVE  Moved(r, [at |-> "done", who |-> None, key |-> None])
  BY GoMoves DEF Over

LEMMA ForgottenMoves ==
    ASSUME NEW r \in Request, NEW e, NEW next, Forgotten(e, r, next)
    PROVE  Moved(r, next)
  BY DEF Forgotten, Moved

LEMMA TasksStay ==
    ASSUME Typed, Grows, NEW r \in Request, NEW d, Moved(r, d), Fits(d)'
    PROVE  TasksOK'
<1> SUFFICES ASSUME NEW q \in Request  PROVE Fits(task[q])'
  BY DEF TasksOK
<1>1. CASE q = r
  BY <1>1 DEF Moved, Fits
<1>2. CASE q # r /\ task'[q] = task[q]
  <2>1. PICK e : e = task[q]
    OBVIOUS
  <2>2. Fits(e)'
    BY <2>1, FitsStay DEF Typed, TasksOK
  <2> QED BY <1>2, <2>1, <2>2 DEF Fits
<1>3. CASE task'[q].at = "failed"
  BY <1>3 DEF Fits
<1> QED BY <1>1, <1>2, <1>3 DEF Moved

LEMMA RowsStay ==
    ASSUME Typed, Grows, UNCHANGED <<reset, session>>
    PROVE  RowsOK'
  BY DEF Typed, RowsOK, Grows

\* Its last step, that leaves the resets and the Sign-ins alone.
LEMMA OverKeeps ==
    ASSUME Typed, TypeOK', Grows, NEW r \in Request, Over(r), UNCHANGED <<reset, session>>
    PROVE  Typed'
<1> DEFINE d == [at |-> "done", who |-> None, key |-> None]
<1>1. Fits(d)'
  BY DEF Fits
<1>2. Moved(r, d)
  BY OverMoves DEF Typed
<1> HIDE DEF d
<1> QED BY <1>1, <1>2, TasksStay, RowsStay DEF Typed

\* A Sign-in is to start.
LEMMA StartKeeps ==
    ASSUME Typed, TypeOK', Grows, NEW r \in Request, NEW a, account'[a] # None, a \in Account,
           Moved(r, [at |-> "starting", who |-> a, key |-> None]), RowsOK'
    PROVE  Typed'
<1> DEFINE d == [at |-> "starting", who |-> a, key |-> None]
<1>1. Fits(d)'
  BY DEF Fits, TypeOK
<1>2. Moved(r, d)
  OBVIOUS
<1> HIDE DEF d
<1> QED BY <1>1, <1>2, TasksStay DEF Typed

LEMMA OverWritesTyped ==
    ASSUME Typed, NEW r \in Request,
           \/ InviteWrite(r) \/ ResendWrite(r) \/ CancelWrite(r)
           \/ AddWrite(r) \/ SignOutWrite(r) \/ Fail(r)
           \/ \E a \in Account : Lift(r, a)
    PROVE  Typed' /\ Grows
<1>1. TypeOK' /\ Grows
  BY InviteWriteTyped, ResendWriteTyped, CancelWriteTyped, AddWriteTyped, SignOutWriteTyped, FailTyped, LiftTyped
<1>2. Over(r) /\ UNCHANGED <<reset, session>>
  BY DEF InviteWrite, ResendWrite, CancelWrite, AddWrite, SignOutWrite, Fail, Lift
<1> QED BY <1>1, <1>2, OverKeeps

LEMMA LooksTyped ==
    ASSUME Typed, NEW r \in Request, Looks(r)
    PROVE  Typed' /\ Grows
<1>1. UNCHANGED Rows
  BY LooksShape
<1>2. PICK d \in Task : task' = [task EXCEPT ![r] = d] /\ Fits(d)
  BY LooksShape
<1>3. TypeOK' /\ Grows
  BY <1>1, <1>2 DEF Typed, TypeOK, Rows, Grows
<1>4. Moved(r, d)
  BY <1>2 DEF Moved, Typed, TypeOK
<1> QED BY <1>1, <1>2, <1>3, <1>4, FitsStay, TasksStay, RowsStay DEF Typed, Rows

LEMMA AcceptsTyped ==
    ASSUME Typed, NEW r \in Request,
           \/ Accept(r)
           \/ \E l \in Sent, g \in Subject, e \in Email : AcceptGoogle(r, l, g, e)
    PROVE  Typed' /\ Grows
<1>1. TypeOK' /\ Grows
  BY AcceptTyped, AcceptGoogleTyped
<1>2. UNCHANGED <<now, reset, attempts, session, impersonation, wrong>>
  BY DEF Accept, AcceptGoogle
<1>3. CASE Over(r)
  BY <1>1, <1>2, <1>3, OverKeeps
<1>4. ASSUME NEW i \in Sent, invitation[i] # None, NEW password \in Sent \cup {None},
             NEW g \in Subject \cup {None}, Accepted(r, i, password, g)
      PROVE  Typed'
  <2> DEFINE d == [at |-> "starting", who |-> r, key |-> i]
  <2>1. account'[r] # None
    BY <1>2, <1>4, AcceptedTyped
  <2>2. Moved(r, d)
    BY <1>4, GoMoves DEF Accepted, Typed
  <2>3. Fits(d)'
    BY <2>1, <1>1 DEF Fits, TypeOK
  <2> HIDE DEF d
  <2> QED BY <1>1, <1>2, <2>2, <2>3, TasksStay, RowsStay DEF Typed
<1>5. \/ Over(r)
      \/ \E i \in Sent, password \in Sent \cup {None}, g \in Subject \cup {None} :
            invitation[i] # None /\ Accepted(r, i, password, g)
  BY DEF Accept, AcceptGoogle, ByLink, Typed, TypeOK
<1> QED BY <1>1, <1>3, <1>4, <1>5

LEMMA StartSessionKeeps ==
    ASSUME Typed, NEW r \in Request, StartSession(r)
    PROVE  Typed' /\ Grows
<1>1. TypeOK' /\ Grows
  BY StartSessionTyped
<1>2. PICK a \in There(account) : a = task[r].who
  BY DEF StartSession, Typed, TasksOK, Fits
<1>3. session' = [session EXCEPT ![r] = [who |-> a, through |-> None, out |-> account[a].out]] /\ UNCHANGED <<reset, account>>
  BY <1>2 DEF StartSession
<1>4. RowsOK'
  BY <1>1, <1>2, <1>3 DEF Typed, TypeOK, RowsOK, Grows
<1> DEFINE d == [at |-> "done", who |-> None, key |-> None]
<1>5. Fits(d)'
  BY DEF Fits
<1>6. Moved(r, d)
  BY OverMoves DEF Typed, StartSession
<1> HIDE DEF d
<1> QED BY <1>1, <1>4, <1>5, <1>6, TasksStay DEF Typed

LEMMA AttemptsTyped ==
    ASSUME Typed, NEW r \in Request, AttemptLock(r) \/ \E e \in Email : Attempt(r, e)
    PROVE  Typed' /\ Grows
<1>1. TypeOK' /\ Grows
  BY AttemptLockTyped, AttemptTyped
<1>2. UNCHANGED <<reset, session>>
  BY DEF Attempt, AttemptLock
<1>3. CASE Over(r)
  BY <1>1, <1>2, <1>3, OverKeeps
<1>4. ASSUME NEW e \in Email, NEW at \in {"waiting", "verifying"}, Go(r, at, None, e)  PROVE Typed'
  <2> DEFINE d == [at |-> at, who |-> None, key |-> e]
  <2>1. Moved(r, d)
    BY <1>4, GoMoves DEF Typed
  <2>2. Fits(d)'
    BY DEF Fits
  <2> HIDE DEF d
  <2> QED BY <1>1, <1>2, <2>1, <2>2, TasksStay, RowsStay DEF Typed
<1>5. Over(r) \/ \E e \in Email, at \in {"waiting", "verifying"} : Go(r, at, None, e)
  BY DEF Attempt, AttemptLock, AttemptLocked, Typed, TasksOK, Fits
<1> QED BY <1>1, <1>3, <1>4, <1>5

LEMMA AttemptRightKeeps ==
    ASSUME Typed, NEW r \in Request, AttemptRight(r)
    PROVE  Typed' /\ Grows
<1>1. TypeOK' /\ Grows
  BY AttemptRightTyped
<1>2. UNCHANGED <<now, account, invitation, reset, session, impersonation>>
  BY DEF AttemptRight
<1>3. PICK a \in WithEmail(task[r].key) :
        Forgotten(task[r].key, r, IF account[a].suspended THEN [Idle EXCEPT !.at = "done"]
                                  ELSE [at |-> "starting", who |-> a, key |-> None])
  BY DEF AttemptRight
<1>4. a \in There(account)
  BY DEF WithEmail
<1>5. PICK d : Moved(r, d) /\ Fits(d)'
  <2>1. CASE account[a].suspended
    <3>1. Moved(r, [at |-> "done", who |-> None, key |-> None])
      BY <1>3, <2>1, ForgottenMoves DEF Idle
    <3> QED BY <3>1 DEF Fits
  <2>2. CASE ~account[a].suspended
    <3>1. Moved(r, [at |-> "starting", who |-> a, key |-> None])
      BY <1>3, <2>2, ForgottenMoves
    <3> QED BY <1>2, <1>4, <3>1 DEF Fits
  <2> QED BY <2>1, <2>2
<1> QED BY <1>1, <1>2, <1>5, TasksStay, RowsStay DEF Typed

LEMMA GoogleLinkKeeps ==
    ASSUME Typed, NEW r \in Request, GoogleLink(r)
    PROVE  Typed' /\ Grows
<1>1. TypeOK' /\ Grows
  BY GoogleLinkTyped
<1>2. PICK a \in There(account) : a = task[r].who
  BY DEF GoogleLink, Typed, TasksOK, Fits
<1>3. UNCHANGED <<reset, session>> /\ (Over(r) \/ Go(r, "starting", a, None))
  BY <1>2 DEF GoogleLink
<1>4. CASE Over(r)
  BY <1>1, <1>3, <1>4, OverKeeps
<1>5. CASE Go(r, "starting", a, None)
  <2>1. a \in There(account)'
    BY <1>1, <1>2 DEF Grows
  <2>2. Moved(r, [at |-> "starting", who |-> a, key |-> None])
    BY <1>5, GoMoves DEF Typed
  <2> QED BY <1>1, <1>3, <2>1, <2>2, StartKeeps, RowsStay DEF TypeOK
<1> QED BY <1>1, <1>3, <1>4, <1>5

LEMMA ResetsTyped ==
    ASSUME Typed, NEW r \in Request, ResetDelete(r) \/ ResetInsert(r)
    PROVE  Typed' /\ Grows
<1>1. TypeOK' /\ Grows
  BY ResetDeleteTyped, ResetInsertTyped
<1>2. PICK a \in There(account) : a = task[r].who
  BY DEF ResetDelete, ResetInsert, Typed, TasksOK, Fits
<1>3. UNCHANGED <<account, session, impersonation>>
  BY DEF ResetDelete, ResetInsert
<1>4. \A l \in There(reset') : reset'[l].who = a \/ reset'[l] = reset[l]
  <2>1. CASE ResetDelete(r)
    BY <2>1 DEF ResetDelete
  <2>2. CASE ResetInsert(r)
    BY <1>2, <2>2 DEF ResetInsert, Typed, TypeOK
  <2> QED BY <2>1, <2>2
<1>5. RowsOK'
  BY <1>1, <1>2, <1>3, <1>4 DEF Typed, TypeOK, RowsOK
<1>6. CASE Go(r, "sending", a, None)
  <2> DEFINE d == [at |-> "sending", who |-> a, key |-> None]
  <2>1. Moved(r, d)
    BY <1>6, GoMoves DEF Typed
  <2>2. Fits(d)'
    BY <1>2, <1>3 DEF Fits
  <2> HIDE DEF d
  <2> QED BY <1>1, <1>5, <2>1, <2>2, TasksStay DEF Typed
<1>7. CASE Over(r)
  <2> DEFINE d == [at |-> "done", who |-> None, key |-> None]
  <2>1. Moved(r, d)
    BY <1>7, OverMoves DEF Typed
  <2>2. Fits(d)'
    BY DEF Fits
  <2> HIDE DEF d
  <2> QED BY <1>1, <1>5, <2>1, <2>2, TasksStay DEF Typed
<1> QED BY <1>1, <1>2, <1>6, <1>7 DEF ResetDelete, ResetInsert

\* What a Sign-in row says once those of an Account are out.
LEMMA SignedOutRows ==
    ASSUME TypeOK, NEW a \in Account, NEW t \in Request, SignedOut(a)[t] # None
    PROVE  SignedOut(a)[t] = session[t] /\ session[t].who # a /\ t \in There(session)
  BY DEF SignedOut, TypeOK

LEMMA SessionRowsStay ==
    ASSUME Typed, Grows, UNCHANGED reset, DOMAIN session' = Request,
           \A t \in There(session') :
              /\ t \in There(session)
              /\ session'[t].who = session[t].who /\ session'[t].through = session[t].through
    PROVE  RowsOK'
  BY DEF Typed, RowsOK, Grows

LEMMA SuspendWriteKeeps ==
    ASSUME Typed, NEW r \in Request, SuspendWrite(r)
    PROVE  Typed' /\ Grows
<1>1. TypeOK' /\ Grows
  BY SuspendWriteTyped
<1>2. PICK a \in There(account) : a = task[r].who
  BY DEF SuspendWrite, Typed, TasksOK, Fits
<1>3. session' = SignedOut(a) /\ UNCHANGED reset /\ Over(r)
  BY <1>2 DEF SuspendWrite, EndSignInsOf
<1>4. RowsOK'
  BY <1>1, <1>2, <1>3, SignedOutRows, SessionRowsStay DEF Typed, TypeOK
<1> DEFINE d == [at |-> "done", who |-> None, key |-> None]
<1>5. Moved(r, d)
  BY <1>3, OverMoves DEF Typed
<1>6. Fits(d)'
  BY DEF Fits
<1> HIDE DEF d
<1> QED BY <1>1, <1>4, <1>5, <1>6, TasksStay DEF Typed

LEMMA ChangeWriteKeeps ==
    ASSUME Typed, NEW r \in Request, ChangeWrite(r)
    PROVE  Typed' /\ Grows
<1>1. TypeOK' /\ Grows
  BY ChangeWriteTyped
<1>2. PICK a \in There(account), own \in Request : a = task[r].who /\ own = task[r].key
  BY DEF ChangeWrite, Typed, TasksOK, Fits
<1>3. session' = [SignedOut(a) EXCEPT ![own] =
                     IF session[own] # None THEN [session[own] EXCEPT !.out = r] ELSE None]
  BY <1>2 DEF ChangeWrite
<1>4. UNCHANGED reset /\ Over(r)
  BY DEF ChangeWrite
<1>5. ASSUME NEW t \in There(session')
      PROVE  /\ t \in There(session)
             /\ session'[t].who = session[t].who /\ session'[t].through = session[t].through
  <2>1. t \in Request /\ session'[t] # None
    BY <1>1 DEF TypeOK
  <2>2. CASE t # own
    <3>1. session'[t] = SignedOut(a)[t]
      BY <1>3, <2>1, <2>2
    <3>2. a \in Account
      BY <1>2 DEF Typed, TypeOK
    <3> QED BY <2>1, <3>1, <3>2, SignedOutRows DEF Typed
  <2>3. CASE t = own
    <3>1. session'[t] = IF session[own] # None THEN [session[own] EXCEPT !.out = r] ELSE None
      BY <1>3, <2>3 DEF SignedOut
    <3>2. session[own] # None
      BY <2>1, <3>1
    <3>3. PICK row \in SessionRow : row = session[own]
      BY <3>2 DEF Typed, TypeOK
    <3>4. session'[t] = [row EXCEPT !.out = r]
      BY <3>1, <3>2, <3>3
    <3>5. [row EXCEPT !.out = r].who = row.who /\ [row EXCEPT !.out = r].through = row.through
      BY DEF SessionRow
    <3>6. own \in There(session)
      BY <3>2 DEF Typed, TypeOK
    <3> QED BY <2>3, <3>3, <3>4, <3>5, <3>6
  <2> QED BY <2>2, <2>3
<1>6. RowsOK'
  BY <1>1, <1>4, <1>5, SessionRowsStay DEF TypeOK
<1> DEFINE d == [at |-> "done", who |-> None, key |-> None]
<1>7. Moved(r, d)
  BY <1>4, OverMoves DEF Typed
<1>8. Fits(d)'
  BY DEF Fits
<1> HIDE DEF d
<1> QED BY <1>1, <1>6, <1>7, <1>8, TasksStay DEF Typed

LEMMA SignOutKeeps ==
    ASSUME Typed, NEW r \in Request, NEW t \in Request, SignOut(r, t)
    PROVE  Typed' /\ Grows
<1>1. TypeOK' /\ Grows
  BY SignOutTyped
<1>2. session' = [session EXCEPT ![t] = None] /\ UNCHANGED <<reset, impersonation>> /\ session[t] # None
  BY DEF SignOut
<1>3. RowsOK'
  BY <1>1, <1>2, SessionRowsStay DEF Typed, TypeOK
<1>4. PICK i : i = session[t].through
  OBVIOUS
<1>5. PICK d : Moved(r, d) /\ Fits(d)'
  <2>1. CASE Over(r)
    <3>1. Moved(r, [at |-> "done", who |-> None, key |-> None])
      BY <2>1, OverMoves DEF Typed
    <3> QED BY <3>1 DEF Fits
  <2>2. CASE Go(r, "leaving", None, i) /\ i # None
    <3>1. Moved(r, [at |-> "leaving", who |-> None, key |-> i])
      BY <2>2, GoMoves DEF Typed
    <3>2. i \in There(impersonation)'
      BY <1>2, <1>4, <2>2 DEF Typed, TypeOK, RowsOK
    <3> QED BY <3>1, <3>2 DEF Fits
  <2> QED BY <1>4, <2>1, <2>2 DEF SignOut
<1> QED BY <1>1, <1>3, <1>5, TasksStay DEF Typed

LEMMA ImpersonateWriteKeeps ==
    ASSUME Typed, NEW r \in Request, ImpersonateWrite(r)
    PROVE  Typed' /\ Grows
<1>1. TypeOK' /\ Grows
  BY ImpersonateWriteTyped
<1>2. PICK a \in There(account) : a = task[r].who
  BY DEF ImpersonateWrite, Typed, TasksOK, Fits
<1>3. /\ session' = [session EXCEPT ![r] = [who |-> a, through |-> r, out |-> account[a].out]]
      /\ impersonation' = [impersonation EXCEPT ![r] =
            [who |-> a, ends |-> now + ImpersonationLife, ended |-> FALSE]]
      /\ UNCHANGED <<account, reset>> /\ Over(r)
  BY <1>2 DEF ImpersonateWrite
<1>4. r \in There(impersonation')
  <2>1. [who |-> a, ends |-> now + ImpersonationLife, ended |-> FALSE] \in ImpersonationRow
    BY <1>2, Later DEF ImpersonationRow, Typed, TypeOK
  <2> QED BY <1>3, <2>1, NoneIsNoRow DEF Typed, TypeOK
<1>5. RowsOK'
  BY <1>1, <1>2, <1>3, <1>4 DEF Typed, TypeOK, RowsOK, Grows
<1> DEFINE d == [at |-> "done", who |-> None, key |-> None]
<1>6. Moved(r, d)
  BY <1>3, OverMoves DEF Typed
<1>7. Fits(d)'
  BY DEF Fits
<1> HIDE DEF d
<1> QED BY <1>1, <1>5, <1>6, <1>7, TasksStay DEF Typed

LEMMA CompleteWriteKeeps ==
    ASSUME Typed, NEW r \in Request, CompleteWrite(r)
    PROVE  Typed' /\ Grows
<1>1. TypeOK' /\ Grows
  BY CompleteWriteTyped
<1>2. CASE Over(r) /\ UNCHANGED <<account, reset, attempts, session, impersonation, wrong>>
  BY <1>1, <1>2, OverKeeps
<1>3. ASSUME NEW l \in Request, reset[l] # None, ResetDone(r, l)  PROVE Typed'
  <2>1. PICK a \in There(account) : a = reset[l].who
    BY <1>3 DEF Typed, TypeOK, RowsOK
  <2>2. PICK e : e = account[a].email
    OBVIOUS
  <2>3. /\ reset' = [reset EXCEPT ![l].used = @ \cup {r}] /\ session' = SignedOut(a)
        /\ Forgotten(e, r, [at |-> "starting", who |-> a, key |-> None])
    BY <1>3, <2>1, <2>2 DEF ResetDone, EndSignInsOf
  <2>4. Moved(r, [at |-> "starting", who |-> a, key |-> None])
    BY <2>3, ForgottenMoves
  <2>5. \A k \in There(reset') : k \in There(reset) /\ reset'[k].who = reset[k].who
    BY <1>3, <2>3, NoneIsNoRow DEF Typed, TypeOK, ResetRow
  <2>6. \A t \in There(session') : session'[t] = session[t] /\ t \in There(session)
    BY <2>1, <2>3, <1>1, SignedOutRows DEF Typed, TypeOK
  <2>7. RowsOK'
    BY <1>1, <2>5, <2>6 DEF Typed, RowsOK, Grows
  <2>8. a \in Account /\ account'[a] # None
    BY <1>1, <2>1 DEF Typed, TypeOK, Grows
  <2> QED BY <1>1, <2>4, <2>7, <2>8, StartKeeps
<1>4. task[r].key \in Request
  BY DEF CompleteWrite, Typed, TasksOK, Fits
<1> QED BY <1>1, <1>2, <1>3, <1>4 DEF CompleteWrite

----------------------------------------------------------------------------
(* The locks and the counts of the attempts at a password.                 *)

\* One whose password is being verified holds the row, and may try; one that
\* waits has a row to wait for.
LockOK(d, row, r) ==
    /\ row # None
    /\ d.at = "verifying" => row.holder = r /\ row.until <= now
    /\ d.at = "waiting" => ~row.fresh

LocksOK ==
    \A r \in Request : \A e \in Email :
        task[r].at \in {"waiting", "verifying"} /\ task[r].key = e => LockOK(task[r], attempts[e], r)

\* The row counts the wrong passwords typed in a row, and waits from the last.
CountOK(row, typed) ==
    IF row = None THEN typed = <<>>
    ELSE LET n == Len(typed) IN
         /\ row.failures = n
         /\ row.fresh => typed = <<>>
         /\ n > 0 => typed[n] <= now /\ (Wait(n) = 0 \/ typed[n] + Wait(n) <= row.until)

CountsOK == \A e \in Email : CountOK(attempts[e], wrong[e])

Guessing == LocksOK /\ CountsOK /\ GuessesWait

\* Whatever leaves the attempts alone leaves what is known of them too.
LEMMA GuessingStays ==
    ASSUME TypeOK, Guessing, NEW r \in Request, NEW d, Moved(r, d),
           d.at \notin {"waiting", "verifying"}, UNCHANGED <<now, attempts, wrong>>
    PROVE  Guessing'
<1>1. LocksOK'
  <2> SUFFICES ASSUME NEW q \in Request, NEW e \in Email,
                      task'[q].at \in {"waiting", "verifying"}, task'[q].key = e
               PROVE  LockOK(task[q], attempts[e], q)'
    BY DEF LocksOK
  <2>1. q # r /\ task'[q] = task[q]
    BY DEF Moved
  <2> QED BY <2>1 DEF Guessing, LocksOK, LockOK
<1>2. CountsOK' /\ GuessesWait'
  BY DEF Guessing, CountsOK, CountOK, GuessesWait, Wait
<1> QED BY <1>1, <1>2 DEF Guessing

LEMMA TickGuessing ==
    ASSUME TypeOK, Guessing, Tick
    PROVE  Guessing'
<1>1. now' = now + 1 /\ now \in Nat /\ UNCHANGED <<attempts, task, wrong>>
  BY DEF Tick, TypeOK
<1>2. LocksOK'
  <2> SUFFICES ASSUME NEW q \in Request, NEW e \in Email,
                      task'[q].at \in {"waiting", "verifying"}, task'[q].key = e
               PROVE  LockOK(task[q], attempts[e], q)'
    BY DEF LocksOK
  <2>1. LockOK(task[q], attempts[e], q)
    BY <1>1 DEF Guessing, LocksOK
  <2>2. PICK row \in AttemptsRow : row = attempts[e]
    BY <2>1 DEF LockOK, TypeOK
  <2>3. row.until \in Nat
    BY DEF AttemptsRow
  <2> QED BY <1>1, <2>1, <2>2, <2>3 DEF LockOK
<1>3. CountsOK'
  <2> SUFFICES ASSUME NEW e \in Email  PROVE CountOK(attempts[e], wrong[e])'
    BY DEF CountsOK
  <2>1. CountOK(attempts[e], wrong[e]) /\ wrong[e] \in Seq(Nat)
    BY DEF Guessing, CountsOK, TypeOK
  <2>2. PICK typed \in Seq(Nat) : typed = wrong[e]
    BY <2>1
  <2>3. Len(typed) \in Nat /\ (Len(typed) > 0 => typed[Len(typed)] \in Nat)
    OBVIOUS
  <2> QED BY <1>1, <2>1, <2>2, <2>3 DEF CountOK
<1>4. GuessesWait'
  BY <1>1 DEF Guessing, GuessesWait
<1> QED BY <1>2, <1>3, <1>4 DEF Guessing

LEMMA ForgottenGuessing ==
    ASSUME TypeOK, Guessing, NEW r \in Request, NEW e \in Email, NEW next,
           Forgotten(e, r, next), next.at \notin {"waiting", "verifying"}, UNCHANGED now,
           attempts[e] # None => attempts[e].holder \in {None, r}
    PROVE  Guessing'
<1>1. /\ attempts' = [attempts EXCEPT ![e] = None]
      /\ wrong' = [wrong EXCEPT ![e] = <<>>]
  BY DEF Forgotten
<1>2. LocksOK'
  <2> SUFFICES ASSUME NEW q \in Request, NEW f \in Email,
                      task'[q].at \in {"waiting", "verifying"}, task'[q].key = f
               PROVE  LockOK(task[q], attempts[f], q)'
    BY DEF LocksOK
  <2>1. q # r /\ task'[q] = task[q] /\ ~(task[q].at = "waiting" /\ task[q].key = e)
    BY DEF Forgotten
  <2>2. LockOK(task[q], attempts[f], q)
    BY <2>1 DEF Guessing, LocksOK
  <2>3. f # e
    BY <2>1, <2>2, NamesAreApart DEF LockOK
  <2>4. attempts'[f] = attempts[f]
    BY <1>1, <2>3 DEF TypeOK
  <2> QED BY <2>1, <2>2, <2>4 DEF LockOK
<1>3. CountsOK'
  <2> SUFFICES ASSUME NEW f \in Email  PROVE CountOK(attempts[f], wrong[f])'
    BY DEF CountsOK
  <2>1. CASE f = e
    BY <1>1, <2>1 DEF CountOK, TypeOK
  <2>2. CASE f # e
    <3>1. attempts'[f] = attempts[f] /\ wrong'[f] = wrong[f]
      BY <1>1, <2>2 DEF TypeOK
    <3> QED BY <3>1 DEF Guessing, CountsOK, CountOK
  <2> QED BY <2>1, <2>2
<1>4. GuessesWait'
  <2> SUFFICES ASSUME NEW f \in Email, NEW k \in 1..(Len(wrong'[f]) - 1)
               PROVE  wrong'[f][k + 1] >= wrong'[f][k] + Wait(k)
    BY DEF GuessesWait
  <2>1. f # e
    BY <1>1 DEF TypeOK
  <2>2. wrong'[f] = wrong[f]
    BY <1>1, <2>1 DEF TypeOK
  <2> QED BY <2>2 DEF Guessing, GuessesWait
<1> QED BY <1>2, <1>3, <1>4 DEF Guessing

LEMMA LockedGuessing ==
    ASSUME TypeOK, Guessing, NEW r \in Request, NEW e \in Email, NEW fresh \in BOOLEAN,
           AttemptLocked(r, e, fresh), UNCHANGED <<now, wrong>>,
           IF fresh THEN attempts[e] = None ELSE attempts[e] # None /\ attempts[e].holder = None
    PROVE  Guessing'
<1>1. CASE Over(r) /\ UNCHANGED attempts
  <2> DEFINE d == [at |-> "done", who |-> None, key |-> None]
  <2>1. Moved(r, d) /\ d.at \notin {"waiting", "verifying"}
    BY <1>1, OverMoves
  <2> HIDE DEF d
  <2> QED BY <1>1, <2>1, GuessingStays
<1>2. PICK row \in AttemptsRow : row = IF attempts[e] = None THEN NoFailures ELSE attempts[e]
  BY DEF TypeOK, NoFailures, AttemptsRow
<1>3. CASE row.until <= now /\ Locked(e, r, row, fresh) /\ Go(r, "verifying", None, e)
  <2> DEFINE new == [row EXCEPT !.holder = r, !.fresh = fresh]
  <2>1. /\ new.holder = r /\ new.fresh = fresh /\ new.until = row.until
        /\ new.failures = row.failures /\ new # None
    BY NoneIsNoRow DEF AttemptsRow
  <2>2. attempts' = [attempts EXCEPT ![e] = new]
    BY <1>3 DEF Locked
  <2>3. Moved(r, [at |-> "verifying", who |-> None, key |-> e])
    BY <1>3, GoMoves
  <2>4. ASSUME NEW f \in Email, f # e  PROVE attempts'[f] = attempts[f]
    BY <2>2, <2>4 DEF TypeOK
  <2>5. attempts'[e] = new
    BY <2>2 DEF TypeOK
  <2> HIDE DEF new
  <2>6. LocksOK'
    <3> SUFFICES ASSUME NEW q \in Request, NEW f \in Email,
                        task'[q].at \in {"waiting", "verifying"}, task'[q].key = f
                 PROVE  LockOK(task[q], attempts[f], q)'
      BY DEF LocksOK
    <3>1. CASE q = r
      BY <1>3, <2>1, <2>3, <2>5, <3>1 DEF LockOK, Moved
    <3>2. CASE q # r
      <4>1. task'[q] = task[q]
        BY <2>3, <3>2 DEF Moved
      <4>2. LockOK(task[q], attempts[f], q)
        BY <4>1 DEF Guessing, LocksOK
      <4>3. CASE f # e
        BY <2>4, <4>1, <4>2, <4>3 DEF LockOK
      <4>4. CASE f = e
        BY <2>1, <2>5, <4>1, <4>2, <4>4, NamesAreApart DEF LockOK
      <4> QED BY <4>3, <4>4
    <3> QED BY <3>1, <3>2
  <2>7. CountsOK'
    <3> SUFFICES ASSUME NEW f \in Email  PROVE CountOK(attempts[f], wrong[f])'
      BY DEF CountsOK
    <3>1. CountOK(attempts[f], wrong[f])
      BY DEF Guessing, CountsOK
    <3>2. CASE f # e
      BY <2>4, <3>1, <3>2 DEF CountOK
    <3>3. CASE f = e /\ attempts[e] = None
      BY <1>2, <2>1, <2>5, <3>1, <3>3 DEF CountOK, NoFailures
    <3>4. CASE f = e /\ attempts[e] # None
      BY <1>2, <2>1, <2>5, <3>1, <3>4 DEF CountOK
    <3> QED BY <3>2, <3>3, <3>4
  <2>8. GuessesWait'
    BY DEF Guessing, GuessesWait
  <2> QED BY <2>6, <2>7, <2>8 DEF Guessing
<1>4. \/ Over(r) /\ UNCHANGED attempts
      \/ row.until <= now /\ Locked(e, r, row, fresh) /\ Go(r, "verifying", None, e)
  <2>1. row.until \in Nat /\ now \in Nat
    BY Later DEF AttemptsRow
  <2> QED BY <1>2, <2>1 DEF AttemptLocked
<1> QED BY <1>1, <1>3, <1>4

LEMMA WrongGuessing ==
    ASSUME Typed, Guessing, NEW r \in Request, AttemptWrong(r)
    PROVE  Guessing'
<1>1. PICK e \in Email : e = task[r].key
  BY DEF AttemptWrong, Typed, TasksOK, Fits
<1>2. LockOK(task[r], attempts[e], r) /\ task[r].at = "verifying"
  BY <1>1 DEF AttemptWrong, Guessing, LocksOK
<1>3. PICK row \in AttemptsRow : row = attempts[e] /\ row.holder = r /\ row.until <= now
  BY <1>2 DEF LockOK, Typed, TypeOK
<1>4. PICK typed \in Seq(Nat) : typed = wrong[e]
  BY DEF Typed, TypeOK
<1>5. /\ row.failures \in Nat /\ row.until \in Nat /\ now \in Nat
      /\ Len(typed) \in Nat /\ Wait(row.failures) \in Nat /\ Wait(row.failures + 1) \in Nat
  <2>1. row.failures \in Nat /\ row.until \in Nat /\ now \in Nat
    BY <1>3, Later DEF AttemptsRow, Typed
  <2>2. row.failures + 1 \in Nat /\ Len(typed) \in Nat
    BY <2>1
  <2> QED BY <2>1, <2>2, WaitIsNat
<1>6. CountOK(row, typed) /\ row # None
  BY <1>2, <1>3, <1>4 DEF Guessing, CountsOK, LockOK
<1> DEFINE n == row.failures + 1
           new == [failures |-> n, until |-> IF Wait(n) = 0 THEN 0 ELSE now + Wait(n),
                   holder |-> None, fresh |-> FALSE]
<1>7. attempts' = [attempts EXCEPT ![e] = new] /\ wrong' = [wrong EXCEPT ![e] = Append(typed, now)]
  BY <1>1, <1>3, <1>4 DEF AttemptWrong
<1>8. /\ attempts'[e] = new /\ wrong'[e] = Append(typed, now)
      /\ \A f \in Email \ {e} : attempts'[f] = attempts[f] /\ wrong'[f] = wrong[f]
  BY <1>7 DEF Typed, TypeOK
<1>9. now' = now /\ Moved(r, [at |-> "done", who |-> None, key |-> None])
  BY OverMoves DEF AttemptWrong, Typed
<1>10. new # None /\ ~new.fresh
  <2>1. new \in AttemptsRow
    BY <1>5 DEF AttemptsRow
  <2> QED BY <2>1, NoneIsNoRow
<1>11. LocksOK'
  <2> SUFFICES ASSUME NEW q \in Request, NEW f \in Email,
                      task'[q].at \in {"waiting", "verifying"}, task'[q].key = f
               PROVE  LockOK(task[q], attempts[f], q)'
    BY DEF LocksOK
  <2>1. q # r /\ task'[q] = task[q]
    BY <1>9 DEF Moved
  <2>2. LockOK(task[q], attempts[f], q)
    BY <2>1 DEF Guessing, LocksOK
  <2>3. CASE f # e
    BY <1>8, <1>9, <2>1, <2>2, <2>3 DEF LockOK
  <2>4. CASE f = e
    <3>1. task[q].at # "verifying"
      BY <1>3, <2>1, <2>2, <2>4 DEF LockOK
    <3> HIDE DEF new
    <3> QED BY <1>8, <1>10, <2>1, <2>4, <3>1 DEF LockOK
  <2> QED BY <2>3, <2>4
<1>12. /\ Len(Append(typed, now)) = n /\ Append(typed, now)[n] = now /\ n = Len(typed) + 1
       /\ \A k \in 1..Len(typed) : Append(typed, now)[k] = typed[k]
  BY <1>5, <1>6 DEF CountOK
<1>13. CountsOK'
  <2> SUFFICES ASSUME NEW f \in Email  PROVE CountOK(attempts[f], wrong[f])'
    BY DEF CountsOK
  <2>1. CASE f # e
    BY <1>8, <1>9, <2>1 DEF Guessing, CountsOK, CountOK
  <2>2. CASE f = e
    <3>1. PICK next, after : next = new /\ after = Append(typed, now)
      OBVIOUS
    <3>2. next.failures = n /\ next.until = (IF Wait(n) = 0 THEN 0 ELSE now + Wait(n))
      BY <3>1
    <3>3. next # None /\ ~next.fresh /\ Len(after) = n /\ after[n] = now
      BY <1>10, <1>12, <3>1
    <3>4. attempts'[f] = next /\ wrong'[f] = after
      BY <1>8, <2>2, <3>1
    <3> HIDE DEF new
    <3>5. CountOK(next, after)'
      BY <1>5, <1>9, <3>2, <3>3 DEF CountOK, Wait
    <3> QED BY <3>4, <3>5 DEF CountOK
  <2> QED BY <2>1, <2>2
<1>14. GuessesWait'
  <2> SUFFICES ASSUME NEW f \in Email, NEW k \in 1..(Len(wrong'[f]) - 1)
               PROVE  wrong'[f][k + 1] >= wrong'[f][k] + Wait(k)
    BY DEF GuessesWait
  <2>1. CASE f # e
    BY <1>8, <2>1 DEF Guessing, GuessesWait
  <2>2. CASE f = e
    <3>1. k \in 1..Len(typed)
      BY <1>5, <1>8, <1>12, <2>2
    <3>2. CASE k = Len(typed)
      <4>0. Len(typed) > 0
        BY <1>5, <3>1, <3>2
      <4>1. typed[k] <= now /\ (Wait(k) = 0 \/ typed[k] + Wait(k) <= row.until)
        BY <1>6, <3>2, <4>0 DEF CountOK
      <4>2. k = row.failures /\ typed[k] \in Nat
        BY <1>6, <3>1, <3>2 DEF CountOK
      <4>3. now >= typed[k] + Wait(k)
        BY <1>3, <1>5, <4>1, <4>2
      <4> QED BY <1>8, <1>12, <2>2, <3>1, <3>2, <4>3
    <3>3. CASE k # Len(typed)
      <4>1. k \in 1..(Len(typed) - 1) /\ k + 1 \in 1..Len(typed)
        BY <1>5, <3>1, <3>3
      <4>2. typed[k + 1] >= typed[k] + Wait(k)
        BY <1>4, <4>1 DEF Guessing, GuessesWait
      <4> QED BY <1>8, <1>12, <2>2, <3>1, <4>1, <4>2
    <3> QED BY <3>2, <3>3
  <2> QED BY <2>1, <2>2
<1> QED BY <1>11, <1>13, <1>14 DEF Guessing

LEMMA FailGuessing ==
    ASSUME Typed, Guessing, NEW r \in Request, Fail(r)
    PROVE  Guessing'
<1>1. UNCHANGED <<now, wrong>> /\ Moved(r, [at |-> "done", who |-> None, key |-> None])
  BY OverMoves DEF Fail, Typed
<1>2. ASSUME NEW e \in Email, attempts[e] = None \/ attempts[e].holder # r
      PROVE  attempts'[e] = attempts[e]
  BY <1>2 DEF Fail
<1>3. ASSUME NEW e \in Email, attempts[e] # None, attempts[e].holder = r, attempts[e].fresh
      PROVE  attempts'[e] = None
  BY <1>3 DEF Fail
<1>4. ASSUME NEW e \in Email, attempts[e] # None, attempts[e].holder = r, ~attempts[e].fresh
      PROVE  /\ attempts'[e] # None /\ ~attempts'[e].fresh
             /\ attempts'[e].failures = attempts[e].failures
             /\ attempts'[e].until = attempts[e].until
  <2>1. PICK row \in AttemptsRow : row = attempts[e]
    BY <1>4 DEF Typed, TypeOK
  <2>2. attempts'[e] = [row EXCEPT !.holder = None]
    BY <1>4, <2>1 DEF Fail
  <2>3. /\ [row EXCEPT !.holder = None] \in AttemptsRow
        /\ [row EXCEPT !.holder = None].fresh = row.fresh
        /\ [row EXCEPT !.holder = None].failures = row.failures
        /\ [row EXCEPT !.holder = None].until = row.until
    BY DEF AttemptsRow
  <2> QED BY <1>4, <2>1, <2>2, <2>3, NoneIsNoRow
<1>5. LocksOK'
  <2> SUFFICES ASSUME NEW q \in Request, NEW e \in Email,
                      task'[q].at \in {"waiting", "verifying"}, task'[q].key = e
               PROVE  LockOK(task[q], attempts[e], q)'
    BY DEF LocksOK
  <2>1. q # r /\ task'[q] = task[q]
    BY <1>1 DEF Moved
  <2>2. LockOK(task[q], attempts[e], q)
    BY <2>1 DEF Guessing, LocksOK
  <2>3. CASE attempts[e].holder # r
    BY <1>1, <1>2, <2>1, <2>2, <2>3 DEF LockOK
  <2>4. CASE attempts[e].holder = r
    BY <1>4, <2>1, <2>2, <2>4 DEF LockOK
  <2> QED BY <2>3, <2>4
<1>6. CountsOK'
  <2> SUFFICES ASSUME NEW e \in Email  PROVE CountOK(attempts[e], wrong[e])'
    BY DEF CountsOK
  <2>1. CountOK(attempts[e], wrong[e])
    BY DEF Guessing, CountsOK
  <2>2. CASE attempts[e] = None \/ attempts[e].holder # r
    BY <1>1, <1>2, <2>1, <2>2 DEF CountOK
  <2>3. CASE attempts[e] # None /\ attempts[e].holder = r /\ attempts[e].fresh
    BY <1>1, <1>3, <2>1, <2>3 DEF CountOK
  <2>4. CASE attempts[e] # None /\ attempts[e].holder = r /\ ~attempts[e].fresh
    BY <1>1, <1>4, <2>1, <2>4 DEF CountOK
  <2> QED BY <2>2, <2>3, <2>4
<1>7. GuessesWait'
  BY <1>1 DEF Guessing, GuessesWait
<1> QED BY <1>5, <1>6, <1>7 DEF Guessing

\* Its row is let go of, or its next statement does not touch the attempts.
LEMMA GoGuessing ==
    ASSUME TypeOK, Guessing, NEW r \in Request, NEW at, NEW who, NEW key, Go(r, at, who, key),
           at \notin {"waiting", "verifying"}, UNCHANGED <<now, attempts, wrong>>
    PROVE  Guessing'
<1> DEFINE d == [at |-> at, who |-> who, key |-> key]
<1>1. Moved(r, d) /\ d.at \notin {"waiting", "verifying"}
  BY GoMoves
<1> HIDE DEF d
<1> QED BY <1>1, GuessingStays

LEMMA AttemptsGuessing ==
    ASSUME Typed, Guessing, NEW r \in Request,
           AttemptLock(r) \/ AttemptRight(r) \/ \E e \in Email : Attempt(r, e)
    PROVE  Guessing'
<1>1. CASE AttemptLock(r)
  <2>1. PICK e \in Email : e = task[r].key
    BY <1>1 DEF AttemptLock, Typed, TasksOK, Fits
  <2>2. attempts[e] # None
    BY <1>1, <2>1 DEF AttemptLock, Guessing, LocksOK, LockOK
  <2> QED BY <1>1, <2>1, <2>2, LockedGuessing DEF AttemptLock, Typed
<1>2. CASE AttemptRight(r)
  <2>1. PICK e \in Email : e = task[r].key
    BY <1>2 DEF AttemptRight, Typed, TasksOK, Fits
  <2>2. attempts[e].holder = r
    BY <1>2, <2>1 DEF AttemptRight, Guessing, LocksOK, LockOK
  <2>3. PICK next : Forgotten(e, r, next) /\ next.at \in {"done", "starting"}
    <3>1. PICK a \in WithEmail(e) :
            Forgotten(e, r, IF account[a].suspended THEN [Idle EXCEPT !.at = "done"]
                            ELSE [at |-> "starting", who |-> a, key |-> None])
      BY <1>2, <2>1 DEF AttemptRight
    <3> QED BY <3>1 DEF Idle
  <2>4. now' = now
    BY <1>2 DEF AttemptRight
  <2> QED BY <2>2, <2>3, <2>4, ForgottenGuessing DEF Typed
<1>3. ASSUME NEW e \in Email, Attempt(r, e)  PROVE Guessing'
  <2>1. UNCHANGED <<now, wrong>>
    BY <1>3 DEF Attempt
  <2>2. CASE attempts[e] = None /\ AttemptLocked(r, e, TRUE)
    BY <2>1, <2>2, LockedGuessing DEF Typed
  <2>3. CASE attempts[e] # None /\ attempts[e].holder = None /\ AttemptLocked(r, e, FALSE)
    BY <2>1, <2>3, LockedGuessing DEF Typed
  <2>4. CASE /\ attempts[e] # None /\ ~attempts[e].fresh
             /\ Go(r, "waiting", None, e) /\ UNCHANGED attempts
    <3>1. Moved(r, [at |-> "waiting", who |-> None, key |-> e])
      BY <2>4, GoMoves DEF Typed
    <3>2. LocksOK'
      <4> SUFFICES ASSUME NEW q \in Request, NEW f \in Email,
                          task'[q].at \in {"waiting", "verifying"}, task'[q].key = f
                   PROVE  LockOK(task[q], attempts[f], q)'
        BY DEF LocksOK
      <4>1. CASE q = r
        BY <2>4, <3>1, <4>1 DEF Moved, LockOK
      <4>2. CASE q # r
        BY <2>1, <2>4, <3>1, <4>2 DEF Moved, Guessing, LocksOK, LockOK
      <4> QED BY <4>1, <4>2
    <3>3. CountsOK' /\ GuessesWait'
      BY <2>1, <2>4 DEF Guessing, CountsOK, CountOK, GuessesWait, Wait
    <3> QED BY <3>2, <3>3 DEF Guessing
  <2> QED BY <1>3, <2>2, <2>3, <2>4 DEF Attempt
<1> QED BY <1>1, <1>2, <1>3

LEMMA CompleteGuessing ==
    ASSUME Typed, Guessing, NEW r \in Request, CompleteWrite(r)
    PROVE  Guessing'
<1>1. CASE Over(r) /\ UNCHANGED <<account, reset, attempts, session, impersonation, wrong>>
  BY <1>1, GoGuessing DEF Over, CompleteWrite, Typed
<1>2. ASSUME NEW l \in Request, reset[l] # None, ResetDone(r, l)  PROVE Guessing'
  <2>1. PICK a \in There(account) : a = reset[l].who
    BY <1>2 DEF Typed, TypeOK, RowsOK
  <2>2. PICK e \in Email : e = account[a].email
    BY <2>1 DEF Typed, TypeOK, AccountRow
  <2> DEFINE next == [at |-> "starting", who |-> a, key |-> None]
  <2>3. Forgotten(e, r, next) /\ (attempts[e] # None => attempts[e].holder = None)
    BY <1>2, <2>1, <2>2 DEF ResetDone
  <2>4. next.at \notin {"waiting", "verifying"} /\ now' = now
    BY DEF CompleteWrite
  <2> HIDE DEF next
  <2> QED BY <2>3, <2>4, ForgottenGuessing DEF Typed
<1>3. task[r].key \in Request
  BY DEF CompleteWrite, Typed, TasksOK, Fits
<1> QED BY <1>1, <1>2, <1>3 DEF CompleteWrite

\* Steps that have nothing to do with the attempts at a password.
LEMMA OtherGuessing ==
    ASSUME Typed, Guessing, NEW r \in Request,
           \/ InviteWrite(r) \/ ResendWrite(r) \/ CancelWrite(r) \/ Accept(r)
           \/ \E l \in Sent, g \in Subject, e \in Email : AcceptGoogle(r, l, g, e)
           \/ StartSession(r) \/ GoogleLink(r) \/ ResetDelete(r) \/ ResetInsert(r)
           \/ AddWrite(r) \/ ChangeWrite(r) \/ SignOutWrite(r) \/ SuspendWrite(r)
           \/ ImpersonateWrite(r)
           \/ \E a \in Account : Lift(r, a)
           \/ \E t \in Request : SignOut(r, t)
    PROVE  Guessing'
<1>1. UNCHANGED <<now, attempts, wrong>>
  BY DEF InviteWrite, ResendWrite, CancelWrite, Accept, AcceptGoogle, StartSession, GoogleLink,
         ResetDelete, ResetInsert, AddWrite, ChangeWrite, SignOutWrite, SuspendWrite,
         ImpersonateWrite, Lift, SignOut
<1>2. CASE Over(r)
  BY <1>1, <1>2, GoGuessing DEF Over, Typed
<1>3. ASSUME NEW at \in {"starting", "sending", "leaving"}, NEW who, NEW key, Go(r, at, who, key)
      PROVE  Guessing'
  BY <1>1, <1>3, GoGuessing DEF Typed
<1>4. CASE InviteWrite(r) \/ ResendWrite(r) \/ CancelWrite(r) \/ StartSession(r) \/ ResetInsert(r)
  BY <1>2, <1>4 DEF InviteWrite, ResendWrite, CancelWrite, StartSession, ResetInsert
<1>5. CASE AddWrite(r) \/ ChangeWrite(r) \/ SignOutWrite(r) \/ SuspendWrite(r) \/ ImpersonateWrite(r)
  BY <1>2, <1>5 DEF AddWrite, ChangeWrite, SignOutWrite, SuspendWrite, ImpersonateWrite
<1>6. CASE \E a \in Account : Lift(r, a)
  BY <1>2, <1>6 DEF Lift
<1>7. CASE Accept(r) \/ \E l \in Sent, g \in Subject, e \in Email : AcceptGoogle(r, l, g, e)
  BY <1>2, <1>3, <1>7 DEF Accept, AcceptGoogle, Accepted
<1>8. CASE GoogleLink(r)
  BY <1>2, <1>3, <1>8 DEF GoogleLink
<1>9. CASE ResetDelete(r)
  BY <1>3, <1>9 DEF ResetDelete
<1>10. CASE \E t \in Request : SignOut(r, t)
  BY <1>2, <1>3, <1>10 DEF SignOut
<1> QED BY <1>4, <1>5, <1>6, <1>7, <1>8, <1>9, <1>10

LEMMA LooksGuessing ==
    ASSUME Typed, Guessing, NEW r \in Request, Looks(r)
    PROVE  Guessing'
<1>1. UNCHANGED Rows
  BY LooksShape
<1>2. PICK d \in Task : task' = [task EXCEPT ![r] = d] /\ d.at \notin {"waiting", "verifying"}
  BY LooksShape
<1>3. Moved(r, d)
  BY <1>2 DEF Moved, Typed, TypeOK
<1> QED BY <1>1, <1>2, <1>3, GuessingStays DEF Rows, Typed

----------------------------------------------------------------------------
(* The invariant.                                                          *)

Inv == Typed /\ Guessing

LEMMA InitInv == Init => Inv
<1> SUFFICES ASSUME Init  PROVE Inv
  OBVIOUS
<1> USE NamesAreApart, TimesAreNumbers, MailsAreKnown
<1>1. TypeOK
  BY DEF Init, TypeOK, AccountRow, InvitationRow, Task, Step, Idle
<1>2. TasksOK
  BY DEF Init, TasksOK, Fits, Idle
<1>3. RowsOK
  BY DEF Init, RowsOK
<1>4. Guessing
  BY DEF Init, Guessing, LocksOK, CountsOK, CountOK, GuessesWait, Idle
<1> QED BY <1>1, <1>2, <1>3, <1>4 DEF Inv, Typed

LEMMA StepInv == Inv /\ [Next]_vars => Inv'
<1> SUFFICES ASSUME Inv, [Next]_vars  PROVE Inv'
  OBVIOUS
<1> USE DEF Inv
<1>1. CASE UNCHANGED vars
  BY <1>1 DEF vars, Typed, TypeOK, TasksOK, Fits, RowsOK, Guessing, LocksOK, LockOK,
              CountsOK, CountOK, GuessesWait
<1>2. CASE Tick
  <2>1. now' \in 0..MaxTime
    BY <1>2, TimesAreNumbers DEF Tick, Typed, TypeOK
  <2>2. Typed'
    BY <1>2, <2>1 DEF Tick, Typed, TypeOK, TasksOK, Fits, RowsOK
  <2> QED BY <1>2, <2>2, TickGuessing DEF Typed
<1>3. ASSUME NEW r \in Request, Looks(r)  PROVE Inv'
  BY <1>3, LooksTyped, LooksGuessing
<1>4. ASSUME NEW r \in Request,
             \/ InviteWrite(r) \/ ResendWrite(r) \/ CancelWrite(r)
             \/ AddWrite(r) \/ SignOutWrite(r) \/ \E a \in Account : Lift(r, a)
      PROVE  Inv'
  BY <1>4, OverWritesTyped, OtherGuessing
<1>5. ASSUME NEW r \in Request, Fail(r)  PROVE Inv'
  BY <1>5, OverWritesTyped, FailGuessing
<1>6. ASSUME NEW r \in Request,
             \/ Accept(r)
             \/ \E l \in Sent, g \in Subject, e \in Email : AcceptGoogle(r, l, g, e)
      PROVE  Inv'
  BY <1>6, AcceptsTyped, OtherGuessing
<1>7. ASSUME NEW r \in Request, StartSession(r)  PROVE Inv'
  BY <1>7, StartSessionKeeps, OtherGuessing
<1>8. ASSUME NEW r \in Request,
             AttemptLock(r) \/ \E e \in Email : Attempt(r, e)
      PROVE  Inv'
  BY <1>8, AttemptsTyped, AttemptsGuessing
<1>9. ASSUME NEW r \in Request, AttemptRight(r)  PROVE Inv'
  BY <1>9, AttemptRightKeeps, AttemptsGuessing
<1>10. ASSUME NEW r \in Request, AttemptWrong(r)  PROVE Inv'
  <2>1. PICK e \in Email : e = task[r].key /\ attempts[e] # None
    BY <1>10 DEF AttemptWrong, Typed, TasksOK, Fits, Guessing, LocksOK, LockOK
  <2>2. TypeOK' /\ Grows
    BY <1>10, <2>1, AttemptWrongTyped
  <2>3. Typed'
    BY <1>10, <2>2, OverKeeps DEF AttemptWrong
  <2> QED BY <1>10, <2>3, WrongGuessing
<1>11. ASSUME NEW r \in Request, GoogleLink(r)  PROVE Inv'
  BY <1>11, GoogleLinkKeeps, OtherGuessing
<1>12. ASSUME NEW r \in Request, ResetDelete(r) \/ ResetInsert(r)  PROVE Inv'
  BY <1>12, ResetsTyped, OtherGuessing
<1>13. ASSUME NEW r \in Request, CompleteWrite(r)  PROVE Inv'
  BY <1>13, CompleteWriteKeeps, CompleteGuessing
<1>14. ASSUME NEW r \in Request, ChangeWrite(r)  PROVE Inv'
  BY <1>14, ChangeWriteKeeps, OtherGuessing
<1>15. ASSUME NEW r \in Request, NEW t \in Request, SignOut(r, t)  PROVE Inv'
  BY <1>15, SignOutKeeps, OtherGuessing
<1>16. ASSUME NEW r \in Request, SuspendWrite(r)  PROVE Inv'
  BY <1>16, SuspendWriteKeeps, OtherGuessing
<1>17. ASSUME NEW r \in Request, ImpersonateWrite(r)  PROVE Inv'
  BY <1>17, ImpersonateWriteKeeps, OtherGuessing
<1> HIDE DEF Inv
<1>18. CASE Next
  <2> SUFFICES ASSUME NEW r \in Request,
        \/ \E e \in Email : Invite(r, e) \/ Attempt(r, e) \/ RequestReset(r, e)
        \/ \E i \in Sent : Resend(r, i) \/ Cancel(r, i)
        \/ \E l \in Sent : AcceptPassword(r, l)
        \/ \E l \in Sent, g \in Subject, e \in Email : AcceptGoogle(r, l, g, e)
        \/ \E g \in Subject, e \in Email : GoogleFind(r, g, e)
        \/ \E l \in Request : CompleteReset(r, l)
        \/ \E t \in Request : AddPassword(r, t) \/ ChangePassword(r, t) \/ SignOut(r, t)
        \/ \E a \in Account : Suspend(r, a) \/ Lift(r, a) \/ Impersonate(r, a)
        \/ InviteWrite(r) \/ ResendWrite(r) \/ CancelWrite(r)
        \/ Accept(r) \/ StartSession(r)
        \/ AttemptLock(r) \/ AttemptRight(r) \/ AttemptWrong(r) \/ GoogleLink(r)
        \/ ResetDelete(r) \/ ResetInsert(r) \/ CompleteWrite(r)
        \/ AddWrite(r) \/ ChangeWrite(r) \/ SignOutWrite(r)
        \/ SuspendWrite(r) \/ ImpersonateWrite(r) \/ Fail(r)
      PROVE Inv'
    BY <1>2, <1>18 DEF Next
  <2>1. CASE Looks(r)
    BY <1>3, <2>1
  <2>2. CASE \E t \in Request : SignOut(r, t)
    BY <1>15, <2>2
  <2>3. CASE \E e \in Email : Attempt(r, e)
    BY <1>8, <2>3
  <2>4. CASE \E a \in Account : Lift(r, a)
    BY <1>4, <2>4
  <2>5. CASE \E l \in Sent, g \in Subject, e \in Email : AcceptGoogle(r, l, g, e)
    BY <1>6, <2>5
  <2>6. CASE \/ InviteWrite(r) \/ ResendWrite(r) \/ CancelWrite(r)
             \/ Accept(r) \/ StartSession(r)
             \/ AttemptLock(r) \/ AttemptRight(r) \/ AttemptWrong(r) \/ GoogleLink(r)
             \/ ResetDelete(r) \/ ResetInsert(r) \/ CompleteWrite(r)
             \/ AddWrite(r) \/ ChangeWrite(r) \/ SignOutWrite(r)
             \/ SuspendWrite(r) \/ ImpersonateWrite(r) \/ Fail(r)
    BY <1>4, <1>5, <1>6, <1>7, <1>8, <1>9, <1>10, <1>11, <1>12, <1>13, <1>14, <1>16, <1>17, <2>6
  <2> QED BY <2>1, <2>2, <2>3, <2>4, <2>5, <2>6 DEF Looks
<1> QED BY <1>1, <1>18

(* Every row keeps its shape, every task its kind of key, and whatever a   *)
(* row or a task refers to is there.                                       *)
THEOREM TypeCorrect == Spec => []TypeOK
<1>1. Inv => TypeOK
  BY DEF Inv, Typed
<1> QED BY <1>1, InitInv, StepInv, PTL DEF Spec

(* Wrong passwords in a row for an email stay as far apart as the wait each *)
(* of them earned, however many requests try at once: whoever verifies one  *)
(* holds the email's row, whose count and wait are those of the last one    *)
(* (`verifyPassword`).                                                     *)
THEOREM WaitsAreKept == Spec => []GuessesWait
<1>1. Inv => GuessesWait
  BY DEF Inv, Guessing
<1> QED BY <1>1, InitInv, StepInv, PTL DEF Spec

-----------------------------------------------------------------------------
(* Whoever was signed out stays out, and a link works once. Both rest on   *)
(* when names are made: a token at the end of its request (TokensOK), an   *)
(* Account as its Sign-in is to start (AccountsOK), an Invitation at the   *)
(* end of the request that sends it (InvitedOK), so none is made twice.    *)
(* For the first, a change of password keeps a Sign-in of the same Account *)
(* (Keeps); for the second, an Account's Invitation says it was accepted   *)
(* (FromOK) and a reset has one user at most (UsedOK).                     *)
USE DEF There, Account, Sent

(* Whose Sign-in a change of password is to keep: one there already.       *)
Keeps(d) ==
    d.at = "changing" =>
        /\ task[d.key].at = "done"
        /\ session[d.key] # None => session[d.key].who = d.who

\* A token or an Account is made at the end of the request it is named after.
TokensOK == \A t \in There(session) : task[t].at = "done"

AccountsOK == \A a \in There(account) : a \in Request => task[a].at \in {"starting", "done"}

ChangesOK == \A r \in Request : Keeps(task[r])

Tokens == TokensOK /\ AccountsOK /\ ChangesOK

\* What a step leaves of them, whoever goes on.
LEMMA TokensStay ==
    ASSUME Typed, Typed', Tokens, NEW r \in Request, NEW d, Moved(r, d), task[r].at # "done",
           Keeps(d), d.at = "changing" => d.key # r,
           \A a \in There(account') : a \in There(account) \/ (a = r /\ d.at = "starting"),
           task[r].at = "starting" => d.at = "done",
           \A t \in There(session') :
              \/ t = r /\ d.at = "done"
              \/ t \in There(session) /\ session'[t].who = session[t].who
    PROVE  Tokens'
<1>1. \A q \in Request : task[q].at = "done" => task'[q] = task[q]
  BY DEF Moved
<1>2. TokensOK'
  <2> SUFFICES ASSUME NEW t \in There(session')  PROVE task'[t].at = "done"
    BY DEF TokensOK
  <2>1. t \in Request
    BY DEF Typed, TypeOK
  <2>2. CASE t = r /\ d.at = "done"
    BY <2>2 DEF Moved
  <2>3. CASE t \in There(session)
    BY <1>1, <2>1, <2>3 DEF Tokens, TokensOK
  <2> QED BY <2>2, <2>3
<1>3. AccountsOK'
  <2> SUFFICES ASSUME NEW a \in There(account'), a \in Request
               PROVE  task'[a].at \in {"starting", "done"}
    BY DEF AccountsOK
  <2>1. CASE a = r /\ d.at = "starting"
    BY <2>1 DEF Moved
  <2>2. CASE a \in There(account)
    <3>1. task[a].at \in {"starting", "done"}
      BY <2>2 DEF Tokens, AccountsOK
    <3> QED BY <3>1 DEF Moved
  <2> QED BY <2>1, <2>2
<1>4. ChangesOK'
  <2>1. ASSUME NEW c, c.at = "changing", c.key \in Request, Keeps(c), c.key # r  PROVE Keeps(c)'
    <3>1. task'[c.key].at = "done"
      BY <1>1, <2>1 DEF Keeps
    <3>2. CASE session'[c.key] = None
      BY <3>1, <3>2 DEF Keeps
    <3>3. CASE session'[c.key] # None
      <4>1. c.key \in There(session')
        BY <2>1, <3>3 DEF Typed, TypeOK
      <4>2. session'[c.key].who = session[c.key].who /\ session[c.key] # None
        BY <2>1, <4>1
      <4> QED BY <2>1, <3>1, <4>2 DEF Keeps
    <3> QED BY <3>2, <3>3
  <2> SUFFICES ASSUME NEW q \in Request, task'[q].at = "changing"  PROVE Keeps(task[q])'
    BY DEF ChangesOK, Keeps
  <2>2. task'[q].key \in Request
    BY DEF Typed, TasksOK, Fits
  <2>3. PICK c : c = task'[q]
    OBVIOUS
  <2>4. CASE q = r
    BY <2>1, <2>2, <2>3, <2>4 DEF Moved, Keeps
  <2>5. CASE q # r
    <3>1. task'[q] = task[q]
      BY <2>5 DEF Moved
    <3>2. Keeps(c)
      BY <2>3, <3>1 DEF Tokens, ChangesOK, Keeps
    <3>3. c.key # r
      BY <2>3, <3>2 DEF Keeps
    <3> QED BY <2>1, <2>2, <2>3, <3>2, <3>3 DEF Keeps
  <2> QED BY <2>4, <2>5
<1> QED BY <1>2, <1>3, <1>4 DEF Tokens

(* The request whose Sign-ins they are, and the last to sign it out, are   *)
(* those of the Account now.                                               *)
Signing == Tokens /\ SignedOutStaysOut

\* A step that starts no Sign-in and signs nobody out.
LEMMA SigningStays ==
    ASSUME Typed, Typed', Signing, NEW r \in Request, NEW d, Moved(r, d), task[r].at # "done",
           Keeps(d), d.at = "changing" => d.key # r, task[r].at = "starting" => d.at = "done",
           \A a \in There(account') : a \in There(account) /\ account'[a].out = account[a].out,
           \A t \in There(session') : t \in There(session) /\ session'[t] = session[t]
    PROVE  Signing'
<1>1. Tokens'
  BY TokensStay DEF Signing
<1>2. SignedOutStaysOut'
  <2> SUFFICES ASSUME NEW t \in There(session')
               PROVE  session'[t].out = account'[session'[t].who].out
    BY DEF SignedOutStaysOut
  <2>1. session'[t].who \in There(account')
    BY DEF Typed, RowsOK
  <2> QED BY <2>1 DEF Signing, SignedOutStaysOut
<1> QED BY <1>1, <1>2 DEF Signing

\* No Account is new, and where each is from stays.
SameOrigins ==
    \A a \in There(account') : a \in There(account) /\ account'[a].from = account[a].from

\* The same, for a step that goes on to something else than "changing".
LEMMA GoSigning ==
    ASSUME Typed, Typed', Signing, NEW r \in Request, NEW at, NEW who, NEW key,
           Go(r, at, who, key), task[r].at # "done",
           at # "changing", task[r].at = "starting" => at = "done",
           \A a \in There(account') : a \in There(account) /\ account'[a].out = account[a].out,
           \A t \in There(session') : t \in There(session) /\ session'[t] = session[t]
    PROVE  Signing'
<1> DEFINE d == [at |-> at, who |-> who, key |-> key]
<1>1. Moved(r, d)
  BY GoMoves DEF Typed
<1>2. Keeps(d) /\ d.at # "changing" /\ (task[r].at = "starting" => d.at = "done")
  BY DEF Keeps
<1> HIDE DEF d
<1> QED BY <1>1, <1>2, SigningStays

\* Steps that leave the Accounts and the Sign-ins alone.
LEMMA SigningLeft ==
    ASSUME Typed, Typed', Signing, NEW r \in Request, UNCHANGED <<account, session>>,
           \/ InviteWrite(r) \/ ResendWrite(r) \/ CancelWrite(r)
           \/ ResetDelete(r) \/ ResetInsert(r) \/ SignOutWrite(r) \/ AttemptWrong(r) \/ Fail(r)
           \/ AttemptLock(r) \/ \E e \in Email : Attempt(r, e)
    PROVE  Signing'
<1>1. \A at, who, key : Go(r, at, who, key) /\ task[r].at # "done" /\ at # "changing"
                         /\ (task[r].at = "starting" => at = "done") => Signing'
  BY GoSigning
<1>2. CASE Over(r) /\ task[r].at # "done"
  BY <1>1, <1>2 DEF Over
<1>3. CASE InviteWrite(r) \/ ResendWrite(r) \/ CancelWrite(r) \/ ResetInsert(r)
  BY <1>2, <1>3 DEF InviteWrite, ResendWrite, CancelWrite, ResetInsert
<1>4. CASE SignOutWrite(r) \/ AttemptWrong(r) \/ Fail(r)
  BY <1>2, <1>4 DEF SignOutWrite, AttemptWrong, Fail
<1>5. CASE ResetDelete(r)
  BY <1>1, <1>5 DEF ResetDelete
<1>6. CASE AttemptLock(r) \/ \E e \in Email : Attempt(r, e)
  <2>1. task[r].at \in {"new", "waiting"}
    BY <1>6 DEF AttemptLock, Attempt
  <2>2. Over(r) \/ \E at \in {"waiting", "verifying"}, e \in Email \cup {task[r].key} : Go(r, at, None, e)
    BY <1>6 DEF AttemptLock, Attempt, AttemptLocked
  <2> QED BY <1>1, <1>2, <2>1, <2>2
<1> QED BY <1>3, <1>4, <1>5, <1>6

LEMMA LooksSigning ==
    ASSUME Typed, Typed', Signing, NEW r \in Request, Looks(r)
    PROVE  Signing'
<1>1. UNCHANGED Rows /\ task[r].at \in {"new", "reinviting"}
  BY LooksShape
<1>2. ASSUME NEW d, Moved(r, d), Keeps(d), d.at = "changing" => d.key # r  PROVE Signing'
  BY <1>1, <1>2, SigningStays DEF Rows, Typed, TypeOK
<1>3. CASE \E t \in Request : ChangePassword(r, t)
  <2>1. PICK t \in Request, a \in There(account) :
          Holds(t, a) /\ Go(r, "changing", a, t)
    BY <1>3 DEF ChangePassword
  <2>2. t \in There(session) /\ session[t].who = a
    BY <2>1 DEF Holds, Typed, TypeOK
  <2>3. task[t].at = "done"
    BY <2>2 DEF Signing, Tokens, TokensOK
  <2> DEFINE d == [at |-> "changing", who |-> a, key |-> t]
  <2>4. Moved(r, d)
    BY <2>1, GoMoves DEF Typed
  <2>5. Keeps(d) /\ d.key # r
    BY <1>1, <2>2, <2>3 DEF Keeps
  <2> HIDE DEF d
  <2> QED BY <1>2, <2>4, <2>5
<1>4. ASSUME NEW at, NEW who, NEW key, Go(r, at, who, key), at # "changing"  PROVE Signing'
  BY <1>1, <1>4, GoSigning DEF Rows
<1>5. CASE \E e \in Email : Invite(r, e) \/ RequestReset(r, e)
  BY <1>4, <1>5 DEF Invite, RequestReset
<1>6. CASE \E i \in Sent : Resend(r, i) \/ Cancel(r, i) \/ AcceptPassword(r, i)
  BY <1>4, <1>6 DEF Resend, Cancel, AcceptPassword, Over
<1>7. CASE \E g \in Subject, e \in Email : GoogleFind(r, g, e)
  BY <1>4, <1>7 DEF GoogleFind
<1>8. CASE \E l \in Request : CompleteReset(r, l)
  BY <1>4, <1>8 DEF CompleteReset
<1>9. CASE \E t \in Request : AddPassword(r, t)
  BY <1>4, <1>9 DEF AddPassword
<1>10. CASE \E a \in Account : Suspend(r, a) \/ Impersonate(r, a)
  BY <1>4, <1>10 DEF Suspend, Impersonate
<1> QED BY <1>3, <1>5, <1>6, <1>7, <1>8, <1>9, <1>10 DEF Looks

\* What an Account says of its origin and of its end is written by few.
SameAccounts ==
    \A a \in There(account') :
        /\ a \in There(account)
        /\ account'[a].out = account[a].out /\ account'[a].from = account[a].from

LEMMA RowRewritten ==
    ASSUME TypeOK, NEW a \in Account, NEW row \in AccountRow, row = account[a],
           NEW new \in AccountRow, new.from = row.from, account' = [account EXCEPT ![a] = new]
    PROVE  /\ \A b \in There(account') : b \in There(account) /\ account'[b].from = account[b].from
           /\ \A b \in There(account') : b # a => account'[b] = account[b]
           /\ account'[a] = new
  BY NoneIsNoRow DEF TypeOK

LEMMA AccountsSame ==
    ASSUME Typed, NEW r \in Request,
           GoogleLink(r) \/ AddWrite(r) \/ \E a \in Account : Lift(r, a)
    PROVE  SameAccounts
<1>1. ASSUME NEW a \in Account, NEW row \in AccountRow, row = account[a],
             NEW new \in AccountRow, new.from = row.from, new.out = row.out,
             account' = [account EXCEPT ![a] = new]
      PROVE  SameAccounts
  BY <1>1, RowRewritten DEF SameAccounts, Typed
<1>2. CASE GoogleLink(r)
  <2>1. PICK a \in Account, g \in Subject, e \in Email :
          a = task[r].who /\ task[r].key = <<g, e>> /\ account[a] \in AccountRow
    BY <1>2 DEF GoogleLink, Typed, TypeOK, TasksOK, Fits
  <2>2. PICK row \in AccountRow : row = account[a]
    BY <2>1
  <2>3. PICK new : new = [row EXCEPT !.google = g, !.email = e]
    OBVIOUS
  <2>4. new \in AccountRow /\ new.from = row.from /\ new.out = row.out
    BY <2>3 DEF AccountRow
  <2>5. UNCHANGED account \/ account' = [account EXCEPT ![a] = new]
    <3>1. task[r].key[1] = g /\ task[r].key[2] = e
      BY <2>1
    <3>2. \/ UNCHANGED account
          \/ account' = [account EXCEPT ![a].google = g, ![a].email = e]
      BY <1>2, <2>1, <3>1, Zenon DEF GoogleLink
    <3>3. account \in [Account -> AccountRow \cup {None}]
      BY DEF Typed, TypeOK
    <3> QED BY <2>2, <2>3, <3>2, <3>3 DEF AccountRow
  <2> QED BY <1>1, <2>2, <2>4, <2>5 DEF SameAccounts
<1>3. CASE AddWrite(r)
  <2>1. PICK a \in Account, row \in AccountRow : a = task[r].who /\ row = account[a]
    BY <1>3 DEF AddWrite, Typed, TypeOK, TasksOK, Fits
  <2>2. PICK new : new = [row EXCEPT !.password = IF @ = None THEN r ELSE @]
    OBVIOUS
  <2>3. new \in AccountRow /\ new.from = row.from /\ new.out = row.out
    BY <2>2 DEF AccountRow
  <2>4. account' = [account EXCEPT ![a] = new]
    BY <1>3, <2>1, <2>2 DEF AddWrite, Typed, TypeOK, AccountRow
  <2> QED BY <1>1, <2>1, <2>3, <2>4
<1>4. ASSUME NEW a \in Account, Lift(r, a)  PROVE SameAccounts
  <2>1. PICK row \in AccountRow : row = account[a]
    BY <1>4 DEF Lift, Typed, TypeOK
  <2>2. PICK new : new = [row EXCEPT !.suspended = FALSE]
    OBVIOUS
  <2>3. new \in AccountRow /\ new.from = row.from /\ new.out = row.out
    BY <2>2 DEF AccountRow
  <2>4. account' = [account EXCEPT ![a] = new]
    BY <1>4, <2>1, <2>2 DEF Lift, Typed, TypeOK, AccountRow
  <2> QED BY <1>1, <2>1, <2>3, <2>4
<1> QED BY <1>2, <1>3, <1>4

\* A new row is written for an Account of an Invitation's.
LEMMA AcceptedShape ==
    ASSUME Typed, NEW r \in Request, NEW i \in There(invitation),
           NEW password \in Sent \cup {None}, NEW g \in Subject \cup {None},
           Accepted(r, i, password, g)
    PROVE  /\ account'[r].from = i /\ account'[r].out = None
           /\ \A a \in There(account') : a # r => a \in There(account) /\ account'[a] = account[a]
           /\ Moved(r, [at |-> "starting", who |-> r, key |-> i])
  BY GoMoves DEF Accepted, Joined, Typed, TypeOK

LEMMA AcceptsShape ==
    ASSUME Typed, NEW r \in Request,
           \/ Accept(r)
           \/ \E l \in Sent, g \in Subject, e \in Email : AcceptGoogle(r, l, g, e)
    PROVE  /\ task[r].at \in {"new", "accepting"}
           /\ UNCHANGED <<now, reset, attempts, session, impersonation, wrong>>
           /\ \/ Over(r) /\ UNCHANGED <<account, invitation>>
              \/ \E i \in There(invitation), p \in Sent \cup {None}, g \in Subject \cup {None} :
                    /\ Pending(i) /\ Accepted(r, i, p, g)
                    /\ task[r].at = "accepting" => task[r].key = invitation[i].link
  BY DEF Accept, AcceptGoogle, ByLink

LEMMA AcceptsSigning ==
    ASSUME Typed, Typed', Signing, NEW r \in Request,
           \/ Accept(r)
           \/ \E l \in Sent, g \in Subject, e \in Email : AcceptGoogle(r, l, g, e)
    PROVE  Signing'
<1>1. task[r].at \in {"new", "accepting"} /\ UNCHANGED session
  BY AcceptsShape
<1>2. CASE Over(r) /\ UNCHANGED account
  BY <1>1, <1>2, GoSigning DEF Over
<1>3. ASSUME NEW i \in There(invitation), NEW p \in Sent \cup {None}, NEW g \in Subject \cup {None},
             Accepted(r, i, p, g)
      PROVE  Signing'
  <2> DEFINE d == [at |-> "starting", who |-> r, key |-> i]
  <2>1. Moved(r, d) /\ \A a \in There(account') : a # r => a \in There(account) /\ account'[a] = account[a]
    BY <1>3, AcceptedShape
  <2>2. Keeps(d) /\ d.at = "starting"
    BY DEF Keeps
  <2> HIDE DEF d
  <2>3. Tokens'
    BY <1>1, <2>1, <2>2, TokensStay DEF Signing
  <2>4. r \notin There(account)
    BY <1>1 DEF Signing, Tokens, AccountsOK
  <2>5. SignedOutStaysOut'
    <3> SUFFICES ASSUME NEW t \in There(session')
                 PROVE  session'[t].out = account'[session'[t].who].out
      BY DEF SignedOutStaysOut
    <3>1. t \in There(session) /\ session'[t] = session[t] /\ session[t].who \in There(account)
      BY <1>1 DEF Typed, RowsOK
    <3>2. session'[t].who \in There(account') /\ session'[t].who # r
      BY <2>4, <3>1 DEF Typed, RowsOK
    <3> QED BY <2>1, <3>1, <3>2 DEF Signing, SignedOutStaysOut
  <2> QED BY <2>3, <2>5 DEF Signing
<1> QED BY <1>2, <1>3, AcceptsShape

\* A Sign-in starts with what its Account says now.
LEMMA NewSigning ==
    ASSUME Typed, Typed', Signing, NEW r \in Request, StartSession(r) \/ ImpersonateWrite(r)
    PROVE  Signing'
<1>1. PICK a \in There(account) : a = task[r].who
  BY DEF StartSession, ImpersonateWrite, Typed, TasksOK, Fits
<1>2. PICK through : session' = [session EXCEPT ![r] =
                        [who |-> a, through |-> through, out |-> account[a].out]]
  BY <1>1 DEF StartSession, ImpersonateWrite
<1>3. UNCHANGED account /\ Over(r) /\ task[r].at # "done"
  BY DEF StartSession, ImpersonateWrite
<1> DEFINE d == [at |-> "done", who |-> None, key |-> None]
<1>4. Moved(r, d)
  BY <1>3, OverMoves DEF Typed
<1>5. Keeps(d) /\ d.at = "done"
  BY DEF Keeps
<1> HIDE DEF d
<1>6. \A t \in There(session') : t = r \/ (t \in There(session) /\ session'[t] = session[t])
  BY <1>2 DEF Typed, TypeOK
<1>7. Tokens'
  BY <1>3, <1>4, <1>5, <1>6, TokensStay DEF Signing
<1>8. session'[r].out = account'[session'[r].who].out
  BY <1>2, <1>3 DEF Typed, TypeOK
<1>9. SignedOutStaysOut'
  BY <1>3, <1>6, <1>8 DEF Signing, SignedOutStaysOut
<1> QED BY <1>7, <1>9 DEF Signing

\* An Account's Sign-ins are ended, but for the one its person is in.
LEMMA EndedSigning ==
    ASSUME Typed, Typed', Signing, NEW r \in Request, NEW a \in Account, NEW d, Moved(r, d),
           task[r].at \in {"choosing", "changing", "suspending"}, d.at \in {"starting", "done"},
           d.at = "starting" => d.who = a,
           \A b \in There(account') : b \in There(account) /\ (b # a => account'[b] = account[b]),
           \A t \in There(session') :
              /\ t \in There(session) /\ session'[t].who = session[t].who
              /\ IF session[t].who = a THEN session'[t].out = account'[a].out
                                       ELSE session'[t].out = session[t].out
    PROVE  Signing'
<1>1. Keeps(d)
  BY DEF Keeps
<1>2. Tokens'
  BY <1>1, TokensStay DEF Signing
<1>3. SignedOutStaysOut'
  <2> SUFFICES ASSUME NEW t \in There(session')
               PROVE  session'[t].out = account'[session'[t].who].out
    BY DEF SignedOutStaysOut
  <2>1. session'[t].who \in There(account')
    BY DEF Typed, RowsOK
  <2>2. CASE session[t].who = a
    BY <2>2
  <2>3. CASE session[t].who # a
    BY <2>1, <2>3 DEF Signing, SignedOutStaysOut
  <2> QED BY <2>2, <2>3
<1> QED BY <1>2, <1>3 DEF Signing

LEMMA SuspendSigning ==
    ASSUME Typed, Typed', Signing, NEW r \in Request, SuspendWrite(r)
    PROVE  Signing' /\ SameOrigins
<1>1. PICK a \in There(account) : a = task[r].who
  BY DEF SuspendWrite, Typed, TasksOK, Fits
<1>2. PICK row \in AccountRow : row = account[a] /\ a \in Account
  BY <1>1 DEF Typed, TypeOK
<1>3. PICK new : new = [row EXCEPT !.suspended = TRUE, !.out = r]
  OBVIOUS
<1>4. new \in AccountRow /\ new.from = row.from /\ new.out = r
  BY <1>3 DEF AccountRow
<1>5. account' = [account EXCEPT ![a] = new]
  BY <1>1, <1>2, <1>3 DEF SuspendWrite, Typed, TypeOK, AccountRow
<1>6. session' = SignedOut(a) /\ Over(r) /\ task[r].at = "suspending"
  BY <1>1 DEF SuspendWrite, EndSignInsOf
<1>7. PICK d : Moved(r, d) /\ d.at = "done"
  BY <1>6, OverMoves DEF Typed
<1>8. \A t \in There(session') :
        t \in There(session) /\ session'[t] = session[t] /\ session[t].who # a
  BY <1>2, <1>6, SignedOutRows DEF Typed, TypeOK
<1> QED BY <1>2, <1>4, <1>5, <1>6, <1>7, <1>8, RowRewritten, EndedSigning DEF Typed, SameOrigins

LEMMA ChangeSigning ==
    ASSUME Typed, Typed', Signing, NEW r \in Request, ChangeWrite(r)
    PROVE  Signing' /\ SameOrigins
<1>1. PICK a \in There(account), own \in Request : a = task[r].who /\ own = task[r].key
  BY DEF ChangeWrite, Typed, TasksOK, Fits
<1>2. PICK row \in AccountRow : row = account[a] /\ a \in Account
  BY <1>1 DEF Typed, TypeOK
<1>3. PICK new : new = [row EXCEPT !.password = r, !.out = r]
  OBVIOUS
<1>4. new \in AccountRow /\ new.from = row.from /\ new.out = r
  BY <1>3 DEF AccountRow
<1>5. account' = [account EXCEPT ![a] = new]
  BY <1>1, <1>2, <1>3 DEF ChangeWrite, Typed, TypeOK, AccountRow
<1>6. /\ session' = [SignedOut(a) EXCEPT ![own] =
             IF session[own] # None THEN [session[own] EXCEPT !.out = r] ELSE None]
      /\ Over(r) /\ task[r].at = "changing"
  BY <1>1 DEF ChangeWrite
<1>7. PICK d : Moved(r, d) /\ d.at = "done"
  BY <1>6, OverMoves DEF Typed
<1>8. session[own] # None => session[own].who = a
  BY <1>1, <1>6 DEF Signing, Tokens, ChangesOK, Keeps
<1>9. ASSUME NEW t \in There(session')
      PROVE  /\ t \in There(session) /\ session'[t].who = session[t].who
             /\ IF session[t].who = a THEN session'[t].out = r
                                      ELSE session'[t].out = session[t].out
  <2>1. t \in Request /\ session'[t] # None
    BY DEF Typed, TypeOK
  <2>2. CASE t # own
    <3>1. session'[t] = SignedOut(a)[t]
      BY <1>6, <2>1, <2>2
    <3> QED BY <1>2, <2>1, <3>1, SignedOutRows DEF Typed
  <2>3. CASE t = own
    <3>1. session'[t] = IF session[own] # None THEN [session[own] EXCEPT !.out = r] ELSE None
      BY <1>6, <2>3 DEF SignedOut
    <3>2. session[own] # None
      BY <2>1, <3>1
    <3>3. PICK kept \in SessionRow : kept = session[own]
      BY <3>2 DEF Typed, TypeOK
    <3>4. session'[t] = [kept EXCEPT !.out = r]
      BY <3>1, <3>2, <3>3
    <3>5. [kept EXCEPT !.out = r].who = kept.who /\ [kept EXCEPT !.out = r].out = r
      BY DEF SessionRow
    <3>6. own \in There(session)
      BY <3>2 DEF Typed, TypeOK
    <3> QED BY <1>8, <2>3, <3>2, <3>3, <3>4, <3>5, <3>6
  <2> QED BY <2>2, <2>3
<1> QED BY <1>2, <1>4, <1>5, <1>6, <1>7, <1>9, RowRewritten, EndedSigning DEF Typed, SameOrigins

LEMMA CompleteSigning ==
    ASSUME Typed, Typed', Signing, NEW r \in Request, CompleteWrite(r)
    PROVE  Signing' /\ SameOrigins
<1>1. task[r].at = "choosing" /\ task[r].key \in Request
  BY DEF CompleteWrite, Typed, TasksOK, Fits
<1>2. CASE Over(r) /\ UNCHANGED <<account, reset, attempts, session, impersonation, wrong>>
  BY <1>1, <1>2, GoSigning DEF Over, SameOrigins
<1>3. ASSUME NEW l \in Request, reset[l] # None, ResetDone(r, l)  PROVE Signing' /\ SameOrigins
  <2>1. PICK a \in There(account) : a = reset[l].who
    BY <1>3 DEF Typed, TypeOK, RowsOK
  <2>2. PICK row \in AccountRow : row = account[a] /\ a \in Account
    BY <2>1 DEF Typed, TypeOK
  <2>3. PICK new : new = [row EXCEPT !.password = r, !.out = r]
    OBVIOUS
  <2>4. new \in AccountRow /\ new.from = row.from /\ new.out = r
    BY <2>3 DEF AccountRow
  <2>5. account' = [account EXCEPT ![a] = new]
    BY <1>3, <2>1, <2>2, <2>3 DEF ResetDone, Typed, TypeOK, AccountRow
  <2>6. session' = SignedOut(a)
    BY <1>3, <2>1 DEF ResetDone, EndSignInsOf
  <2>7. PICK d : Moved(r, d) /\ d.at = "starting" /\ d.who = a
    BY <1>3, <2>1, ForgottenMoves DEF ResetDone
  <2>8. \A t \in There(session') :
          t \in There(session) /\ session'[t] = session[t] /\ session[t].who # a
    BY <2>2, <2>6, SignedOutRows DEF Typed, TypeOK
  <2> QED BY <1>1, <2>2, <2>4, <2>5, <2>7, <2>8, RowRewritten, EndedSigning DEF Typed, SameOrigins
<1> QED BY <1>1, <1>2, <1>3 DEF CompleteWrite

LEMMA SignOutSigning ==
    ASSUME Typed, Typed', Signing, NEW r \in Request, NEW t \in Request, SignOut(r, t)
    PROVE  Signing'
<1>1. session' = [session EXCEPT ![t] = None] /\ UNCHANGED account /\ task[r].at = "new"
  BY DEF SignOut
<1>2. \A k \in There(session') : k \in There(session) /\ session'[k] = session[k]
  BY <1>1 DEF Typed, TypeOK
<1>3. \E at \in {"done", "leaving"} : \E key : Go(r, at, None, key)
  BY DEF SignOut, Over
<1> QED BY <1>1, <1>2, <1>3, GoSigning

LEMMA RewrittenSigning ==
    ASSUME Typed, Typed', Signing, NEW r \in Request,
           GoogleLink(r) \/ AddWrite(r) \/ \E a \in Account : Lift(r, a)
    PROVE  Signing'
<1>1. SameAccounts
  BY AccountsSame
<1>2. UNCHANGED session /\ task[r].at \in {"linking", "adding", "new"}
  BY DEF GoogleLink, AddWrite, Lift
<1>3. \E at \in {"done", "starting"} : \E who : Go(r, at, who, None)
  BY DEF GoogleLink, AddWrite, Lift, Over
<1> QED BY <1>1, <1>2, <1>3, GoSigning DEF SameAccounts

LEMMA RightSigning ==
    ASSUME Typed, Typed', Signing, NEW r \in Request, AttemptRight(r)
    PROVE  Signing'
<1>1. UNCHANGED <<account, session>> /\ task[r].at = "verifying"
  BY DEF AttemptRight
<1>2. PICK next : Moved(r, next) /\ next.at \in {"done", "starting"}
  <2>1. PICK a \in WithEmail(task[r].key) :
          Forgotten(task[r].key, r, IF account[a].suspended THEN [Idle EXCEPT !.at = "done"]
                                    ELSE [at |-> "starting", who |-> a, key |-> None])
    BY DEF AttemptRight
  <2> QED BY <2>1, ForgottenMoves DEF Idle
<1> QED BY <1>1, <1>2, SigningStays DEF Keeps

----------------------------------------------------------------------------
(* The links, of Invitations and of resets.                                *)

OneUser(used) == used = {} \/ \E q : used = {q}

FromOK ==
    \A b \in There(account) : account[b].from # None =>
        account[b].from \in There(invitation) /\ invitation[account[b].from].accepted # None

InvitedOK == \A i \in There(invitation) : i \in Request => task[i].at = "done"

UsedOK == \A l \in There(reset) : OneUser(reset[l].used)

Linking == FromOK /\ InvitedOK /\ UsedOK

InvitationsStay ==
    \A i \in There(invitation) :
        i \in There(invitation') /\ (invitation[i].accepted # None => invitation'[i].accepted # None)

LEMMA UsedByOne ==
    ASSUME UsedOK'
    PROVE  \A l \in There(reset') : Cardinality(reset'[l].used) <= 1
<1> SUFFICES ASSUME NEW l \in There(reset')  PROVE Cardinality(reset'[l].used) <= 1
  OBVIOUS
<1>1. PICK used : used = reset'[l].used /\ OneUser(used)
  BY DEF UsedOK, OneUser
<1>2. CASE used = {}
  BY <1>1, <1>2, FS_EmptySet
<1>3. CASE \E q : used = {q}
  BY <1>1, <1>3, FS_Singleton
<1> QED BY <1>1, <1>2, <1>3 DEF OneUser

LEMMA InvitedStay ==
    ASSUME Typed', Linking, NEW r \in Request, NEW d, Moved(r, d), task[r].at # "done",
           \A i \in There(invitation') : i \in There(invitation) \/ (i = r /\ d.at = "done")
    PROVE  InvitedOK'
<1> SUFFICES ASSUME NEW i \in There(invitation'), i \in Request  PROVE task'[i].at = "done"
  BY DEF InvitedOK
<1>1. CASE i = r /\ d.at = "done"
  BY <1>1 DEF Moved
<1>2. CASE i \in There(invitation)
  <2>1. task[i].at = "done"
    BY <1>2 DEF Linking, InvitedOK
  <2> QED BY <2>1 DEF Moved
<1> QED BY <1>1, <1>2

\* A step that makes no Account.
LEMMA LinkingStays ==
    ASSUME Typed', Linking, NEW r \in Request, NEW d, Moved(r, d), task[r].at # "done",
           SameOrigins, InvitationsStay, UsedOK',
           \A i \in There(invitation') : i \in There(invitation) \/ (i = r /\ d.at = "done")
    PROVE  Linking' /\ LinkStep
<1>1. FromOK'
  BY DEF FromOK, Linking, SameOrigins, InvitationsStay
<1>2. InvitedOK'
  BY InvitedStay
<1>3. LinkStep
  BY UsedByOne DEF LinkStep, SameOrigins
<1> QED BY <1>1, <1>2, <1>3 DEF Linking

\* Nor writes an Invitation or a reset.
LEMMA LinksLeft ==
    ASSUME Typed', Linking, NEW r \in Request, NEW d, Moved(r, d), task[r].at # "done",
           SameOrigins, UNCHANGED <<invitation, reset>>
    PROVE  Linking' /\ LinkStep
<1>1. InvitationsStay /\ UsedOK'
  BY DEF InvitationsStay, Linking, UsedOK
<1> QED BY <1>1, LinkingStays

LEMMA GoLinksLeft ==
    ASSUME Typed, Typed', Linking, NEW r \in Request, task[r].at # "done",
           \E at, who, key : Go(r, at, who, key),
           SameOrigins, UNCHANGED <<invitation, reset>>
    PROVE  Linking' /\ LinkStep
<1>1. PICK at, who, key : Go(r, at, who, key)
  OBVIOUS
<1>2. PICK d : Moved(r, d)
  BY <1>1, GoMoves DEF Typed
<1> QED BY <1>2, LinksLeft

\* An Invitation's row is rewritten: who accepted it stays.
LEMMA InvitationRewritten ==
    ASSUME Typed, NEW i \in There(invitation), NEW row \in InvitationRow, row = invitation[i],
           NEW new \in InvitationRow, row.accepted # None => new.accepted # None,
           invitation' = [invitation EXCEPT ![i] = new]
    PROVE  InvitationsStay /\ \A k \in There(invitation') : k \in There(invitation)
  BY NoneIsNoRow DEF Typed, TypeOK, InvitationsStay

LEMMA InvitationsLinking ==
    ASSUME Typed, Typed', Linking, NEW r \in Request,
           InviteWrite(r) \/ ResendWrite(r) \/ CancelWrite(r)
    PROVE  Linking' /\ LinkStep
<1>1. UNCHANGED <<account, reset>> /\ Over(r) /\ task[r].at \in {"inviting", "resending", "cancelling"}
  BY DEF InviteWrite, ResendWrite, CancelWrite
<1>2. PICK d : Moved(r, d) /\ d.at = "done"
  BY <1>1, OverMoves DEF Typed
<1>3. SameOrigins /\ UsedOK'
  BY <1>1 DEF SameOrigins, Linking, UsedOK
<1>4. ASSUME InvitationsStay,
             \A i \in There(invitation') : i \in There(invitation) \/ i = r
      PROVE  Linking' /\ LinkStep
  BY <1>1, <1>2, <1>3, <1>4, LinkingStays
<1>5. CASE InviteWrite(r)
  <2>1. r \notin There(invitation)
    BY <1>1 DEF Linking, InvitedOK
  <2>2. UNCHANGED invitation \/ \E new : invitation' = [invitation EXCEPT ![r] = new]
    BY <1>5 DEF InviteWrite
  <2> QED BY <1>4, <2>1, <2>2 DEF InvitationsStay, Typed, TypeOK
<1>6. CASE ResendWrite(r) \/ CancelWrite(r)
  <2>1. PICK i \in There(invitation) : i = task[r].key
    BY <1>6 DEF ResendWrite, CancelWrite, Typed, TasksOK, Fits
  <2>2. PICK row \in InvitationRow : row = invitation[i] /\ i \in Sent
    BY <2>1 DEF Typed, TypeOK
  <2>3. CASE ResendWrite(r)
    <3>1. PICK new : new = [row EXCEPT !.link = r, !.expires = now + InvitationLife]
      OBVIOUS
    <3>2. new \in InvitationRow /\ new.accepted = row.accepted
      BY <3>1, Later DEF InvitationRow, Typed
    <3>3. invitation' = [invitation EXCEPT ![i] = new]
      BY <2>1, <2>2, <2>3, <3>1 DEF ResendWrite, Typed, TypeOK, InvitationRow
    <3> QED BY <1>4, <2>2, <3>2, <3>3, InvitationRewritten
  <2>4. CASE CancelWrite(r)
    <3>1. PICK new : new = [row EXCEPT !.cancelled = TRUE]
      OBVIOUS
    <3>2. new \in InvitationRow /\ new.accepted = row.accepted
      BY <3>1 DEF InvitationRow
    <3>3. invitation' = [invitation EXCEPT ![i] = new]
      BY <2>1, <2>2, <2>4, <3>1 DEF CancelWrite, Typed, TypeOK, InvitationRow
    <3> QED BY <1>4, <2>2, <3>2, <3>3, InvitationRewritten
  <2> QED BY <1>6, <2>3, <2>4
<1> QED BY <1>5, <1>6

\* An Account is made: its Invitation was pending, so no Account is from it.
LEMMA AcceptsLinking ==
    ASSUME Typed, Typed', Tokens, Linking, NEW r \in Request,
           \/ Accept(r)
           \/ \E l \in Sent, g \in Subject, e \in Email : AcceptGoogle(r, l, g, e)
    PROVE  Linking' /\ LinkStep
<1>1. task[r].at \in {"new", "accepting"} /\ UNCHANGED reset
  BY AcceptsShape
<1>2. CASE Over(r) /\ UNCHANGED <<account, invitation>>
  <2>1. SameOrigins
    BY <1>2 DEF SameOrigins
  <2> QED BY <1>1, <1>2, <2>1, GoLinksLeft DEF Over
<1>3. ASSUME NEW i \in There(invitation), NEW p \in Sent \cup {None}, NEW g \in Subject \cup {None},
             Pending(i), Accepted(r, i, p, g),
             task[r].at = "accepting" => task[r].key = invitation[i].link
      PROVE  Linking' /\ LinkStep
  <2>1. PICK row \in InvitationRow : row = invitation[i] /\ i \in Sent
    BY DEF Typed, TypeOK
  <2>2. PICK new : new = [row EXCEPT !.accepted = r]
    OBVIOUS
  <2>3. new \in InvitationRow /\ new.accepted = r
    BY <2>2 DEF InvitationRow
  <2>4. invitation' = [invitation EXCEPT ![i] = new]
    BY <1>3, <2>1, <2>2 DEF Accepted, Typed, TypeOK, InvitationRow
  <2>5. r # None
    BY NamesAreApart
  <2>6. InvitationsStay /\ \A k \in There(invitation') : k \in There(invitation)
    BY <2>1, <2>3, <2>4, <2>5, InvitationRewritten
  <2>7. /\ account'[r].from = i
        /\ \A a \in There(account') : a # r => a \in There(account) /\ account'[a] = account[a]
        /\ Moved(r, [at |-> "starting", who |-> r, key |-> i])
    BY <1>3, AcceptedShape
  <2>8. r \notin There(account)
    BY <1>1 DEF Tokens, AccountsOK
  <2>9. invitation'[i].accepted # None /\ i \in There(invitation')
    BY <2>1, <2>3, <2>4, <2>5, <2>6 DEF Typed, TypeOK, InvitationsStay
  <2>10. invitation[i].accepted = None
    BY <1>3 DEF Pending, Open
  <2>11. FromOK'
    <3> SUFFICES ASSUME NEW b \in There(account'), account'[b].from # None
                 PROVE  /\ account'[b].from \in There(invitation')
                        /\ invitation'[account'[b].from].accepted # None
      BY DEF FromOK
    <3>1. CASE b = r
      BY <2>7, <2>9, <3>1
    <3>2. CASE b # r
      <4>1. b \in There(account) /\ account'[b] = account[b]
        BY <2>7, <3>2
      <4> QED BY <2>6, <4>1 DEF Linking, FromOK, InvitationsStay
    <3> QED BY <3>1, <3>2
  <2>12. InvitedOK'
    <3>1. PICK d : Moved(r, d)
      BY <2>7
    <3> QED BY <1>1, <2>6, <3>1, InvitedStay
  <2>13. UsedOK'
    BY <1>1 DEF Linking, UsedOK
  <2>14. \A b \in There(account) : account[b].from # i
    BY <1>3, <2>1, <2>10, NamesAreApart DEF Linking, FromOK
  <2>15. LinkStep
    <3>1. \A a \in There(account') : a \notin There(account) => a = r
      BY <2>7
    <3> QED BY <1>3, <2>7, <2>13, <2>14, <3>1, UsedByOne DEF LinkStep
  <2> QED BY <2>11, <2>12, <2>13, <2>15 DEF Linking
<1> QED BY <1>2, <1>3, AcceptsShape

\* A reset's link is marked as used only while nobody has used it.
LEMMA CompleteLinking ==
    ASSUME Typed, Typed', Linking, NEW r \in Request, CompleteWrite(r), SameOrigins
    PROVE  Linking' /\ LinkStep
<1>1. task[r].at = "choosing" /\ task[r].key \in Request /\ UNCHANGED invitation
  BY DEF CompleteWrite, Typed, TasksOK, Fits
<1>2. CASE Over(r) /\ UNCHANGED <<account, reset, attempts, session, impersonation, wrong>>
  BY <1>1, <1>2, GoLinksLeft DEF Over
<1>3. ASSUME NEW l \in Request, reset[l] # None, reset[l].used = {}, ResetDone(r, l)
      PROVE  Linking' /\ LinkStep
  <2>1. PICK d : Moved(r, d)
    BY <1>3, ForgottenMoves DEF ResetDone
  <2>2. PICK row \in ResetRow : row = reset[l]
    BY <1>3 DEF Typed, TypeOK
  <2>3. reset' = [reset EXCEPT ![l] = [row EXCEPT !.used = {r}]]
    BY <1>3, <2>2 DEF ResetDone, Typed, TypeOK, ResetRow
  <2>4. [row EXCEPT !.used = {r}].used = {r}
    BY DEF ResetRow
  <2>5. UsedOK'
    BY <2>3, <2>4 DEF Linking, UsedOK, OneUser, Typed, TypeOK
  <2>6. InvitationsStay
    BY <1>1 DEF InvitationsStay
  <2> QED BY <1>1, <2>1, <2>5, <2>6, LinkingStays
<1> QED BY <1>1, <1>2, <1>3 DEF CompleteWrite

LEMMA ResetsLinking ==
    ASSUME Typed, Typed', Linking, NEW r \in Request, ResetDelete(r) \/ ResetInsert(r)
    PROVE  Linking' /\ LinkStep
<1>1. task[r].at \in {"asking", "sending"} /\ UNCHANGED <<account, invitation>>
  BY DEF ResetDelete, ResetInsert
<1>2. \E at, who : Go(r, at, who, None)
  BY DEF ResetDelete, ResetInsert, Over
<1>3. PICK d : Moved(r, d)
  BY <1>2, GoMoves DEF Typed
<1>4. SameOrigins /\ InvitationsStay
  BY <1>1 DEF SameOrigins, InvitationsStay
<1>5. UsedOK'
  <2>1. CASE ResetDelete(r)
    <3> SUFFICES ASSUME NEW l \in There(reset')  PROVE OneUser(reset'[l].used)
      BY DEF UsedOK, OneUser
    <3>1. l \in There(reset) /\ reset'[l] = reset[l]
      BY <2>1 DEF ResetDelete, Typed, TypeOK
    <3> QED BY <3>1 DEF Linking, UsedOK, OneUser
  <2>2. CASE ResetInsert(r)
    BY <2>2 DEF ResetInsert, Linking, UsedOK, OneUser, Typed, TypeOK
  <2> QED BY <2>1, <2>2
<1> QED BY <1>1, <1>3, <1>4, <1>5, LinkingStays

\* Steps that leave the links, and where the Accounts are from, alone.
LEMMA LeftLinking ==
    ASSUME Typed, Typed', Linking, NEW r \in Request,
           \/ StartSession(r) \/ AttemptWrong(r) \/ AttemptRight(r) \/ GoogleLink(r)
           \/ AddWrite(r) \/ SignOutWrite(r) \/ ImpersonateWrite(r) \/ Fail(r)
           \/ (ChangeWrite(r) \/ SuspendWrite(r)) /\ SameOrigins
           \/ \E a \in Account : Lift(r, a)
           \/ \E t \in Request : SignOut(r, t)
           \/ AttemptLock(r) \/ \E e \in Email : Attempt(r, e)
           \/ Looks(r)
    PROVE  Linking' /\ LinkStep
<1>1. ASSUME UNCHANGED account  PROVE SameOrigins
  BY <1>1 DEF SameOrigins
<1>2. ASSUME task[r].at # "done", \E at, who, key : Go(r, at, who, key),
             SameOrigins, UNCHANGED <<invitation, reset>>
      PROVE  Linking' /\ LinkStep
  BY <1>2, GoLinksLeft
<1>3. CASE StartSession(r) \/ AttemptWrong(r) \/ SignOutWrite(r) \/ ImpersonateWrite(r) \/ Fail(r)
  BY <1>1, <1>2, <1>3 DEF StartSession, AttemptWrong, SignOutWrite, ImpersonateWrite, Fail, Over
<1>4. CASE (ChangeWrite(r) \/ SuspendWrite(r)) /\ SameOrigins
  BY <1>2, <1>4 DEF ChangeWrite, SuspendWrite, Over
<1>5. CASE GoogleLink(r) \/ AddWrite(r) \/ \E a \in Account : Lift(r, a)
  <2>1. SameOrigins
    BY <1>5, AccountsSame DEF SameAccounts, SameOrigins
  <2> QED BY <1>2, <1>5, <2>1 DEF GoogleLink, AddWrite, Lift, Over
<1>6. CASE \E t \in Request : SignOut(r, t)
  BY <1>1, <1>2, <1>6 DEF SignOut, Over
<1>7. CASE AttemptLock(r) \/ \E e \in Email : Attempt(r, e)
  BY <1>1, <1>2, <1>7 DEF AttemptLock, Attempt, AttemptLocked, Over
<1>8. CASE AttemptRight(r)
  <2>1. UNCHANGED <<account, invitation, reset>> /\ task[r].at = "verifying"
    BY <1>8 DEF AttemptRight
  <2>2. PICK d : Moved(r, d)
    BY <1>8, ForgottenMoves DEF AttemptRight
  <2> QED BY <1>1, <2>1, <2>2, LinksLeft
<1>9. CASE Looks(r)
  <2>1. UNCHANGED <<account, invitation, reset>> /\ task[r].at \in {"new", "reinviting"}
    BY <1>9, LooksShape DEF Rows
  <2>2. PICK d : Moved(r, d)
    <3>1. PICK d : task' = [task EXCEPT ![r] = d]
      BY <1>9, LooksShape
    <3> QED BY <3>1 DEF Moved, Typed, TypeOK
  <2> QED BY <1>1, <2>1, <2>2, LinksLeft
<1> QED BY <1>3, <1>4, <1>5, <1>6, <1>7, <1>8, <1>9

----------------------------------------------------------------------------
(* Together.                                                               *)

Kept == Inv /\ Signing /\ Linking

LEMMA InitKept == Init => Kept
<1> SUFFICES ASSUME Init  PROVE Kept
  OBVIOUS
<1>1. Signing
  <2>1. TokensOK /\ ChangesOK /\ SignedOutStaysOut
    BY DEF Init, TokensOK, ChangesOK, Keeps, Idle, SignedOutStaysOut
  <2>2. AccountsOK
    BY NamesAreApart DEF Init, AccountsOK
  <2> QED BY <2>1, <2>2 DEF Signing, Tokens
<1>2. Linking
  BY NamesAreApart DEF Init, Linking, FromOK, InvitedOK, UsedOK
<1> QED BY <1>1, <1>2, InitInv DEF Kept

LEMMA StepKept == Kept /\ [Next]_vars => Kept' /\ [LinkStep]_vars
<1> SUFFICES ASSUME Kept, [Next]_vars  PROVE Kept' /\ [LinkStep]_vars
  OBVIOUS
<1>1. Inv' /\ Typed /\ Typed' /\ Signing /\ Tokens /\ Linking
  BY StepInv DEF Kept, Inv, Signing
<1>2. CASE UNCHANGED vars
  BY <1>1, <1>2 DEF vars, Kept, Signing, Tokens, TokensOK, AccountsOK, ChangesOK, Keeps,
     SignedOutStaysOut, Linking, FromOK, InvitedOK, UsedOK, OneUser
<1>3. CASE Tick
  <2>1. UNCHANGED <<account, invitation, reset, session, task>>
    BY <1>3 DEF Tick
  <2>2. Signing' /\ Linking'
    BY <1>1, <2>1 DEF Signing, Tokens, TokensOK, AccountsOK, ChangesOK, Keeps,
       SignedOutStaysOut, Linking, FromOK, InvitedOK, UsedOK, OneUser
  <2>3. LinkStep
    BY <2>1, <2>2, UsedByOne DEF LinkStep, Linking
  <2> QED BY <1>1, <2>2, <2>3 DEF Kept
<1>4. ASSUME NEW r \in Request, Signing', Linking' /\ LinkStep
      PROVE  Kept' /\ [LinkStep]_vars
  BY <1>1, <1>4 DEF Kept
<1> HIDE DEF Kept
<1>5. ASSUME NEW r \in Request, Looks(r)  PROVE Kept' /\ [LinkStep]_vars
  BY <1>1, <1>4, <1>5, LooksSigning, LeftLinking
<1>6. ASSUME NEW r \in Request, InviteWrite(r) \/ ResendWrite(r) \/ CancelWrite(r)
      PROVE  Kept' /\ [LinkStep]_vars
  <2>1. UNCHANGED <<account, session>>
    BY <1>6 DEF InviteWrite, ResendWrite, CancelWrite
  <2> QED BY <1>1, <1>4, <1>6, <2>1, SigningLeft, InvitationsLinking
<1>7. ASSUME NEW r \in Request,
             \/ Accept(r)
             \/ \E l \in Sent, g \in Subject, e \in Email : AcceptGoogle(r, l, g, e)
      PROVE  Kept' /\ [LinkStep]_vars
  BY <1>1, <1>4, <1>7, AcceptsSigning, AcceptsLinking
<1>8. ASSUME NEW r \in Request, StartSession(r) \/ ImpersonateWrite(r)
      PROVE  Kept' /\ [LinkStep]_vars
  BY <1>1, <1>4, <1>8, NewSigning, LeftLinking
<1>9. ASSUME NEW r \in Request,
             \/ AttemptLock(r) \/ AttemptWrong(r) \/ SignOutWrite(r) \/ Fail(r)
             \/ \E e \in Email : Attempt(r, e)
      PROVE  Kept' /\ [LinkStep]_vars
  <2>1. UNCHANGED <<account, session>>
    BY <1>9 DEF AttemptLock, AttemptWrong, SignOutWrite, Fail, Attempt
  <2> QED BY <1>1, <1>4, <1>9, <2>1, SigningLeft, LeftLinking
<1>10. ASSUME NEW r \in Request, AttemptRight(r)  PROVE Kept' /\ [LinkStep]_vars
  BY <1>1, <1>4, <1>10, RightSigning, LeftLinking
<1>11. ASSUME NEW r \in Request, GoogleLink(r) \/ AddWrite(r) \/ \E a \in Account : Lift(r, a)
       PROVE  Kept' /\ [LinkStep]_vars
  BY <1>1, <1>4, <1>11, RewrittenSigning, LeftLinking
<1>12. ASSUME NEW r \in Request, ResetDelete(r) \/ ResetInsert(r)
       PROVE  Kept' /\ [LinkStep]_vars
  <2>1. UNCHANGED <<account, session>>
    BY <1>12 DEF ResetDelete, ResetInsert
  <2> QED BY <1>1, <1>4, <1>12, <2>1, SigningLeft, ResetsLinking
<1>13. ASSUME NEW r \in Request, CompleteWrite(r)  PROVE Kept' /\ [LinkStep]_vars
  BY <1>1, <1>4, <1>13, CompleteSigning, CompleteLinking
<1>14. ASSUME NEW r \in Request, ChangeWrite(r)  PROVE Kept' /\ [LinkStep]_vars
  BY <1>1, <1>4, <1>14, ChangeSigning, LeftLinking
<1>15. ASSUME NEW r \in Request, SuspendWrite(r)  PROVE Kept' /\ [LinkStep]_vars
  BY <1>1, <1>4, <1>15, SuspendSigning, LeftLinking
<1>16. ASSUME NEW r \in Request, NEW t \in Request, SignOut(r, t)  PROVE Kept' /\ [LinkStep]_vars
  BY <1>1, <1>4, <1>16, SignOutSigning, LeftLinking
<1>17. CASE Next
  <2> SUFFICES ASSUME NEW r \in Request,
        \/ \E e \in Email : Invite(r, e) \/ Attempt(r, e) \/ RequestReset(r, e)
        \/ \E i \in Sent : Resend(r, i) \/ Cancel(r, i)
        \/ \E l \in Sent : AcceptPassword(r, l)
        \/ \E l \in Sent, g \in Subject, e \in Email : AcceptGoogle(r, l, g, e)
        \/ \E g \in Subject, e \in Email : GoogleFind(r, g, e)
        \/ \E l \in Request : CompleteReset(r, l)
        \/ \E t \in Request : AddPassword(r, t) \/ ChangePassword(r, t) \/ SignOut(r, t)
        \/ \E a \in Account : Suspend(r, a) \/ Lift(r, a) \/ Impersonate(r, a)
        \/ InviteWrite(r) \/ ResendWrite(r) \/ CancelWrite(r)
        \/ Accept(r) \/ StartSession(r)
        \/ AttemptLock(r) \/ AttemptRight(r) \/ AttemptWrong(r) \/ GoogleLink(r)
        \/ ResetDelete(r) \/ ResetInsert(r) \/ CompleteWrite(r)
        \/ AddWrite(r) \/ ChangeWrite(r) \/ SignOutWrite(r)
        \/ SuspendWrite(r) \/ ImpersonateWrite(r) \/ Fail(r)
      PROVE Kept' /\ [LinkStep]_vars
    BY <1>3, <1>17 DEF Next
  <2>1. CASE Looks(r)
    BY <1>5, <2>1
  <2>2. CASE \E t \in Request : SignOut(r, t)
    BY <1>16, <2>2
  <2>3. CASE \E e \in Email : Attempt(r, e)
    BY <1>9, <2>3
  <2>4. CASE \E a \in Account : Lift(r, a)
    BY <1>11, <2>4
  <2>5. CASE \E l \in Sent, g \in Subject, e \in Email : AcceptGoogle(r, l, g, e)
    BY <1>7, <2>5
  <2>6. CASE \/ InviteWrite(r) \/ ResendWrite(r) \/ CancelWrite(r)
             \/ Accept(r) \/ StartSession(r)
             \/ AttemptLock(r) \/ AttemptRight(r) \/ AttemptWrong(r) \/ GoogleLink(r)
             \/ ResetDelete(r) \/ ResetInsert(r) \/ CompleteWrite(r)
             \/ AddWrite(r) \/ ChangeWrite(r) \/ SignOutWrite(r)
             \/ SuspendWrite(r) \/ ImpersonateWrite(r) \/ Fail(r)
    BY <1>6, <1>7, <1>8, <1>9, <1>10, <1>11, <1>12, <1>13, <1>14, <1>15, <2>6
  <2> QED BY <2>1, <2>2, <2>3, <2>4, <2>5, <2>6 DEF Looks
<1> QED BY <1>2, <1>17

(* A Sign-in that a Suspension, a reset or a change of password ended stays *)
(* ended: none starts before its Account's last one but those it kept, and  *)
(* a token is never made again (`endSessions`, `changePassword`).           *)
THEOREM SignedOutForGood == Spec => []SignedOutStaysOut
<1>1. Kept => SignedOutStaysOut
  BY DEF Kept, Signing
<1> QED BY <1>1, InitKept, StepKept, PTL DEF Spec

(* A link makes one Account, of the Invitation's newest link and while it  *)
(* is pending, or chooses one password: the transaction looks again at what *)
(* was read before the password was hashed (`accept`,                      *)
(* `completePasswordReset`).                                               *)
THEOREM LinksWorkOnce == Spec => LinkUsedOnce
<1>1. Kept /\ [Next]_vars => [LinkStep]_vars
  BY StepKept
<1> QED BY <1>1, InitKept, StepKept, PTL DEF Spec, LinkUsedOnce

----------------------------------------------------------------------------
(***************************************************************************)
(* The Administrator's panel.                                              *)
(***************************************************************************)

(* A list of Invitations with one in front of the rest.                    *)
LEMMA InFront ==
    ASSUME NEW rest \in Seq(Invitation), NEW x \in Invitation, x.id \in 1 .. Len(rest) + 1,
           \A j, k \in 1 .. Len(rest) :
              /\ rest[j].id \in 1 .. Len(rest) + 1 /\ rest[j].id # x.id
              /\ {rest[j].status, x.status} \subseteq Standing => rest[j].email # x.email
              /\ j # k => rest[j].id # rest[k].id
              /\ j # k /\ {rest[j].status, rest[k].status} \subseteq Standing => rest[j].email # rest[k].email
    PROVE  OneEach(<<x>> \o rest)
<1> DEFINE list == <<x>> \o rest
<1>1. <<x>> \in Seq(Invitation) /\ Len(<<x>>) = 1 /\ <<x>>[1] = x
  OBVIOUS
<1>2. /\ list \in Seq(Invitation) /\ Len(list) = Len(rest) + 1 /\ Len(rest) \in Nat
      /\ \A j \in 1 .. Len(rest) + 1 : list[j] = IF j = 1 THEN x ELSE rest[j - 1]
  BY <1>1, ConcatProperties
<1> HIDE DEF list
<1> SUFFICES ASSUME NEW j \in 1 .. Len(list), NEW k \in 1 .. Len(list)
             PROVE  /\ list[j].id \in 1 .. Len(list)
                    /\ j # k => list[j].id # list[k].id
                    /\ j # k /\ {list[j].status, list[k].status} \subseteq Standing => list[j].email # list[k].email
  BY <1>2 DEF OneEach, list
<1>3. j # 1 => j - 1 \in 1 .. Len(rest) /\ list[j] = rest[j - 1]
  BY <1>2
<1>4. k # 1 => k - 1 \in 1 .. Len(rest) /\ list[k] = rest[k - 1]
  BY <1>2
<1>5. list[1] = x
  BY <1>2
<1>6. CASE j # 1 /\ k # 1
  <2>1. j # k => j - 1 # k - 1
    OBVIOUS
  <2> QED  BY <1>2, <1>3, <1>4, <1>6, <2>1
<1>7. CASE j # 1 /\ k = 1
  BY <1>2, <1>3, <1>5, <1>7
<1>8. CASE j = 1 /\ k # 1
  BY <1>2, <1>4, <1>5, <1>8
<1>9. CASE j = 1 /\ k = 1
  BY <1>2, <1>5, <1>9
<1> QED  BY <1>6, <1>7, <1>8, <1>9

(* What find comes upon (invitations.service.ts find).                     *)
LEMMA Found ==
    ASSUME SiteOK(site), NEW id, Matches(site, id) # {}
    PROVE  /\ InvitationAt(site, id) \in 1 .. Len(site.invitations)
           /\ InvitationOf(site, id) = site.invitations[InvitationAt(site, id)]
           /\ InvitationOf(site, id) \in Invitation /\ InvitationOf(site, id).id = id
<1>1. InvitationAt(site, id) \in Matches(site, id)
  BY DEF InvitationAt
<1> QED  BY <1>1, ElementOfSeq DEF Matches, InvitationOf, SiteOK, OneEach

(* One Invitation restated, never opened again.                            *)
LEMMA RestatedOK ==
    ASSUME NEW list, OneEach(list), NEW k \in 1 .. Len(list), NEW status \in Standing \cup {"accepted", "cancelled"},
           status \in Standing => list[k].status \in Standing
    PROVE  OneEach([list EXCEPT ![k].status = status])
<1> DEFINE new == [list EXCEPT ![k].status = status]
           x == [list[k] EXCEPT !.status = status]
<1>1. list \in Seq(Invitation) /\ list[k] \in Invitation
  BY ElementOfSeq DEF OneEach
<1>2. x \in Invitation /\ x.status = status /\ x.id = list[k].id /\ x.email = list[k].email
  BY <1>1 DEF Invitation
<1>3. new = [list EXCEPT ![k] = x]
  OBVIOUS
<1>4. /\ new \in Seq(Invitation) /\ Len(new) = Len(list)
      /\ \A j \in 1 .. Len(list) : new[j] = IF j = k THEN x ELSE list[j]
  BY <1>1, <1>2, <1>3, ExceptSeq
<1> HIDE DEF new, x
<1> SUFFICES ASSUME NEW i \in 1 .. Len(list), NEW j \in 1 .. Len(list)
             PROVE  /\ new[i].id \in 1 .. Len(list)
                    /\ i # j => new[i].id # new[j].id
                    /\ i # j /\ {new[i].status, new[j].status} \subseteq Standing => new[i].email # new[j].email
  BY <1>4 DEF OneEach, new
<1>5. /\ new[i].id = list[i].id /\ new[i].email = list[i].email
      /\ new[i].status \in Standing => list[i].status \in Standing
  BY <1>2, <1>4
<1>6. /\ new[j].id = list[j].id /\ new[j].email = list[j].email
      /\ new[j].status \in Standing => list[j].status \in Standing
  BY <1>2, <1>4
<1> QED  BY <1>5, <1>6 DEF OneEach

(* An Invitation sent again goes first, the rest as it was.                *)
LEMMA SentAgainOK ==
    ASSUME SiteOK(site), NEW k \in 1 .. Len(site.invitations), site.invitations[k].status \in Standing
    PROVE  OneEach(<<[site.invitations[k] EXCEPT !.status = "pending"]>> \o Rest(k))
<1> DEFINE list == site.invitations
           n == Len(list)
           x == [list[k] EXCEPT !.status = "pending"]
           left == SubSeq(list, 1, k - 1)
           right == SubSeq(list, k + 1, n)
<1>1. /\ list \in Seq(Invitation) /\ n \in Nat /\ list[k] \in Invitation
      /\ \A j \in 1 .. n : list[j] \in Invitation
  BY ElementOfSeq, LenProperties DEF SiteOK, OneEach
<1>2. x \in Invitation /\ x.id = list[k].id /\ x.email = list[k].email
  BY <1>1 DEF Invitation, Standing
<1>3. /\ left \in Seq(Invitation) /\ Len(left) = k - 1
      /\ \A i \in 1 .. k - 1 : left[i] = list[i]
  <2>1. \A i \in 1 .. k - 1 : list[i] \in Invitation
    BY <1>1
  <2>2. k - 1 \in Int /\ k \in Int /\ 1 \in Int
    BY <1>1
  <2> HIDE DEF list, n
  <2>3. /\ left \in Seq(Invitation) /\ Len(left) = IF 1 <= k - 1 THEN (k - 1) - 1 + 1 ELSE 0
        /\ \A i \in 1 .. (k - 1) - 1 + 1 : left[i] = list[1 + i - 1]
    BY <2>1, <2>2, SubSeqProperties
  <2>4. k >= 1
    BY <1>1 DEF n
  <2>5. \A i \in 1 .. k - 1 : i \in 1 .. (k - 1) - 1 + 1 /\ 1 + i - 1 = i
    BY <2>2
  <2> QED  BY <2>2, <2>3, <2>4, <2>5
<1>4. /\ right \in Seq(Invitation) /\ Len(right) = n - k
      /\ \A i \in 1 .. n - k : right[i] = list[k + i]
  <2>1. \A i \in k + 1 .. n : list[i] \in Invitation
    BY <1>1
  <2>2. k + 1 \in Int /\ n \in Int /\ k \in Int
    BY <1>1
  <2> HIDE DEF list, n
  <2> DEFINE m == k + 1
  <2>6. m \in Int /\ right = SubSeq(list, m, n) /\ \A i \in m .. n : list[i] \in Invitation
    BY <2>1, <2>2
  <2> HIDE DEF m, right
  <2>7. /\ right \in Seq(Invitation) /\ Len(right) = IF m <= n THEN n - m + 1 ELSE 0
        /\ \A i \in 1 .. n - m + 1 : right[i] = list[m + i - 1]
    BY <2>2, <2>6, SubSeqProperties
  <2>3. /\ right \in Seq(Invitation) /\ Len(right) = IF k + 1 <= n THEN n - (k + 1) + 1 ELSE 0
        /\ \A i \in 1 .. n - (k + 1) + 1 : right[i] = list[k + 1 + i - 1]
    BY <2>7 DEF m
  <2>4. k <= n
    BY <1>1 DEF n, list
  <2>5. \A i \in 1 .. n - k : i \in 1 .. n - (k + 1) + 1 /\ k + 1 + i - 1 = k + i
    BY <2>2
  <2> QED  BY <2>2, <2>3, <2>4, <2>5
<1> DEFINE Back(j) == IF j < k THEN j ELSE j + 1
<1> HIDE DEF left, right
<1>5. /\ left \o right \in Seq(Invitation) /\ Len(left \o right) = n - 1
      /\ \A j \in 1 .. n - 1 : (left \o right)[j] = list[Back(j)]
  <2>1. /\ left \o right \in Seq(Invitation) /\ Len(left \o right) = (k - 1) + (n - k)
        /\ \A j \in 1 .. (k - 1) + (n - k) :
              (left \o right)[j] = IF j <= k - 1 THEN left[j] ELSE right[j - (k - 1)]
    <3>1. /\ left \o right \in Seq(Invitation) /\ Len(left \o right) = Len(left) + Len(right)
          /\ \A j \in 1 .. Len(left) + Len(right) :
                (left \o right)[j] = IF j <= Len(left) THEN left[j] ELSE right[j - Len(left)]
      BY <1>3, <1>4, ConcatProperties
    <3>2. Len(left) = k - 1 /\ Len(right) = n - k
      BY <1>3, <1>4
    <3> QED  BY <3>1, <3>2
  <2>2. (k - 1) + (n - k) = n - 1
    BY <1>1
  <2>3. ASSUME NEW j \in 1 .. n - 1  PROVE (left \o right)[j] = list[Back(j)]
    <3> HIDE DEF list, n
    <3>1. CASE j < k
      <4>1. j <= k - 1 /\ j \in 1 .. k - 1
        BY <1>1, <3>1
      <4> QED  BY <1>3, <2>1, <2>2, <3>1, <4>1
    <3>2. CASE ~(j < k)
      <4>1. ~(j <= k - 1) /\ j - (k - 1) \in 1 .. n - k /\ k + (j - (k - 1)) = j + 1
        BY <1>1, <3>2 DEF n
      <4> QED  BY <1>4, <2>1, <2>2, <3>2, <4>1
    <3> QED  BY <3>1, <3>2
  <2> QED  BY <2>1, <2>2, <2>3
<1> DEFINE rest == left \o right
<1>6. rest = Rest(k)
  BY DEF Rest, left, right
<1>7. \A j \in 1 .. n - 1 : Back(j) \in 1 .. n /\ Back(j) # k
  BY <1>1
<1>8. \A j, i \in 1 .. n - 1 : j # i => Back(j) # Back(i)
  BY <1>1
<1> HIDE DEF x, rest, Back
<1>9. /\ \A j \in 1 .. n : list[j].id \in 1 .. n
      /\ \A j, i \in 1 .. n : j # i =>
            /\ list[j].id # list[i].id
            /\ {list[j].status, list[i].status} \subseteq Standing => list[j].email # list[i].email
  BY DEF SiteOK, OneEach
<1>10. ASSUME NEW j \in 1 .. n - 1, NEW i \in 1 .. n - 1
       PROVE  /\ rest[j].id \in 1 .. n /\ rest[j].id # x.id
              /\ {rest[j].status, x.status} \subseteq Standing => rest[j].email # x.email
              /\ j # i => rest[j].id # rest[i].id
              /\ j # i /\ {rest[j].status, rest[i].status} \subseteq Standing => rest[j].email # rest[i].email
  <2>1. rest[j] = list[Back(j)] /\ rest[i] = list[Back(i)]
    BY <1>5 DEF rest
  <2>2. Back(j) \in 1 .. n /\ Back(j) # k /\ Back(i) \in 1 .. n /\ (j # i => Back(j) # Back(i))
    BY <1>7, <1>8
  <2>3. list[Back(j)].id \in 1 .. n /\ list[Back(j)].id # x.id
    BY <1>2, <1>9, <2>2
  <2>4. {list[Back(j)].status, x.status} \subseteq Standing => list[Back(j)].email # x.email
    BY <1>2, <1>9, <2>2
  <2>5. j # i =>
          /\ list[Back(j)].id # list[Back(i)].id
          /\ {list[Back(j)].status, list[Back(i)].status} \subseteq Standing => list[Back(j)].email # list[Back(i)].email
    BY <1>9, <2>2
  <2> HIDE DEF list, n
  <2> QED  BY <2>1, <2>3, <2>4, <2>5
<1>11. Len(rest) = n - 1 /\ Len(rest) + 1 = n /\ rest \in Seq(Invitation)
  BY <1>1, <1>5 DEF rest
<1>12. x.id \in 1 .. n
  BY <1>2, <1>9
<1> HIDE DEF list, n
<1>13. OneEach(<<x>> \o rest)
  BY <1>2, <1>10, <1>11, <1>12, InFront
<1> QED  BY <1>6, <1>13 DEF x, list

(* A first Invitation of an email that has none open.                      *)
LEMMA SentFirstOK ==
    ASSUME SiteOK(site), NEW mail \in Mails, OpenFor(mail) = {}
    PROVE  OneEach(<<[[id |-> Len(site.invitations) + 1, email |-> mail, status |-> "pending"] EXCEPT !.status = "pending"]>>
                   \o site.invitations)
<1> DEFINE list == site.invitations
           x == [[id |-> Len(list) + 1, email |-> mail, status |-> "pending"] EXCEPT !.status = "pending"]
<1>1. list \in Seq(Invitation) /\ Len(list) \in Nat
  BY LenProperties DEF SiteOK, OneEach
<1>2. x \in Invitation /\ x.id = Len(list) + 1 /\ x.email = mail
  BY <1>1 DEF Invitation, Standing
<1>3. \A j \in 1 .. Len(list) : list[j].status \in Standing => list[j].email # mail
  BY DEF OpenFor
<1>4. \A j, k \in 1 .. Len(list) :
        /\ list[j].id \in 1 .. Len(list)
        /\ j # k => list[j].id # list[k].id
        /\ j # k /\ {list[j].status, list[k].status} \subseteq Standing => list[j].email # list[k].email
  BY DEF SiteOK, OneEach
<1> HIDE DEF x
<1>5. \A j, k \in 1 .. Len(list) :
        /\ list[j].id \in 1 .. Len(list) + 1 /\ list[j].id # x.id
        /\ {list[j].status, x.status} \subseteq Standing => list[j].email # x.email
        /\ j # k => list[j].id # list[k].id
        /\ j # k /\ {list[j].status, list[k].status} \subseteq Standing => list[j].email # list[k].email
  <2> SUFFICES ASSUME NEW j \in 1 .. Len(list), NEW k \in 1 .. Len(list)
               PROVE  /\ list[j].id \in 1 .. Len(list) + 1 /\ list[j].id # x.id
                      /\ {list[j].status, x.status} \subseteq Standing => list[j].email # x.email
                      /\ j # k => list[j].id # list[k].id
                      /\ j # k /\ {list[j].status, list[k].status} \subseteq Standing => list[j].email # list[k].email
    OBVIOUS
  <2>1. list[j].id \in 1 .. Len(list)
    BY <1>4
  <2>2. list[j].id \in 1 .. Len(list) + 1 /\ list[j].id # x.id
    BY <1>1, <1>2, <2>1
  <2>3. {list[j].status, x.status} \subseteq Standing => list[j].email # x.email
    BY <1>2, <1>3
  <2> QED  BY <1>4, <2>2, <2>3
<1> HIDE DEF list
<1>6. x.id \in 1 .. Len(list) + 1
  BY <1>1, <1>2
<1>7. OneEach(<<x>> \o list)
  BY <1>1, <1>2, <1>5, <1>6, InFront
<1> QED  BY <1>7 DEF x, list

----------------------------------------------------------------------------
(* The shape of the requests and of an open tab.                           *)

ReadShape(c) ==
    /\ DOMAIN c = {"id", "visit", "tab", "query", "again", "got"}
    /\ c.again \in BOOLEAN /\ DOMAIN c.got = PartsOf(c.tab)
ActShape(c) ==
    /\ DOMAIN c = {"id", "visit", "tab", "what", "on", "query", "at", "why", "of"}
    /\ c.what = "invite" => c.on \in Mails
CallOK(c) ==
    /\ c.id \in 1 .. asking.asked /\ c.visit \in 0 .. panel.visit
    /\ Here(c) => c.tab = panel.tab
    /\ ReadShape(c) \/ ActShape(c)
TabOK(p) ==
    /\ p.tab \in Tabs
    /\ DOMAIN p = {"tab", "visit", "query", "shown", "totals", "failure", "confirming", "busy", "notice",
                   "newest", "astray"}
    /\ p.newest \in Nat /\ p.failure \in BOOLEAN /\ p.astray \in BOOLEAN
    /\ p.confirming # None => p.confirming.what # "invite"
AskingOK == DOMAIN asking = {"calls", "asked"} /\ asking.asked \in Nat
BeyondOK == DOMAIN beyond = {"changed", "touches", "mishaps"} /\ beyond.changed \in BOOLEAN
PanelOK ==
    /\ {"tab", "visit"} \subseteq DOMAIN panel /\ panel.visit \in Nat
    /\ panel.tab # None => TabOK(panel) /\ panel.newest <= asking.asked
CallsOK ==
    /\ \A c \in asking.calls : CallOK(c)
    /\ \A c, d \in asking.calls : c.id = d.id => c = d
    /\ \A c \in asking.calls : Here(c) /\ "got" \in DOMAIN c => c.id # panel.newest
PanelTyped == SiteOK(site) /\ AskingOK /\ BeyondOK /\ PanelOK /\ CallsOK

(* An act served: d is what c is from then on.                             *)
Acted(c, d) ==
    /\ ActShape(d) /\ d.id = c.id /\ d.visit = c.visit /\ d.tab = c.tab /\ d.what = c.what
    /\ asking' = [asking EXCEPT !.calls = (@ \ {c}) \cup {d}]
    /\ \/ UNCHANGED <<site, beyond>>
       \/ /\ d.at = "done" /\ Unseen(c)
          /\ d.what = "lift" => site'.invitations = site.invitations

LEMMA Refused ==
    ASSUME NEW c, ActShape(c), NEW why, NEW of, Refuses(c, why, of), SiteOK(site)
    PROVE  SiteOK(site') /\ \E d : Acted(c, d)
<1> DEFINE d == [c EXCEPT !.at = "refused", !.why = why, !.of = of]
<1>1. ActShape(d) /\ d.id = c.id /\ d.visit = c.visit /\ d.tab = c.tab /\ d.what = c.what
  BY DEF ActShape
<1>2. asking' = [asking EXCEPT !.calls = (@ \ {c}) \cup {d}] /\ UNCHANGED <<site, beyond>>
  BY DEF Refuses, Replies
<1> HIDE DEF d
<1>3. Acted(c, d)
  BY <1>1, <1>2 DEF Acted
<1> QED  BY <1>2, <1>3

LEMMA Done ==
    ASSUME NEW c, ActShape(c), NEW next, NEW of, Does(c, next, of), SiteOK(next),
           c.what = "lift" => next.invitations = site.invitations
    PROVE  SiteOK(site') /\ \E d : Acted(c, d)
<1> DEFINE d == [c EXCEPT !.at = "done", !.why = None, !.of = of]
<1>1. /\ ActShape(d) /\ d.id = c.id /\ d.visit = c.visit /\ d.tab = c.tab /\ d.what = c.what
      /\ d.at = "done"
  BY DEF ActShape
<1>2. asking' = [asking EXCEPT !.calls = (@ \ {c}) \cup {d}] /\ site' = next /\ Unseen(c)
  BY DEF Does, Replies
<1> HIDE DEF d
<1>3. Acted(c, d)
  BY <1>1, <1>2 DEF Acted
<1> QED  BY <1>2, <1>3

LEMMA ReopenedShape ==
    ASSUME NEW c, ActShape(c), NEW id, Reopened(c, id), SiteOK(site), c.what # "lift"
    PROVE  SiteOK(site') /\ \E d : Acted(c, d)
<1>1. CASE Matches(site, id) = {}
  BY <1>1, Refused DEF Reopened
<1>2. CASE Matches(site, id) # {} /\ InvitationOf(site, id).status \notin Standing
  BY <1>2, Refused DEF Reopened
<1>3. CASE Matches(site, id) # {} /\ InvitationOf(site, id).status \in Standing
  <2> DEFINE k == InvitationAt(site, id)
             next == SentNow(InvitationOf(site, id), Rest(k))
  <2>1. k \in 1 .. Len(site.invitations) /\ InvitationOf(site, id) = site.invitations[k]
    BY <1>3, Found
  <2>2. Does(c, next, id)
    BY <1>3 DEF Reopened
  <2>3. OneEach(<<[site.invitations[k] EXCEPT !.status = "pending"]>> \o Rest(k))
    BY <1>3, <2>1, SentAgainOK
  <2>4. SiteOK(next)
    BY <2>1, <2>3 DEF SiteOK, SentNow
  <2> HIDE DEF next
  <2> QED  BY <2>2, <2>4, Done
<1> QED  BY <1>1, <1>2, <1>3

LEMMA InvitedShape ==
    ASSUME NEW c, ActShape(c), Invited(c), SiteOK(site)
    PROVE  SiteOK(site') /\ \E d : Acted(c, d)
<1>1. c.what = "invite" /\ c.what # "lift" /\ c.on \in Mails
  BY DEF Invited, ActShape
<1>2. CASE Mail[c.on] \in site.accounts
  BY <1>2, Refused DEF Invited
<1>3. CASE Mail[c.on] \notin site.accounts /\ OpenFor(c.on) = {}
  <2> DEFINE id == Len(site.invitations) + 1
             next == SentNow([id |-> id, email |-> c.on, status |-> "pending"], site.invitations)
  <2>1. Does(c, next, id)
    BY <1>3 DEF Invited
  <2>2. SiteOK(next)
    BY <1>1, <1>3, SentFirstOK DEF SiteOK, SentNow
  <2> HIDE DEF next
  <2> QED  BY <1>1, <2>1, <2>2, Done
<1>4. CASE Mail[c.on] \notin site.accounts /\ OpenFor(c.on) # {}
  <2>1. PICK id \in OpenFor(c.on) :
          IF InvitationOf(site, id).status = "pending" THEN Refuses(c, "pending", id) ELSE Reopened(c, id)
    BY <1>4 DEF Invited
  <2> QED  BY <1>1, <2>1, Refused, ReopenedShape
<1> QED  BY <1>2, <1>3, <1>4

LEMMA CancelledShape ==
    ASSUME NEW c, ActShape(c), Cancelled(c), SiteOK(site)
    PROVE  SiteOK(site') /\ \E d : Acted(c, d)
<1>1. CASE Matches(site, c.on) = {}
  BY <1>1, Refused DEF Cancelled
<1>2. CASE Matches(site, c.on) # {} /\ InvitationOf(site, c.on).status # "pending"
  BY <1>2, Refused DEF Cancelled
<1>3. CASE Matches(site, c.on) # {} /\ InvitationOf(site, c.on).status = "pending"
  <2> DEFINE next == Restated(c.on, "cancelled")
  <2>1. Does(c, next, c.on) /\ c.what # "lift"
    BY <1>3 DEF Cancelled
  <2>2. InvitationAt(site, c.on) \in 1 .. Len(site.invitations)
    BY <1>3, Found
  <2>3. OneEach([site.invitations EXCEPT ![InvitationAt(site, c.on)].status = "cancelled"])
    BY <2>2, RestatedOK DEF Standing, SiteOK
  <2>4. SiteOK(next)
    BY <2>3 DEF SiteOK, Restated
  <2> HIDE DEF next
  <2> QED  BY <2>1, <2>4, Done
<1> QED  BY <1>1, <1>2, <1>3

LEMMA ServeShape ==
    ASSUME NEW c, ActShape(c), ServeAct(c), SiteOK(site)
    PROVE  UNCHANGED panel /\ SiteOK(site') /\ \E d : Acted(c, d)
<1>1. UNCHANGED panel
  BY DEF ServeAct
<1>2. CASE Suspended(c)
  <2>1. CASE c.on \in Administrators
    BY <1>1, <1>2, <2>1, Refused DEF Suspended
  <2>2. CASE c.on \notin Administrators
    <3> DEFINE next == [site EXCEPT !.suspended = @ \cup {c.on}]
    <3>1. Does(c, next, c.on) /\ c.what # "lift"
      BY <1>2, <2>2 DEF Suspended
    <3>2. SiteOK(next)
      BY <2>2 DEF SiteOK
    <3> HIDE DEF next
    <3> QED  BY <1>1, <3>1, <3>2, Done
  <2> QED  BY <1>1, <2>1, <2>2
<1>3. CASE Lifted(c)
  <2> DEFINE next == [site EXCEPT !.suspended = @ \ {c.on}]
  <2>1. Does(c, next, c.on)
    BY <1>3 DEF Lifted
  <2>2. SiteOK(next) /\ next.invitations = site.invitations
    BY DEF SiteOK
  <2> HIDE DEF next
  <2> QED  BY <1>1, <2>1, <2>2, Done
<1>4. CASE Impersonated(c)
  BY <1>1, <1>4, Done, Refused DEF Impersonated
<1>5. CASE ClosedRoom(c)
  <2> DEFINE next == [site EXCEPT !.open = @ \ {c.on}, !.live = @ \ {c.on}]
  <2>1. Does(c, next, c.on) \/ Refuses(c, "not-found", None)
    BY <1>5 DEF ClosedRoom
  <2>2. SiteOK(next) /\ next.invitations = site.invitations
    BY DEF SiteOK
  <2> HIDE DEF next
  <2> QED  BY <1>1, <2>1, <2>2, Done, Refused
<1>6. CASE EndedLive(c)
  <2> DEFINE next == [site EXCEPT !.live = @ \ {c.on}]
  <2>1. Does(c, next, c.on) \/ Refuses(c, "not-live", None)
    BY <1>6 DEF EndedLive
  <2>2. SiteOK(next) /\ next.invitations = site.invitations
    BY DEF SiteOK
  <2> HIDE DEF next
  <2> QED  BY <1>1, <2>1, <2>2, Done, Refused
<1>7. CASE Invited(c)
  BY <1>1, <1>7, InvitedShape
<1>8. CASE Resent(c)
  BY <1>1, <1>8, ReopenedShape DEF Resent
<1>9. CASE Cancelled(c)
  BY <1>1, <1>9, CancelledShape
<1> QED  BY <1>2, <1>3, <1>4, <1>5, <1>6, <1>7, <1>8, <1>9 DEF ServeAct

----------------------------------------------------------------------------
(* What a tab is told. Something is Due to be read again once an act done  *)
(* has answered; what id read, or will read, goes out of date by that or   *)
(* by a later reading.                                                     *)

Due(c) == Here(c) /\ "what" \in DOMAIN c /\ ReadAgain(c)
Reading(c) == Here(c) /\ "got" \in DOMAIN c
Coming(id) == \E c \in asking.calls : Due(c) \/ (Reading(c) /\ c.id > id)

RightSoFar(c) ==
    /\ c.query = panel.query
    /\ \A p \in PartsOf(c.tab) : c.got[p] = None \/ c.got[p] = PartOf(site, c.tab, c.query, p)
ShownRight ==
    /\ panel.shown.query = panel.query
    /\ panel.shown.rows = RowsOf(site, panel.tab, panel.query)
    /\ panel.tab = "accounts" => panel.totals = Totals(site)

ReadsOK ==
    ~beyond.changed => \A c \in asking.calls :
        Reading(c) /\ c.id > panel.newest => c.again \/ RightSoFar(c) \/ Coming(c.id)
ScreenOK ==
    panel.tab # None /\ ~panel.failure /\ ~panel.astray /\ ~beyond.changed => ShownRight \/ Coming(panel.newest)

PanelInv == PanelTyped /\ ReadsOK /\ ScreenOK

(* A request under way keeps its shape while the tab stays, or a new one   *)
(* is opened.                                                              *)
LEMMA OldCall ==
    ASSUME PanelTyped, NEW c \in asking.calls, asking'.asked \in Nat, asking'.asked >= asking.asked,
           panel'.visit \in Nat,
           panel'.visit > panel.visit \/ (panel'.visit = panel.visit /\ panel'.tab = panel.tab)
    PROVE  CallOK(c)'
<1>1. CallOK(c) /\ asking.asked \in Nat /\ panel.visit \in Nat
  BY DEF PanelTyped, CallsOK, AskingOK, PanelOK
<1>2. c.id \in 1 .. asking'.asked /\ c.visit \in 0 .. panel'.visit
  BY <1>1 DEF CallOK
<1>3. panel'.tab # None /\ c.visit = panel'.visit => c.tab = panel'.tab
  BY <1>1 DEF CallOK, Here
<1> QED  BY <1>1, <1>2, <1>3 DEF CallOK, Here

LEMMA NothingTold ==
    ASSUME beyond'.changed \/ panel'.tab = None
    PROVE  ReadsOK' /\ ScreenOK'
BY DEF ReadsOK, ScreenOK, Reading, Here

(* A reading begun: whatever was told before will be told again.           *)
LEMMA NewReading ==
    ASSUME PanelTyped, NEW left, left.calls \subseteq asking.calls, left.asked = asking.asked,
           NEW query, Reads(left, panel', query), UNCHANGED site, BeyondOK',
           TabOK(panel'), panel'.tab # None, panel'.newest <= asking.asked, panel'.visit \in Nat,
           \/ panel'.visit > panel.visit
           \/ panel'.visit = panel.visit /\ panel'.tab = panel.tab /\ panel'.newest = panel.newest
    PROVE  PanelInv'
<1>1. PICK n : /\ asking' = [calls |-> left.calls \cup {n}, asked |-> left.asked + 1]
               /\ n = [id |-> left.asked + 1, visit |-> panel'.visit, tab |-> panel'.tab, query |-> query,
                       again |-> query # panel'.query, got |-> [p \in PartsOf(panel'.tab) |-> None]]
  BY DEF Reads
<1>2. /\ ReadShape(n) /\ n.id = asking.asked + 1 /\ n.visit = panel'.visit /\ n.tab = panel'.tab
      /\ n.again = (n.query # panel'.query) /\ \A p \in PartsOf(n.tab) : n.got[p] = None
      /\ "got" \in DOMAIN n
  BY <1>1 DEF ReadShape
<1>3. asking.asked \in Nat /\ panel.visit \in Nat
  BY DEF PanelTyped, AskingOK, PanelOK
<1>4. asking'.calls = left.calls \cup {n} /\ asking'.asked = asking.asked + 1 /\ AskingOK'
  BY <1>1, <1>3 DEF AskingOK
<1>5. \A c \in left.calls : CallOK(c)'
  BY <1>3, <1>4, OldCall
<1>6. CallOK(n)'
  <2>1. n.id \in 1 .. asking'.asked /\ n.visit \in 0 .. panel'.visit
    BY <1>2, <1>3, <1>4
  <2> QED  BY <1>2, <2>1 DEF CallOK, Here
<1>7. \A c \in left.calls : c.id \in 1 .. asking.asked
  BY DEF PanelTyped, CallsOK, CallOK
<1>8. CallsOK'
  <2>1. \A c, d \in asking'.calls : c.id = d.id => c = d
    <3>1. \A c, d \in left.calls : c.id = d.id => c = d
      BY DEF PanelTyped, CallsOK
    <3>2. \A c \in left.calls : c.id # n.id
      BY <1>2, <1>3, <1>7
    <3> QED  BY <1>4, <3>1, <3>2
  <2>2. ASSUME NEW c \in asking'.calls, Here(c)', "got" \in DOMAIN c  PROVE c.id # panel'.newest
    <3>1. CASE c = n
      BY <1>2, <1>3, <3>1 DEF TabOK
    <3>2. CASE c \in left.calls /\ panel'.visit > panel.visit
      <4>1. c.visit \in 0 .. panel.visit
        BY <3>2 DEF PanelTyped, CallsOK, CallOK
      <4> QED  BY <1>3, <2>2, <3>2, <4>1 DEF Here
    <3>3. CASE c \in left.calls /\ panel'.visit = panel.visit /\ panel'.tab = panel.tab /\ panel'.newest = panel.newest
      BY <2>2, <3>3 DEF PanelTyped, CallsOK, Here
    <3> QED  BY <1>4, <3>1, <3>2, <3>3
  <2> QED  BY <1>4, <1>5, <1>6, <2>1, <2>2 DEF CallsOK
<1>9. PanelOK'
  <2>1. panel'.newest <= asking'.asked
    BY <1>3, <1>4 DEF TabOK
  <2> QED  BY <2>1 DEF PanelOK, TabOK
<1>10. PanelTyped'
  BY <1>4, <1>8, <1>9 DEF PanelTyped
<1>11. Reading(n)' /\ n \in asking'.calls
  BY <1>2, <1>4 DEF Reading, Here
<1>12. \A id \in Nat : id <= asking.asked => Coming(id)'
  <2> SUFFICES ASSUME NEW id \in Nat, id <= asking.asked  PROVE Coming(id)'
    OBVIOUS
  <2>1. n.id > id
    BY <1>2, <1>3
  <2> QED  BY <1>11, <2>1 DEF Coming
<1>13. ReadsOK'
  <2> SUFFICES ASSUME NEW c \in asking'.calls
               PROVE  c.again \/ RightSoFar(c)' \/ Coming(c.id)'
    BY DEF ReadsOK
  <2>1. CASE c = n
    <3>1. n.again \/ n.query = panel'.query
      BY <1>2
    <3> QED  BY <1>2, <2>1, <3>1 DEF RightSoFar
  <2>2. CASE c \in left.calls
    <3>1. c.id \in Nat /\ c.id <= asking.asked
      BY <1>3, <1>7, <2>2
    <3> QED  BY <1>12, <3>1
  <2> QED  BY <1>4, <2>1, <2>2
<1>14. ScreenOK'
  BY <1>12 DEF ScreenOK, TabOK
<1> QED  BY <1>10, <1>13, <1>14 DEF PanelInv

(* What the Administrator does that asks for no reading: a question put to *)
(* them, and the acts themselves.                                          *)
SameTab == panel'.tab = panel.tab /\ panel'.visit = panel.visit
SameScreen ==
    /\ SameTab
    /\ panel'.query = panel.query /\ panel'.shown = panel.shown /\ panel'.totals = panel.totals
    /\ panel'.failure = panel.failure /\ panel'.astray = panel.astray /\ panel'.newest = panel.newest

Added(D) ==
    /\ asking'.calls = asking.calls \cup D /\ AskingOK' /\ asking'.asked >= asking.asked
    /\ \A d \in D : /\ ActShape(d) /\ d.id = asking.asked + 1 /\ d.id = asking'.asked
                   /\ d.visit = panel.visit /\ d.tab = panel.tab
    /\ \A d, e \in D : d = e

LEMMA Quiet ==
    ASSUME PanelInv, panel.tab # None, TabOK(panel'), SameScreen, UNCHANGED site,
           BeyondOK', beyond'.changed = beyond.changed,
           asking' = asking \/ \E what, on : Performs(what, on) /\ (what = "invite" => on \in Mails)
    PROVE  PanelInv'
<1>1. /\ asking.asked \in Nat /\ DOMAIN asking = {"calls", "asked"} /\ panel.visit \in Nat
      /\ panel.newest <= asking.asked /\ panel.newest \in Nat
  BY DEF PanelInv, PanelTyped, AskingOK, PanelOK, TabOK
<1>0. PICK D : Added(D)
  <2>1. CASE asking' = asking
    <3>1. Added({})
      BY <1>1, <2>1 DEF AskingOK, Added
    <3> QED  BY <3>1
  <2>2. CASE \E what, on : Performs(what, on) /\ (what = "invite" => on \in Mails)
    <3>1. PICK what, on : Performs(what, on) /\ (what = "invite" => on \in Mails)
      BY <2>2
    <3> DEFINE d == [id |-> asking.asked + 1, visit |-> panel.visit, tab |-> panel.tab, what |-> what, on |-> on,
                     query |-> panel.query, at |-> "sent", why |-> None, of |-> None]
    <3>2. asking' = [calls |-> asking.calls \cup {d}, asked |-> asking.asked + 1]
      BY <3>1 DEF Performs
    <3>3. ActShape(d) /\ d.id = asking.asked + 1 /\ d.visit = panel.visit /\ d.tab = panel.tab
      BY <3>1 DEF ActShape
    <3> HIDE DEF d
    <3>4. AskingOK' /\ asking'.asked = asking.asked + 1 /\ asking'.calls = asking.calls \cup {d}
      BY <1>1, <3>2 DEF AskingOK
    <3>5. Added({d})
      BY <1>1, <3>3, <3>4 DEF Added
    <3> QED  BY <3>5
  <2> QED  BY <2>1, <2>2
<1>2. /\ asking'.calls = asking.calls \cup D /\ AskingOK' /\ asking'.asked >= asking.asked
      /\ \A d \in D : /\ ActShape(d) /\ d.id = asking.asked + 1 /\ d.id = asking'.asked
                     /\ d.visit = panel.visit /\ d.tab = panel.tab
      /\ \A d, e \in D : d = e
  BY <1>0 DEF Added
<1>3. asking'.asked \in Nat /\ panel'.visit \in Nat
  BY <1>1, <1>2 DEF AskingOK, SameScreen, SameTab
<1>4. \A c \in asking.calls : CallOK(c)'
  <2> SUFFICES ASSUME NEW c \in asking.calls  PROVE CallOK(c)'
    OBVIOUS
  <2> QED  BY <1>2, <1>3, OldCall DEF PanelInv, SameScreen, SameTab
<1>5. \A d \in D : CallOK(d)' /\ "got" \notin DOMAIN d
  <2> SUFFICES ASSUME NEW d \in D  PROVE CallOK(d)' /\ "got" \notin DOMAIN d
    OBVIOUS
  <2>1. d.id \in 1 .. asking'.asked /\ d.visit \in 0 .. panel'.visit
    BY <1>1, <1>2 DEF SameScreen, SameTab
  <2> QED  BY <1>2, <2>1 DEF CallOK, Here, ActShape, SameScreen, SameTab
<1>6. CallsOK'
  <2>1. \A c \in asking.calls, d \in D : c.id # d.id
    BY <1>1, <1>2 DEF PanelInv, PanelTyped, CallsOK, CallOK
  <2>2. \A c, d \in asking'.calls : c.id = d.id => c = d
    BY <1>2, <2>1 DEF PanelInv, PanelTyped, CallsOK
  <2>3. \A c \in asking'.calls : Here(c)' /\ "got" \in DOMAIN c => c.id # panel'.newest
    BY <1>2, <1>5 DEF PanelInv, PanelTyped, CallsOK, Here, SameScreen, SameTab
  <2> QED  BY <1>2, <1>4, <1>5, <2>2, <2>3 DEF CallsOK
<1>7. PanelOK'
  <2>1. panel'.newest <= asking'.asked
    BY <1>1, <1>2, <1>3 DEF SameScreen
  <2> QED  BY <2>1, <1>3 DEF PanelOK, TabOK
<1>8. PanelTyped'
  BY <1>2, <1>6, <1>7 DEF PanelInv, PanelTyped
<1>9. ASSUME NEW id, Coming(id)  PROVE Coming(id)'
  BY <1>2, <1>9 DEF Coming, Due, Reading, Here, SameScreen, SameTab
<1>10. ReadsOK'
  <2> SUFFICES ASSUME ~beyond'.changed, NEW c \in asking'.calls, Reading(c)', c.id > panel'.newest
               PROVE  c.again \/ RightSoFar(c)' \/ Coming(c.id)'
    BY DEF ReadsOK
  <2>1. c \in asking.calls /\ Reading(c) /\ c.id > panel.newest
    BY <1>2, <1>5 DEF Reading, Here, SameScreen, SameTab
  <2>2. c.again \/ RightSoFar(c) \/ Coming(c.id)
    BY <2>1 DEF PanelInv, ReadsOK
  <2>3. RightSoFar(c) => RightSoFar(c)'
    BY DEF RightSoFar, SameScreen
  <2> QED  BY <1>9, <2>2, <2>3
<1>11. ScreenOK'
  <2> SUFFICES ASSUME panel'.tab # None, ~panel'.failure, ~panel'.astray, ~beyond'.changed
               PROVE  ShownRight' \/ Coming(panel.newest)'
    BY DEF ScreenOK
  <2>1. ShownRight \/ Coming(panel.newest)
    BY DEF PanelInv, ScreenOK, SameScreen
  <2>2. ShownRight => ShownRight'
    BY DEF ShownRight, SameScreen, SameTab
  <2>3. panel'.newest = panel.newest
    BY DEF SameScreen
  <2>4. Coming(panel.newest) => Coming(panel.newest)'
    BY <1>2, <2>3 DEF Coming, Due, Reading, Here, SameScreen, SameTab
  <2> QED  BY <2>1, <2>2, <2>4
<1> QED  BY <1>8, <1>10, <1>11 DEF PanelInv

(* The server reads one part of what a tab asked for.                      *)
LEMMA PartServed ==
    ASSUME PanelInv, NEW c \in asking.calls, NEW part \in PartsOf(c.tab), ServePart(c, part)
    PROVE  PanelInv'
<1> DEFINE d == [c EXCEPT !.got[part] = PartOf(site, c.tab, c.query, part)]
<1>1. /\ CallOK(c) /\ asking.asked \in Nat /\ DOMAIN asking = {"calls", "asked"}
      /\ UNCHANGED <<site, panel, beyond>> /\ "got" \in DOMAIN c
  BY DEF PanelInv, PanelTyped, CallsOK, AskingOK, ServePart
<1>2. ReadShape(c)
  BY <1>1 DEF CallOK, ActShape
<1>3. /\ ReadShape(d) /\ d.id = c.id /\ d.visit = c.visit /\ d.tab = c.tab /\ d.query = c.query /\ d.again = c.again
      /\ \A p \in PartsOf(c.tab) : d.got[p] = c.got[p] \/ d.got[p] = PartOf(site, c.tab, c.query, p)
      /\ "got" \in DOMAIN d
  BY <1>2 DEF ReadShape
<1>4. asking' = [asking EXCEPT !.calls = (@ \ {c}) \cup {d}]
  BY DEF ServePart
<1> HIDE DEF d
<1>5. asking'.calls = (asking.calls \ {c}) \cup {d} /\ asking'.asked = asking.asked /\ AskingOK'
  BY <1>1, <1>4 DEF AskingOK
<1>6. \A e : CallOK(e) => CallOK(e)'
  BY <1>1, <1>5 DEF CallOK, Here
<1>7. CallOK(d)
  BY <1>1, <1>3 DEF CallOK, Here
<1>8. CallsOK'
  <2>1. \A e \in asking'.calls : CallOK(e)'
    BY <1>5, <1>6, <1>7 DEF PanelInv, PanelTyped, CallsOK
  <2>2. \A e, f \in asking'.calls : e.id = f.id => e = f
    BY <1>3, <1>5 DEF PanelInv, PanelTyped, CallsOK
  <2>3. \A e \in asking'.calls : Here(e)' /\ "got" \in DOMAIN e => e.id # panel'.newest
    BY <1>1, <1>3, <1>5 DEF PanelInv, PanelTyped, CallsOK, Here
  <2> QED  BY <2>1, <2>2, <2>3 DEF CallsOK
<1>9. PanelTyped'
  <2>1. PanelOK' /\ BeyondOK' /\ SiteOK(site)'
    BY <1>1, <1>5 DEF PanelInv, PanelTyped, PanelOK, BeyondOK, SiteOK
  <2> QED  BY <1>5, <1>8, <2>1 DEF PanelTyped
<1>10. \A e : Due(e)' = Due(e) /\ Reading(e)' = Reading(e)
  BY <1>1 DEF Due, Reading, Here
<1>11. ~Due(c) /\ (Reading(c) => Reading(d))
  BY <1>2, <1>3 DEF Due, Reading, Here, ReadShape
<1>12. ASSUME NEW id, Coming(id)  PROVE Coming(id)'
  <2>1. PICK e \in asking.calls : Due(e) \/ (Reading(e) /\ e.id > id)
    BY <1>12 DEF Coming
  <2>2. CASE e = c
    BY <1>3, <1>5, <1>10, <1>11, <2>1, <2>2 DEF Coming
  <2>3. CASE e # c
    BY <1>5, <1>10, <2>1, <2>3 DEF Coming
  <2> QED  BY <2>2, <2>3
<1>13. \A e : RightSoFar(e)' = RightSoFar(e)
  BY <1>1 DEF RightSoFar
<1>14. ReadsOK'
  <2> SUFFICES ASSUME ~beyond'.changed, NEW e \in asking'.calls, Reading(e)', e.id > panel'.newest
               PROVE  e.again \/ RightSoFar(e)' \/ Coming(e.id)'
    BY DEF ReadsOK
  <2>1. CASE e = d
    <3>1. Reading(c) /\ c.id > panel.newest
      BY <1>1, <1>3, <2>1 DEF Reading, Here
    <3>2. c.again \/ RightSoFar(c) \/ Coming(c.id)
      BY <1>1, <3>1 DEF PanelInv, ReadsOK
    <3>3. RightSoFar(c) => RightSoFar(d)
      BY <1>3 DEF RightSoFar
    <3> QED  BY <1>3, <1>12, <1>13, <2>1, <3>2, <3>3
  <2>2. CASE e \in asking.calls
    <3>1. e.again \/ RightSoFar(e) \/ Coming(e.id)
      BY <1>1, <1>10, <2>2 DEF PanelInv, ReadsOK
    <3> QED  BY <1>12, <1>13, <3>1
  <2> QED  BY <1>5, <2>1, <2>2
<1>15. ScreenOK'
  <2>1. ShownRight' = ShownRight
    BY <1>1 DEF ShownRight
  <2>2. Coming(panel.newest) => Coming(panel.newest)'
    <3> SUFFICES ASSUME Coming(panel.newest)  PROVE Coming(panel.newest)'
      OBVIOUS
    <3>1. PICK id : id = panel.newest
      OBVIOUS
    <3>2. Coming(id)'
      BY <1>12, <3>1
    <3>3. id = panel'.newest
      BY <1>1, <3>1
    <3> QED  BY <3>2, <3>3 DEF Coming
  <2> QED  BY <1>1, <2>1, <2>2 DEF PanelInv, ScreenOK
<1> QED  BY <1>9, <1>14, <1>15 DEF PanelInv

(* The Invitations' list is of the Invitations alone.                      *)
LEMMA ListOfInvitations ==
    ASSUME NEW s, NEW r, r.invitations = s.invitations, NEW query
    PROVE  /\ RowsOf(r, "invitations", query) = RowsOf(s, "invitations", query)
           /\ \A p \in PartsOf("invitations") : PartOf(r, "invitations", query, p) = PartOf(s, "invitations", query, p)
<1>1. Listed(r, "invitations", query) = Listed(s, "invitations", query)
  BY DEF Listed, AllInvitations
<1>2. \A id : InvitationOf(r, id) = InvitationOf(s, id)
  BY DEF InvitationOf, InvitationAt, Matches
<1>3. \A id : StatusOf(r, "invitations", id) = StatusOf(s, "invitations", id)
  BY <1>2 DEF StatusOf
<1>4. RowsOf(r, "invitations", query) = RowsOf(s, "invitations", query)
  BY <1>1, <1>3 DEF RowsOf
<1> QED  BY <1>1, <1>4 DEF PartOf, PartsOf

(* The server does, or refuses, what was asked.                            *)
LEMMA ActServed ==
    ASSUME None \notin Tabs, PanelInv, NEW c \in asking.calls, ServeAct(c)
    PROVE  PanelInv'
<1>1. /\ CallOK(c) /\ asking.asked \in Nat /\ DOMAIN asking = {"calls", "asked"} /\ SiteOK(site) /\ BeyondOK
      /\ "what" \in DOMAIN c /\ c.at = "sent"
  BY DEF PanelInv, PanelTyped, CallsOK, AskingOK, ServeAct
<1>2. ActShape(c)
  <2>1. ReadShape(c) \/ ActShape(c)
    BY <1>1 DEF CallOK
  <2>2. ReadShape(c) => DOMAIN c = {"id", "visit", "tab", "query", "again", "got"}
    BY DEF ReadShape
  <2>3. "what" \notin {"id", "visit", "tab", "query", "again", "got"}
    OBVIOUS
  <2> QED  BY <1>1, <2>1, <2>2, <2>3
<1>3. UNCHANGED panel /\ SiteOK(site') /\ \E d : Acted(c, d)
  BY <1>1, <1>2, ServeShape
<1>4. PICK d : Acted(c, d)
  BY <1>3
<1>5. /\ ActShape(d) /\ d.id = c.id /\ d.visit = c.visit /\ d.tab = c.tab /\ d.what = c.what
      /\ asking'.calls = (asking.calls \ {c}) \cup {d} /\ asking'.asked = asking.asked /\ AskingOK'
  BY <1>1, <1>4 DEF Acted, AskingOK
<1>6. BeyondOK' /\ (beyond' = beyond \/ beyond'.changed)
  BY <1>1, <1>4 DEF Acted, Unseen, BeyondOK
<1>7. CallsOK'
  <2>1. \A e : CallOK(e) => CallOK(e)'
    BY <1>3, <1>5 DEF CallOK, Here
  <2>2. CallOK(d)
    BY <1>1, <1>5 DEF CallOK, Here
  <2>3. \A e \in asking'.calls : CallOK(e)'
    BY <1>5, <2>1, <2>2 DEF PanelInv, PanelTyped, CallsOK
  <2>4. \A e, f \in asking'.calls : e.id = f.id => e = f
    BY <1>5 DEF PanelInv, PanelTyped, CallsOK
  <2>5. "got" \notin DOMAIN d
    BY <1>5 DEF ActShape
  <2>6. \A e \in asking'.calls : Here(e)' /\ "got" \in DOMAIN e => e.id # panel'.newest
    BY <1>3, <1>5, <2>5 DEF PanelInv, PanelTyped, CallsOK, Here
  <2> QED  BY <2>3, <2>4, <2>6 DEF CallsOK
<1>8. PanelTyped'
  <2>1. PanelOK'
    BY <1>3, <1>5 DEF PanelInv, PanelTyped, PanelOK
  <2> QED  BY <1>3, <1>5, <1>6, <1>7, <2>1 DEF PanelTyped
<1>9. \A e : Due(e)' = Due(e) /\ Reading(e)' = Reading(e)
  BY <1>3 DEF Due, Reading, Here
<1>10. ~Due(c) /\ ~Reading(c) /\ ~Reading(d)
  BY <1>1, <1>2, <1>5 DEF Due, Reading, ReadAgain, ActShape
<1>11. \A id : Coming(id) => Coming(id)'
  <2> SUFFICES ASSUME NEW id, Coming(id)  PROVE Coming(id)'
    OBVIOUS
  <2>1. PICK e \in asking.calls : Due(e) \/ (Reading(e) /\ e.id > id)
    BY DEF Coming
  <2>2. e # c
    BY <1>10, <2>1
  <2> QED  BY <1>5, <1>9, <2>1, <2>2 DEF Coming
<1>12. \A e \in asking'.calls : Reading(e)' => e \in asking.calls /\ Reading(e)
  BY <1>5, <1>9, <1>10
<1>13. CASE beyond'.changed
  BY <1>8, <1>13, NothingTold DEF PanelInv
<1>14. CASE beyond' = beyond /\ site' = site
  <2>1. \A e : RightSoFar(e)' = RightSoFar(e)
    BY <1>3, <1>14 DEF RightSoFar
  <2>2. ReadsOK'
    <3> SUFFICES ASSUME ~beyond'.changed, NEW e \in asking'.calls, Reading(e)', e.id > panel'.newest
                 PROVE  e.again \/ RightSoFar(e)' \/ Coming(e.id)'
      BY DEF ReadsOK
    <3>1. e.again \/ RightSoFar(e) \/ Coming(e.id)
      BY <1>3, <1>12, <1>14 DEF PanelInv, ReadsOK
    <3> QED  BY <1>11, <2>1, <3>1
  <2>3. ScreenOK'
    <3>1. ShownRight' = ShownRight
      BY <1>3, <1>14 DEF ShownRight
    <3>2. Coming(panel.newest) => Coming(panel.newest)'
      <4>1. PICK id : id = panel.newest
        OBVIOUS
      <4>2. Coming(id) => Coming(id)'
        BY <1>11
      <4>3. id = panel'.newest
        BY <1>3, <4>1
      <4> QED  BY <4>1, <4>2, <4>3 DEF Coming
    <3> QED  BY <1>3, <1>14, <3>1, <3>2 DEF PanelInv, ScreenOK
  <2> QED  BY <1>8, <2>2, <2>3 DEF PanelInv
<1>15. CASE /\ beyond' = beyond /\ ~beyond.changed /\ d.at = "done" /\ Unseen(c)
            /\ d.what = "lift" => site'.invitations = site.invitations
  <2>1. Here(c)
    <3>1. ~Here(c) => beyond'.changed
      BY <1>1, <1>15 DEF Unseen, BeyondOK
    <3> QED  BY <1>15, <3>1
  <2>2. Here(d) /\ Here(d)' /\ d.tab = panel.tab /\ panel.tab # None /\ panel.tab \in Tabs
    BY <1>1, <1>3, <1>5, <2>1 DEF Here, CallOK, PanelInv, PanelTyped, PanelOK, TabOK
  <2>3. CASE ReadAgain(d)
    <3>1. Due(d)' /\ d \in asking'.calls
      BY <1>5, <2>2, <2>3 DEF Due, ActShape
    <3>2. \A id : Coming(id)'
      BY <3>1 DEF Coming
    <3>3. ReadsOK' /\ ScreenOK'
      BY <3>1 DEF ReadsOK, ScreenOK, Coming
    <3> QED  BY <1>8, <3>3 DEF PanelInv
  <2>4. CASE ~ReadAgain(d)
    <3>1. panel.tab = "invitations" /\ site'.invitations = site.invitations
      BY <1>15, <2>2, <2>4 DEF ReadAgain
    <3>2. ASSUME NEW e \in asking.calls, Reading(e), RightSoFar(e)  PROVE RightSoFar(e)'
      <4>1. e.tab = "invitations"
        BY <3>1, <3>2 DEF Reading, PanelInv, PanelTyped, CallsOK, CallOK
      <4>3. \A q : \A p \in PartsOf("invitations") :
              PartOf(site', "invitations", q, p) = PartOf(site, "invitations", q, p)
        BY <3>1, ListOfInvitations
      <4>2. \A p \in PartsOf("invitations") :
              PartOf(site', "invitations", e.query, p) = PartOf(site, "invitations", e.query, p)
        BY <4>3
      <4> QED  BY <1>3, <3>2, <4>1, <4>2 DEF RightSoFar
    <3>3. ReadsOK'
      <4> SUFFICES ASSUME ~beyond'.changed, NEW e \in asking'.calls, Reading(e)', e.id > panel'.newest
                   PROVE  e.again \/ RightSoFar(e)' \/ Coming(e.id)'
        BY DEF ReadsOK
      <4>1. e \in asking.calls /\ Reading(e)
        BY <1>12
      <4>2. e.again \/ RightSoFar(e) \/ Coming(e.id)
        BY <1>3, <1>15, <4>1 DEF PanelInv, ReadsOK
      <4> QED  BY <1>11, <3>2, <4>1, <4>2
    <3>4. ScreenOK'
      <4>1. RowsOf(site', "invitations", panel.query) = RowsOf(site, "invitations", panel.query)
        BY <3>1, ListOfInvitations
      <4>2. ShownRight => ShownRight'
        BY <1>3, <3>1, <4>1 DEF ShownRight
      <4>3. Coming(panel.newest) => Coming(panel.newest)'
        <5>1. PICK id : id = panel.newest
          OBVIOUS
        <5>2. Coming(id) => Coming(id)'
          BY <1>11
        <5>3. id = panel'.newest
          BY <1>3, <5>1
        <5> QED  BY <5>1, <5>2, <5>3 DEF Coming
      <4> QED  BY <1>3, <1>15, <4>2, <4>3 DEF PanelInv, ScreenOK
    <3> QED  BY <1>8, <3>3, <3>4 DEF PanelInv
  <2> QED  BY <2>3, <2>4
<1> QED  BY <1>1, <1>4, <1>6, <1>13, <1>14, <1>15 DEF Acted, BeyondOK

(* A request over.                                                         *)
LEMMA CallsDropped ==
    ASSUME PanelTyped, NEW c, asking' = Served(c) \/ asking' = asking, panel'.visit \in Nat,
           \/ panel'.visit > panel.visit
           \/ /\ SameTab
              /\ \A d \in asking'.calls : Here(d) /\ "got" \in DOMAIN d => d.id # panel'.newest
    PROVE  CallsOK' /\ AskingOK' /\ asking'.asked = asking.asked
<1>1. asking.asked \in Nat /\ DOMAIN asking = {"calls", "asked"} /\ panel.visit \in Nat
  BY DEF PanelTyped, AskingOK, PanelOK
<1>2. /\ asking'.calls \subseteq asking.calls /\ asking'.asked = asking.asked /\ AskingOK'
      /\ asking'.asked \in Nat /\ asking'.asked >= asking.asked
  BY <1>1 DEF Served, AskingOK
<1>3. \A d \in asking'.calls : CallOK(d)'
  <2> SUFFICES ASSUME NEW d \in asking.calls  PROVE CallOK(d)'
    BY <1>2
  <2> QED  BY <1>2, OldCall DEF SameTab
<1>4. \A d, e \in asking'.calls : d.id = e.id => d = e
  BY <1>2 DEF PanelTyped, CallsOK
<1>5. ASSUME NEW d \in asking'.calls, Here(d)', "got" \in DOMAIN d  PROVE d.id # panel'.newest
  <2>1. d.visit \in 0 .. panel.visit
    BY <1>2 DEF PanelTyped, CallsOK, CallOK
  <2>2. ~(panel'.visit > panel.visit)
    BY <1>1, <1>5, <2>1 DEF Here
  <2> QED  BY <1>5, <2>2 DEF Here, SameTab
<1> QED  BY <1>2, <1>3, <1>4, <1>5 DEF CallsOK

(* One that nothing was to be read for: what is told stays, unless it      *)
(* failed.                                                                 *)
LEMMA Dropped ==
    ASSUME PanelInv, NEW c \in asking.calls, asking' = Served(c), ~Due(c), ~Reading(c), UNCHANGED site,
           BeyondOK', beyond'.changed \/ beyond'.changed = beyond.changed,
           {"tab", "visit"} \subseteq DOMAIN panel', panel.tab # None => TabOK(panel'),
           SameTab, panel'.query = panel.query, panel'.newest = panel.newest, panel'.failure \/ SameScreen
    PROVE  PanelInv'
<1>1. PanelTyped /\ asking.asked \in Nat /\ DOMAIN asking = {"calls", "asked"} /\ panel.visit \in Nat /\ panel'.visit \in Nat
  BY DEF PanelInv, PanelTyped, AskingOK, PanelOK, SameTab
<1>2. asking'.calls = asking.calls \ {c} /\ asking'.asked = asking.asked
  BY <1>1 DEF Served
<1>3. CallsOK' /\ AskingOK'
  <2>1. \A d \in asking'.calls : Here(d) /\ "got" \in DOMAIN d => d.id # panel'.newest
    BY <1>1, <1>2 DEF PanelTyped, CallsOK
  <2> QED  BY <1>1, <2>1, CallsDropped
<1>4. PanelTyped'
  <2>1. PanelOK'
    BY <1>1, <1>2 DEF PanelTyped, PanelOK, SameTab
  <2> QED  BY <1>1, <1>3, <2>1 DEF PanelTyped
<1>5. \A d : Due(d)' = Due(d) /\ Reading(d)' = Reading(d)
  BY DEF Due, Reading, Here, SameTab
<1>6. \A id : Coming(id) => Coming(id)'
  BY <1>2, <1>5 DEF Coming
<1>7. CASE beyond'.changed
  BY <1>4, <1>7, NothingTold DEF PanelInv
<1>8. CASE beyond'.changed = beyond.changed
  <2>1. ReadsOK'
    <3> SUFFICES ASSUME ~beyond'.changed, NEW e \in asking'.calls, Reading(e)', e.id > panel'.newest
                 PROVE  e.again \/ RightSoFar(e)' \/ Coming(e.id)'
      BY DEF ReadsOK
    <3>1. e.again \/ RightSoFar(e) \/ Coming(e.id)
      BY <1>2, <1>5, <1>8 DEF PanelInv, ReadsOK
    <3>2. RightSoFar(e) => RightSoFar(e)'
      BY DEF RightSoFar
    <3> QED  BY <1>6, <3>1, <3>2
  <2>2. ScreenOK'
    <3>1. SameScreen => ShownRight' = ShownRight
      BY DEF ShownRight, SameScreen, SameTab
    <3>2. Coming(panel.newest) => Coming(panel.newest)'
      <4>1. PICK id : id = panel.newest
        OBVIOUS
      <4>2. Coming(id) => Coming(id)'
        BY <1>6
      <4> QED  BY <4>1, <4>2 DEF Coming
    <3> QED  BY <1>8, <3>1, <3>2 DEF PanelInv, ScreenOK, SameScreen, SameTab
  <2> QED  BY <1>4, <2>1, <2>2 DEF PanelInv
<1> QED  BY <1>7, <1>8

(* A reading over, whether it answered or was lost.                        *)
LEMMA ReadOver ==
    ASSUME PanelInv, NEW c \in asking.calls, Reading(c), asking' = Served(c), UNCHANGED site,
           BeyondOK', beyond'.changed = beyond.changed, TabOK(panel'), SameTab, panel'.query = panel.query,
           panel'.newest = Newest(c)
    PROVE  /\ PanelTyped' /\ ReadsOK'
           /\ ~beyond.changed /\ c.id > panel.newest /\ ~c.again /\ ~RightSoFar(c) => Coming(panel.newest)'
<1>1. /\ PanelTyped /\ asking.asked \in Nat /\ DOMAIN asking = {"calls", "asked"} /\ panel.visit \in Nat
      /\ panel'.visit \in Nat /\ panel.newest \in Nat /\ panel.newest <= asking.asked /\ panel.tab # None
      /\ c.id \in 1 .. asking.asked
  BY DEF PanelInv, PanelTyped, AskingOK, PanelOK, TabOK, SameTab, Reading, Here, CallsOK, CallOK
<1>2. asking'.calls = asking.calls \ {c} /\ asking'.asked = asking.asked
  BY <1>1 DEF Served
<1>3. /\ panel'.newest \in Nat /\ panel'.newest <= asking.asked /\ panel'.newest >= panel.newest
      /\ panel'.newest >= c.id /\ panel'.newest \in {c.id, panel.newest}
      /\ c.id > panel.newest => panel'.newest = c.id
  BY <1>1 DEF Newest
<1>4. CallsOK' /\ AskingOK'
  <2>1. \A d \in asking'.calls : Here(d) /\ "got" \in DOMAIN d => d.id # panel'.newest
    BY <1>1, <1>2, <1>3 DEF PanelTyped, CallsOK
  <2> QED  BY <1>1, <2>1, CallsDropped
<1>5. PanelTyped'
  <2>1. PanelOK'
    BY <1>1, <1>2, <1>3 DEF PanelOK, TabOK, SameTab
  <2> QED  BY <1>1, <1>4, <2>1 DEF PanelTyped
<1>6. \A d : Due(d)' = Due(d) /\ Reading(d)' = Reading(d)
  BY DEF Due, Reading, Here, SameTab
<1>7. ~Due(c)
  <2>1. ReadShape(c) \/ ActShape(c)
    BY <1>1 DEF PanelTyped, CallsOK, CallOK
  <2>2. ReadShape(c) => DOMAIN c = {"id", "visit", "tab", "query", "again", "got"}
    BY DEF ReadShape
  <2>3. ActShape(c) => DOMAIN c = {"id", "visit", "tab", "what", "on", "query", "at", "why", "of"}
    BY DEF ActShape
  <2>4. "what" \notin {"id", "visit", "tab", "query", "again", "got"}
    OBVIOUS
  <2>5. "got" \notin {"id", "visit", "tab", "what", "on", "query", "at", "why", "of"}
    OBVIOUS
  <2> QED  BY <2>1, <2>2, <2>3, <2>4, <2>5 DEF Reading, Due
<1>8. ASSUME NEW id, ~(c.id > id), Coming(id)  PROVE Coming(id)'
  BY <1>2, <1>6, <1>7, <1>8 DEF Coming
<1>9. ReadsOK'
  <2> SUFFICES ASSUME ~beyond'.changed, NEW e \in asking'.calls, Reading(e)', e.id > panel'.newest
               PROVE  e.again \/ RightSoFar(e)' \/ Coming(e.id)'
    BY DEF ReadsOK
  <2>1. e \in asking.calls /\ e.id \in Nat
    BY <1>1, <1>2 DEF PanelTyped, CallsOK, CallOK
  <2>2. e.id > panel.newest /\ ~(c.id > e.id)
    BY <1>1, <1>3, <2>1
  <2>3. e.again \/ RightSoFar(e) \/ Coming(e.id)
    BY <1>6, <2>1, <2>2 DEF PanelInv, ReadsOK
  <2>4. RightSoFar(e) => RightSoFar(e)'
    BY DEF RightSoFar
  <2> QED  BY <1>8, <2>2, <2>3, <2>4
<1>10. ASSUME ~beyond.changed, c.id > panel.newest, ~c.again, ~RightSoFar(c)  PROVE Coming(panel.newest)'
  <2>1. Coming(c.id)
    BY <1>10 DEF PanelInv, ReadsOK
  <2>2. ~(c.id > c.id)
    BY <1>1
  <2>3. Coming(c.id)'
    BY <1>8, <2>1, <2>2
  <2> QED  BY <1>3, <1>10, <2>3 DEF Coming
<1> QED  BY <1>5, <1>9, <1>10

(* A tab takes what it asked for (AccountsTab.tsx, RoomsTab.tsx, reload).  *)
LEMMA ReadTaken ==
    ASSUME PanelInv, NEW c \in asking.calls, TakeRead(c)
    PROVE  PanelInv'
<1>1. /\ asking' = Served(c) /\ UNCHANGED <<site, beyond>> /\ "got" \in DOMAIN c
      /\ \A p \in DOMAIN c.got : c.got[p] # None
  BY DEF TakeRead
<1>2. CallOK(c) /\ BeyondOK /\ BeyondOK' /\ PanelTyped
  BY <1>1 DEF PanelInv, PanelTyped, CallsOK, BeyondOK
<1>3. CASE ~Here(c)
  <2>1. UNCHANGED panel
    BY <1>3 DEF TakeRead
  <2>2. /\ ~Due(c) /\ ~Reading(c) /\ SameScreen /\ SameTab /\ {"tab", "visit"} \subseteq DOMAIN panel'
        /\ panel.tab # None => TabOK(panel')
    BY <1>2, <1>3, <2>1 DEF Due, Reading, SameScreen, SameTab, PanelTyped, PanelOK
  <2> QED  BY <1>1, <1>2, <2>2, Dropped DEF SameScreen
<1>4. CASE Here(c)
  <2>1. Reading(c) /\ panel.tab # None /\ TabOK(panel) /\ c.tab = panel.tab /\ c.id \in Nat /\ panel.newest \in Nat
    BY <1>1, <1>2, <1>4 DEF Reading, Here, CallOK, PanelTyped, PanelOK, TabOK
  <2>2. panel' = [panel EXCEPT !.failure = FALSE, !.newest = Newest(c), !.astray = c.again \/ c.id < panel.newest,
                               !.totals = IF c.tab = "accounts" THEN c.got["totals"] ELSE @,
                               !.shown = c.got["list"]]
    BY <1>4 DEF TakeRead
  <2>3. ReadShape(c)
    <3>1. ReadShape(c) \/ ActShape(c)
      BY <1>2 DEF CallOK
    <3>2. ActShape(c) => DOMAIN c = {"id", "visit", "tab", "what", "on", "query", "at", "why", "of"}
      BY DEF ActShape
    <3>3. "got" \notin {"id", "visit", "tab", "what", "on", "query", "at", "why", "of"}
      OBVIOUS
    <3> QED  BY <1>1, <3>1, <3>2, <3>3
  <2>4. Newest(c) \in Nat
    BY <2>1 DEF Newest
  <2>5. /\ TabOK(panel') /\ SameTab /\ panel'.query = panel.query /\ panel'.newest = Newest(c)
        /\ panel'.astray = (c.again \/ c.id < panel.newest)
        /\ panel'.shown = c.got["list"]
        /\ c.tab = "accounts" => panel'.totals = c.got["totals"]
    BY <2>1, <2>2, <2>3, <2>4 DEF TabOK, SameTab, ReadShape
  <2>6. /\ PanelTyped' /\ ReadsOK'
        /\ ~beyond.changed /\ c.id > panel.newest /\ ~c.again /\ ~RightSoFar(c) => Coming(panel.newest)'
    BY <1>1, <1>2, <2>1, <2>5, ReadOver
  <2>7. ScreenOK'
    <3> SUFFICES ASSUME ~panel'.astray, ~beyond'.changed  PROVE ShownRight' \/ Coming(panel.newest)'
      BY DEF ScreenOK
    <3>1. ~beyond.changed /\ ~c.again /\ ~(c.id < panel.newest)
      BY <1>1, <2>5
    <3>2. c.id # panel.newest
      BY <1>1, <1>4 DEF PanelInv, PanelTyped, CallsOK
    <3>3. c.id > panel.newest
      BY <2>1, <3>1, <3>2
    <3>4. CASE RightSoFar(c)
      <4>1. \A p \in PartsOf(c.tab) : c.got[p] = PartOf(site, c.tab, c.query, p)
        BY <1>1, <2>3, <3>4 DEF RightSoFar, ReadShape
      <4>2. "list" \in PartsOf(c.tab) /\ (c.tab = "accounts" => "totals" \in PartsOf(c.tab))
        BY DEF PartsOf
      <4>3. c.got["list"].query = c.query /\ c.got["list"].rows = RowsOf(site, c.tab, c.query)
        BY <4>1, <4>2 DEF PartOf
      <4>4. c.tab = "accounts" => c.got["totals"] = Totals(site)
        BY <4>1, <4>2 DEF PartOf
      <4>5. c.query = panel.query
        BY <3>4 DEF RightSoFar
      <4>6. panel'.tab = c.tab /\ panel'.query = c.query /\ site' = site
        BY <1>1, <2>1, <2>5, <4>5 DEF SameTab
      <4>7. panel'.shown.query = panel'.query
        BY <2>5, <4>3, <4>6
      <4>8. panel'.shown.rows = RowsOf(site', panel'.tab, panel'.query)
        BY <2>5, <4>3, <4>6
      <4>9. panel'.tab = "accounts" => panel'.totals = Totals(site')
        BY <2>5, <4>4, <4>6
      <4> QED  BY <4>7, <4>8, <4>9 DEF ShownRight
    <3> QED  BY <2>6, <3>1, <3>3, <3>4
  <2> QED  BY <2>6, <2>7 DEF PanelInv
<1> QED  BY <1>3, <1>4

(* The panel left, by the Administrator or as somebody else.               *)
LEMMA PanelLeft ==
    ASSUME PanelInv, NEW c, asking' = Served(c) \/ asking' = asking, panel' = Elsewhere, UNCHANGED <<site, beyond>>
    PROVE  PanelInv'
<1>1. PanelTyped /\ panel.visit \in Nat /\ {"tab", "visit"} \subseteq DOMAIN panel
  BY DEF PanelInv, PanelTyped, PanelOK
<1>2. panel'.tab = None /\ panel'.visit = panel.visit + 1 /\ DOMAIN panel' = DOMAIN panel
  BY <1>1 DEF Elsewhere
<1>3. panel'.visit \in Nat /\ panel'.visit > panel.visit
  BY <1>1, <1>2
<1>4. CallsOK' /\ AskingOK'
  BY <1>1, <1>3, CallsDropped
<1>5. PanelTyped'
  BY <1>1, <1>2, <1>3, <1>4 DEF PanelTyped, PanelOK, BeyondOK
<1> QED  BY <1>2, <1>5, NothingTold DEF PanelInv

(* A tab takes what came of an act.                                        *)
LEMMA ActTaken ==
    ASSUME None \notin Tabs, PanelInv, NEW c \in asking.calls, NEW mailed \in BOOLEAN, TakeAct(c, mailed)
    PROVE  PanelInv'
<1>1. "what" \in DOMAIN c /\ UNCHANGED <<site, beyond>>
  BY DEF TakeAct
<1>2. CallOK(c) /\ BeyondOK /\ BeyondOK' /\ PanelTyped
  BY <1>1 DEF PanelInv, PanelTyped, CallsOK, BeyondOK
<1>3. ActShape(c) /\ ~Reading(c)
  <2>1. ReadShape(c) \/ ActShape(c)
    BY <1>2 DEF CallOK
  <2>2. ReadShape(c) => DOMAIN c = {"id", "visit", "tab", "query", "again", "got"}
    BY DEF ReadShape
  <2>3. "what" \notin {"id", "visit", "tab", "query", "again", "got"}
    OBVIOUS
  <2>4. ActShape(c) => DOMAIN c = {"id", "visit", "tab", "what", "on", "query", "at", "why", "of"}
    BY DEF ActShape
  <2>5. "got" \notin {"id", "visit", "tab", "what", "on", "query", "at", "why", "of"}
    OBVIOUS
  <2> QED  BY <1>1, <2>1, <2>2, <2>3, <2>4, <2>5 DEF Reading
<1>4. CASE c.what = "impersonate" /\ c.at = "done"
  <2>1. panel' = Elsewhere /\ asking' = Served(c)
    BY <1>4 DEF TakeAct
  <2> QED  BY <1>1, <2>1, PanelLeft
<1>5. CASE ~(c.what = "impersonate" /\ c.at = "done") /\ ~Here(c)
  <2>1. UNCHANGED panel /\ asking' = Served(c)
    BY <1>5 DEF TakeAct
  <2>2. /\ ~Due(c) /\ SameScreen /\ SameTab /\ {"tab", "visit"} \subseteq DOMAIN panel'
        /\ panel.tab # None => TabOK(panel')
    BY <1>2, <1>5, <2>1 DEF Due, SameScreen, SameTab, PanelTyped, PanelOK
  <2> QED  BY <1>1, <1>2, <1>3, <2>1, <2>2, Dropped DEF SameScreen
<1>6. CASE ~(c.what = "impersonate" /\ c.at = "done") /\ Here(c)
  <2>1. /\ panel' = IF c.tab = "invitations"
                    THEN [panel EXCEPT !.notice = NoticeOf(c, mailed), !.busy = IF c.what = "invite" THEN FALSE ELSE @]
                    ELSE [panel EXCEPT !.failure = @ \/ c.at = "refused"]
        /\ IF ReadAgain(c) THEN Reads(Served(c), panel, c.query) ELSE asking' = Served(c)
    BY <1>6 DEF TakeAct
  <2>2. panel.tab # None /\ TabOK(panel) /\ panel.newest <= asking.asked /\ panel.visit \in Nat
    BY <1>2, <1>6 DEF Here, PanelTyped, PanelOK
  <2>3. /\ TabOK(panel') /\ SameTab /\ panel'.query = panel.query /\ panel'.newest = panel.newest
        /\ panel'.failure \/ SameScreen
    BY <2>1, <2>2 DEF TabOK, SameTab, SameScreen
  <2>4. CASE ~ReadAgain(c)
    <3>1. ~Due(c) /\ asking' = Served(c)
      BY <2>1, <2>4 DEF Due
    <3>2. {"tab", "visit"} \subseteq DOMAIN panel'
      BY <2>3 DEF TabOK
    <3> QED  BY <1>1, <1>2, <1>3, <2>3, <3>1, <3>2, Dropped
  <2>5. CASE ReadAgain(c)
    <3> DEFINE left == Served(c)
    <3>1. Reads(left, panel, c.query)
      BY <2>1, <2>5
    <3>2. left.calls \subseteq asking.calls /\ left.asked = asking.asked
      BY <1>2 DEF PanelTyped, AskingOK, Served
    <3> HIDE DEF left
    <3>3. Reads(left, panel', c.query)
      BY <2>3, <3>1 DEF Reads, SameTab
    <3>4. panel'.tab # None /\ panel'.newest <= asking.asked /\ panel'.visit \in Nat
      BY <2>2, <2>3 DEF SameTab
    <3> QED  BY <1>1, <1>2, <2>3, <3>2, <3>3, <3>4, NewReading DEF SameTab
  <2> QED  BY <2>4, <2>5
<1> QED  BY <1>4, <1>5, <1>6

(* A request, or its answer, is lost.                                      *)
LEMMA Missed ==
    ASSUME PanelInv, NEW c \in asking.calls, Miss(c)
    PROVE  PanelInv'
<1>1. /\ asking' = Served(c) /\ UNCHANGED site
      /\ beyond' = [beyond EXCEPT !.mishaps = @ + 1, !.changed = @ \/ "what" \in DOMAIN c]
  BY DEF Miss
<1>2. CallOK(c) /\ BeyondOK /\ PanelTyped
  BY DEF PanelInv, PanelTyped, CallsOK
<1>3. BeyondOK' /\ beyond'.changed = (beyond.changed \/ "what" \in DOMAIN c)
  BY <1>1, <1>2 DEF BeyondOK
<1>4. CASE ~Here(c)
  <2>1. UNCHANGED panel
    BY <1>4 DEF Miss
  <2>2. /\ ~Due(c) /\ ~Reading(c) /\ SameScreen /\ SameTab /\ {"tab", "visit"} \subseteq DOMAIN panel'
        /\ panel.tab # None => TabOK(panel')
    BY <1>2, <1>4, <2>1 DEF Due, Reading, SameScreen, SameTab, PanelTyped, PanelOK
  <2> QED  BY <1>1, <1>2, <1>3, <2>2, Dropped DEF SameScreen, BeyondOK
<1>5. CASE Here(c) /\ "what" \in DOMAIN c
  <2>1. panel.tab # None /\ TabOK(panel) /\ panel.newest <= asking.asked /\ panel.visit \in Nat /\ asking.asked \in Nat
    BY <1>2, <1>5 DEF Here, PanelTyped, PanelOK, AskingOK
  <2>2. ~("got" \in DOMAIN c)
    <3>1. ReadShape(c) \/ ActShape(c)
      BY <1>2 DEF CallOK
    <3>2. ReadShape(c) => DOMAIN c = {"id", "visit", "tab", "query", "again", "got"}
      BY DEF ReadShape
    <3>3. "what" \notin {"id", "visit", "tab", "query", "again", "got"}
      OBVIOUS
    <3>4. ActShape(c) => "got" \notin DOMAIN c
      BY DEF ActShape
    <3> QED  BY <1>5, <3>1, <3>2, <3>3, <3>4
  <2>3. TabOK(panel') /\ SameTab /\ panel'.newest = panel.newest
    BY <1>5, <2>1, <2>2 DEF Miss, TabOK, SameTab
  <2>4. \A d \in asking'.calls : Here(d) /\ "got" \in DOMAIN d => d.id # panel'.newest
    BY <1>1, <1>2, <2>3 DEF Served, PanelTyped, CallsOK, AskingOK
  <2>5. CallsOK' /\ AskingOK' /\ asking'.asked = asking.asked
    <3>1. panel'.visit \in Nat
      BY <2>1, <2>3 DEF SameTab
    <3> QED  BY <1>1, <1>2, <2>3, <2>4, <3>1, CallsDropped
  <2>6. PanelTyped'
    BY <1>1, <1>2, <1>3, <2>1, <2>3, <2>5 DEF PanelTyped, PanelOK, SameTab, TabOK
  <2>7. beyond'.changed
    BY <1>3, <1>5
  <2> QED  BY <2>6, <2>7, NothingTold DEF PanelInv
<1>6. CASE Here(c) /\ "what" \notin DOMAIN c
  <2>1. panel.tab # None /\ TabOK(panel) /\ c.id \in Nat /\ panel.newest \in Nat
    BY <1>2, <1>6 DEF Here, PanelTyped, PanelOK, TabOK, CallOK
  <2>2. Reading(c) /\ "got" \in DOMAIN c
    <3>1. ReadShape(c) \/ ActShape(c)
      BY <1>2 DEF CallOK
    <3>2. ActShape(c) => "what" \in DOMAIN c
      BY DEF ActShape
    <3>3. ReadShape(c) => "got" \in DOMAIN c
      BY DEF ReadShape
    <3> QED  BY <1>6, <3>1, <3>2, <3>3 DEF Reading
  <2>3. panel' = [panel EXCEPT !.failure = TRUE, !.newest = Newest(c)]
    BY <1>6, <2>2 DEF Miss
  <2>4. Newest(c) \in Nat
    BY <2>1 DEF Newest
  <2>5. TabOK(panel') /\ SameTab /\ panel'.query = panel.query /\ panel'.newest = Newest(c) /\ panel'.failure
    BY <2>1, <2>3, <2>4 DEF TabOK, SameTab
  <2>6. beyond'.changed = beyond.changed
    BY <1>2, <1>3, <1>6 DEF BeyondOK
  <2>7. PanelTyped' /\ ReadsOK'
    BY <1>1, <1>3, <2>2, <2>5, <2>6, ReadOver
  <2>8. ScreenOK'
    BY <2>5 DEF ScreenOK
  <2> QED  BY <2>7, <2>8 DEF PanelInv
<1> QED  BY <1>4, <1>5, <1>6

(* Anybody else changes the site: from then on nothing more is claimed of  *)
(* what is on screen, and the site still holds together.                   *)
LEMMA ByOthers ==
    ASSUME PanelInv, Others
    PROVE  PanelInv'
<1>1. SiteOK(site) /\ BeyondOK /\ PanelTyped
  BY DEF PanelInv, PanelTyped
<1>2. /\ beyond' = [beyond EXCEPT !.mishaps = @ + 1, !.changed = TRUE] /\ UNCHANGED <<panel, asking>>
      /\ \/ \E a \in site.accounts \ (Administrators \cup site.suspended) : site' = [site EXCEPT !.suspended = @ \cup {a}]
         \/ \E a \in site.suspended : site' = [site EXCEPT !.suspended = @ \ {a}]
         \/ \E r \in site.open : site' = [site EXCEPT !.open = @ \ {r}, !.live = @ \ {r}]
         \/ \E r \in site.open \ site.live : site' = [site EXCEPT !.live = @ \cup {r}]
         \/ \E k \in 1 .. Len(site.invitations) :
               /\ site.invitations[k].status = "pending"
               /\ \/ \E status \in {"expired", "cancelled"} : site' = Restated(site.invitations[k].id, status)
                  \/ site' = [Restated(site.invitations[k].id, "accepted") EXCEPT
                                !.accounts = @ \cup {Mail[site.invitations[k].email]}]
  BY DEF Others
<1>3. SiteOK(site')
  <2>1. CASE \E a \in site.accounts \ (Administrators \cup site.suspended) : site' = [site EXCEPT !.suspended = @ \cup {a}]
    BY <1>1, <2>1 DEF SiteOK
  <2>2. CASE \E a \in site.suspended : site' = [site EXCEPT !.suspended = @ \ {a}]
    BY <1>1, <2>2 DEF SiteOK
  <2>3. CASE \E r \in site.open : site' = [site EXCEPT !.open = @ \ {r}, !.live = @ \ {r}]
    BY <1>1, <2>3 DEF SiteOK
  <2>4. CASE \E r \in site.open \ site.live : site' = [site EXCEPT !.live = @ \cup {r}]
    BY <1>1, <2>4 DEF SiteOK
  <2>5. ASSUME NEW k \in 1 .. Len(site.invitations), site.invitations[k].status = "pending",
               NEW status \in Standing \cup {"accepted", "cancelled"}
        PROVE  /\ DOMAIN Restated(site.invitations[k].id, status) = DOMAIN site
               /\ SiteOK(Restated(site.invitations[k].id, status))
               /\ SiteOK([Restated(site.invitations[k].id, status) EXCEPT
                            !.accounts = @ \cup {Mail[site.invitations[k].email]}])
    <3> DEFINE i == InvitationAt(site, site.invitations[k].id)
    <3>1. k \in Matches(site, site.invitations[k].id)
      BY DEF Matches
    <3>2. /\ i \in 1 .. Len(site.invitations) /\ InvitationOf(site, site.invitations[k].id) = site.invitations[i]
          /\ InvitationOf(site, site.invitations[k].id).id = site.invitations[k].id
      BY <1>1, <3>1, Found
    <3>3. i = k
      BY <1>1, <3>2 DEF SiteOK, OneEach
    <3>4. "pending" \in Standing
      BY DEF Standing
    <3>5. OneEach([site.invitations EXCEPT ![i].status = status])
      BY <1>1, <2>5, <3>2, <3>3, <3>4, RestatedOK DEF SiteOK
    <3>6. Restated(site.invitations[k].id, status) = [site EXCEPT !.invitations = [@ EXCEPT ![i].status = status]]
      BY DEF Restated
    <3> DEFINE next == Restated(site.invitations[k].id, status)
    <3>7. /\ DOMAIN next = DOMAIN site /\ next.suspended = site.suspended
          /\ next.invitations = [site.invitations EXCEPT ![i].status = status]
      BY <1>1, <3>6 DEF SiteOK
    <3> HIDE DEF next
    <3>8. SiteOK(next) /\ SiteOK([next EXCEPT !.accounts = @ \cup {Mail[site.invitations[k].email]}])
      BY <1>1, <3>5, <3>7 DEF SiteOK
    <3> QED  BY <3>7, <3>8 DEF next
  <2>6. CASE \E k \in 1 .. Len(site.invitations) :
               /\ site.invitations[k].status = "pending"
               /\ \/ \E status \in {"expired", "cancelled"} : site' = Restated(site.invitations[k].id, status)
                  \/ site' = [Restated(site.invitations[k].id, "accepted") EXCEPT
                                !.accounts = @ \cup {Mail[site.invitations[k].email]}]
    <3>1. {"expired", "cancelled", "accepted"} \subseteq Standing \cup {"accepted", "cancelled"}
      BY DEF Standing
    <3> QED  BY <2>5, <2>6, <3>1
  <2> QED  BY <1>2, <2>1, <2>2, <2>3, <2>4, <2>6
<1>4. BeyondOK' /\ beyond'.changed
  BY <1>1, <1>2 DEF BeyondOK
<1>5. PanelOK' /\ AskingOK' /\ CallsOK'
  BY <1>1, <1>2 DEF PanelTyped, PanelOK, AskingOK, CallsOK, CallOK, Here
<1>6. PanelTyped'
  BY <1>3, <1>4, <1>5 DEF PanelTyped
<1> QED  BY <1>4, <1>6, NothingTold DEF PanelInv

(* A query changed is asked at once.                                       *)
LEMMA Requeried ==
    ASSUME None \notin Tabs, PanelInv, panel.tab \in Tabs, NEW query, Requery(query)
    PROVE  PanelInv'
<1>1. /\ panel' = [panel EXCEPT !.query = query] /\ Reads(asking, panel', query) /\ UNCHANGED site
      /\ beyond' = [beyond EXCEPT !.touches = @ + 1]
  BY DEF Requery, Touch
<1>2. /\ PanelTyped /\ panel.tab # None /\ TabOK(panel) /\ panel.visit \in Nat /\ BeyondOK
      /\ panel.newest <= asking.asked
  BY DEF PanelInv, PanelTyped, PanelOK
<1>3. TabOK(panel') /\ SameTab /\ panel'.newest = panel.newest
  BY <1>1, <1>2 DEF TabOK, SameTab
<1>4. BeyondOK' /\ beyond'.changed = beyond.changed
  BY <1>1, <1>2 DEF BeyondOK
<1>5. panel'.tab # None /\ panel'.newest <= asking.asked /\ panel'.visit \in Nat
  BY <1>2, <1>3 DEF SameTab
<1>6. asking.calls \subseteq asking.calls /\ asking.asked = asking.asked
  OBVIOUS
<1> QED  BY <1>1, <1>2, <1>3, <1>4, <1>5, <1>6, NewReading DEF SameTab

LEMMA TabOpened ==
    ASSUME None \notin Tabs, PanelInv, NEW tab \in Tabs, OpenTab(tab)
    PROVE  PanelInv'
<1>1. /\ panel' = Fresh(tab) /\ Reads(asking, Fresh(tab), FirstQuery(tab)) /\ UNCHANGED site
      /\ beyond' = [beyond EXCEPT !.touches = @ + 1]
  BY DEF OpenTab, Touch
<1>2. PanelTyped /\ panel.visit \in Nat /\ BeyondOK /\ asking.asked \in Nat
  BY DEF PanelInv, PanelTyped, PanelOK, AskingOK
<1>3. TabOK(panel') /\ panel'.visit = panel.visit + 1 /\ panel'.newest = 0 /\ panel'.tab = tab
  BY <1>1 DEF TabOK, Fresh
<1>4. BeyondOK' /\ beyond'.changed = beyond.changed
  BY <1>1, <1>2 DEF BeyondOK
<1>5. /\ panel'.tab # None /\ panel'.newest <= asking.asked /\ panel'.visit \in Nat
      /\ panel'.visit > panel.visit
  BY <1>2, <1>3
<1>6. asking.calls \subseteq asking.calls /\ asking.asked = asking.asked
  OBVIOUS
<1>7. \E query : Reads(asking, panel', query)
  BY <1>1
<1> QED  BY <1>1, <1>2, <1>3, <1>4, <1>5, <1>6, <1>7, NewReading

(* What asks for no reading.                                               *)
LEMMA Asks ==
    ASSUME None \notin Tabs, PanelInv,
           Ask \/ Dismiss \/ ConfirmAct \/ TakeNotice \/ \E mail \in Mails : SendInvitation(mail)
    PROVE  PanelInv'
<1>1. PanelTyped /\ panel.tab # None /\ TabOK(panel) /\ BeyondOK
  <2>1. panel.tab # None
    BY DEF Ask, Dismiss, ConfirmAct, TakeNotice, SendInvitation, On, Tabs
  <2> QED  BY <2>1 DEF PanelInv, PanelTyped, PanelOK
<1>2. UNCHANGED site /\ BeyondOK' /\ beyond'.changed = beyond.changed
  BY <1>1 DEF Ask, Dismiss, ConfirmAct, TakeNotice, SendInvitation, Touch, BeyondOK
<1>3. TabOK(panel') /\ SameScreen
  <2>1. CASE Ask
    <3>1. PICK k \in DOMAIN panel.shown.rows : \E what \in Offers(panel.tab, panel.shown.rows[k]) :
            panel' = [panel EXCEPT !.confirming = [what |-> what, on |-> panel.shown.rows[k].id]]
      BY <2>1 DEF Ask
    <3>2. PICK what \in Offers(panel.tab, panel.shown.rows[k]) :
            panel' = [panel EXCEPT !.confirming = [what |-> what, on |-> panel.shown.rows[k].id]]
      BY <3>1
    <3>3. \A row : "invite" \notin AccountOffers(row) \cup RoomOffers(row) \cup InvitationOffers(row)
      BY DEF AccountOffers, RoomOffers, InvitationOffers
    <3>4. \A row : "invite" \notin Offers(panel.tab, row)
      BY <1>1, <3>3 DEF Offers, TabOK, Tabs
    <3>5. what # "invite"
      BY <3>4
    <3> QED  BY <1>1, <3>2, <3>5 DEF TabOK, SameScreen, SameTab
  <2>2. CASE Dismiss \/ ConfirmAct
    BY <1>1, <2>2 DEF Dismiss, ConfirmAct, TabOK, SameScreen, SameTab
  <2>3. CASE TakeNotice
    BY <1>1, <2>3 DEF TakeNotice, TabOK, SameScreen, SameTab
  <2>4. CASE \E mail \in Mails : SendInvitation(mail)
    BY <1>1, <2>4 DEF SendInvitation, TabOK, SameScreen, SameTab
  <2> QED  BY <2>1, <2>2, <2>3, <2>4
<1>4. asking' = asking \/ \E what, on : Performs(what, on) /\ (what = "invite" => on \in Mails)
  <2>1. CASE Ask \/ Dismiss
    BY <2>1 DEF Ask, Dismiss
  <2>2. CASE ConfirmAct
    <3>1. panel.confirming.what # "invite" /\ Performs(panel.confirming.what, panel.confirming.on)
      BY <1>1, <2>2 DEF ConfirmAct, TabOK
    <3>2. PICK what, on : what = panel.confirming.what /\ on = panel.confirming.on
      OBVIOUS
    <3>3. Performs(what, on) /\ what # "invite"
      BY <3>1, <3>2
    <3> QED  BY <3>3
  <2>3. CASE TakeNotice
    <3>1. Performs("resend", panel.notice.on) \/ Performs("lift", panel.notice.on)
      BY <2>3 DEF TakeNotice
    <3>2. PICK on : on = panel.notice.on
      OBVIOUS
    <3>3. Performs("resend", on) \/ Performs("lift", on)
      BY <3>1, <3>2
    <3>4. "resend" # "invite" /\ "lift" # "invite"
      OBVIOUS
    <3> QED  BY <3>3, <3>4, Zenon
  <2>4. CASE \E mail \in Mails : SendInvitation(mail)
    BY <2>4 DEF SendInvitation
  <2> QED  BY <2>1, <2>2, <2>3, <2>4
<1> QED  BY <1>1, <1>2, <1>3, <1>4, Quiet

LEMMA PanelFirst ==
    ASSUME SiteAssumption, PanelInit
    PROVE  PanelInv
<1>1. PanelTyped
  BY DEF PanelInit, SiteAssumption, PanelTyped, AskingOK, BeyondOK, PanelOK, CallsOK
<1>2. ReadsOK /\ ScreenOK
  BY DEF PanelInit, ReadsOK, ScreenOK
<1> QED  BY <1>1, <1>2 DEF PanelInv

LEMMA PanelStep ==
    ASSUME None \notin Tabs, PanelInv, [PanelNext]_adminVars
    PROVE  PanelInv'
<1>1. CASE UNCHANGED adminVars
  <2>1. UNCHANGED <<site, panel, asking, beyond>>
    BY <1>1 DEF adminVars
  <2>2. PanelTyped'
    BY <2>1 DEF PanelInv, PanelTyped, PanelOK, AskingOK, BeyondOK, CallsOK, CallOK, Here
  <2>3. ReadsOK' /\ ScreenOK'
    BY <2>1 DEF PanelInv, ReadsOK, ScreenOK, Reading, Here, Coming, Due, RightSoFar, ShownRight
  <2> QED  BY <2>2, <2>3 DEF PanelInv
<1>2. CASE PanelNext
  <2>1. CASE LeavePanel
    <3>1. panel' = Elsewhere /\ UNCHANGED <<site, beyond>> /\ (asking' = Served(0) \/ asking' = asking)
      BY <2>1 DEF LeavePanel
    <3> QED  BY <3>1, PanelLeft
  <2>2. CASE \/ TurnOrder \/ \E text \in DOMAIN Named : Search(text)
             \/ \E by \in DOMAIN Columns : SortBy(by)
             \/ \E status \in {"open", "all"} : ShowRooms(status)
             \/ \E page \in 1 .. MaxTouches : GoTo(page)
    <3>1. panel.tab \in Tabs /\ \E query : Requery(query)
      BY <2>2 DEF TurnOrder, Search, SortBy, ShowRooms, GoTo, On, Tabs
    <3> QED  BY <3>1, Requeried
  <2>3. CASE Ask \/ Dismiss \/ ConfirmAct \/ TakeNotice \/ \E mail \in Mails : SendInvitation(mail)
    BY <2>3, Asks
  <2>4. CASE Others
    BY <2>4, ByOthers
  <2>5. ASSUME NEW tab \in Tabs, OpenTab(tab)  PROVE PanelInv'
    BY <2>5, TabOpened
  <2>6. ASSUME NEW c \in asking.calls, NEW part \in PartsOf(c.tab), ServePart(c, part)  PROVE PanelInv'
    BY <2>6, PartServed
  <2>7. ASSUME NEW c \in asking.calls, ServeAct(c)  PROVE PanelInv'
    BY <2>7, ActServed
  <2>8. ASSUME NEW c \in asking.calls, TakeRead(c)  PROVE PanelInv'
    BY <2>8, ReadTaken
  <2>9. ASSUME NEW c \in asking.calls, Miss(c)  PROVE PanelInv'
    BY <2>9, Missed
  <2>10. ASSUME NEW c \in asking.calls, NEW mailed \in BOOLEAN, TakeAct(c, mailed)  PROVE PanelInv'
    BY <2>10, ActTaken
  <2> QED  BY <1>2, <2>1, <2>2, <2>3, <2>4, <2>5, <2>6, <2>7, <2>8, <2>9, <2>10 DEF PanelNext
<1> QED  BY <1>1, <1>2

LEMMA PanelTells ==
    ASSUME PanelInv
    PROVE  PanelTellsTheSite
<1>1. SiteOK(site) /\ PanelOK
  BY DEF PanelInv, PanelTyped
<1>2. site.suspended \cap Administrators = {}
  BY <1>1 DEF SiteOK
<1>3. ASSUME NEW mail \in Mails  PROVE Cardinality(OpenFor(mail)) <= 1
  <2>1. \A x, y \in OpenFor(mail) : x = y
    BY <1>1 DEF OpenFor, SiteOK, OneEach
  <2>2. CASE OpenFor(mail) = {}
    BY <2>2, FS_EmptySet
  <2>3. CASE OpenFor(mail) # {}
    <3>1. PICK x \in OpenFor(mail) : TRUE
      BY <2>3
    <3>2. OpenFor(mail) = {x}
      BY <2>1, <3>1
    <3>3. Cardinality({x}) = 1
      BY FS_Singleton
    <3> QED  BY <3>2, <3>3
  <2> QED  BY <2>2, <2>3
<1>4. ASSUME panel.tab # None, ~panel.failure, ~panel.astray, ~beyond.changed, \A c \in asking.calls : ~Here(c)
      PROVE  ShownRight
  BY <1>4 DEF PanelInv, ScreenOK, Coming, Due, Reading
<1> QED  BY <1>2, <1>3, <1>4 DEF PanelTellsTheSite, ShownRight

(* With nothing under way, an open tab shows what the server holds for the *)
(* query on screen, whatever the Administrator did and in whatever order   *)
(* the answers came, unless something failed, an answer came out of turn   *)
(* or somebody else changed the site; and no email is invited twice at     *)
(* once (admin/*.tsx reload, invitations.service.ts invite, resend).       *)
THEOREM PanelTellsTheTruth == PanelSpec => []PanelTellsTheSite
<1>1. PanelInit => PanelInv
  BY PanelFirst, SiteAssumption
<1>2. PanelInv /\ [PanelNext]_adminVars => PanelInv'
  <2>1. None \notin Tabs
    BY PanelAssumption
  <2> QED  BY <2>1, PanelStep
<1>3. PanelInv => PanelTellsTheSite
  BY PanelTells
<1> QED  BY <1>1, <1>2, <1>3, PTL DEF PanelSpec
=============================================================================
