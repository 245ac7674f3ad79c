------------------------------ MODULE Accounts ------------------------------
(* Accounts, sessions and e-mail confirmation: lib/auth.ts, lib/passkeys.ts, *)
(* lib/email-verification.ts and the routes under app/api/auth.  An account  *)
(* is made with a password or with a passkey.  A passkey ceremony takes two  *)
(* calls and lives in a cookie, which all the tabs of a browser share.       *)
(* A confirmation link replaces the links made before it; three separate     *)
(* database calls and a mail lie between the request and its answer.         *)
(*                                                                           *)
(* Left out: the end of a session after thirty days, and the cryptography    *)
(* of tokens and signatures: a tab that answers does so for its own          *)
(* challenge, and passkeys and passwords are those of the account.           *)
EXTENDS Naturals

CONSTANTS Tabs, Browsers, BrowserOf,  \* BrowserOf[t]: whose cookies tab t has
          Emails,                     \* normalised addresses: one account each
          ResendDelay,                \* resendDelayMs
          LinkLife,                   \* tokenLifetimeMs
          CeremonyLife,               \* CEREMONY_SECONDS
          MaxSteps,                   \* bound on what the visitors do
          MaxClock,                   \* bound on the clock
          Nothing

ASSUME AccountsAssumption == BrowserOf \in [Tabs -> Browsers]

VARIABLES user,        \* how the account of an address was made, or Nothing
          verified,    \* addresses with emailVerifiedAt
          session,     \* whom the session cookie of a browser signs in
          ceremony,    \* the passkey cookie of a browser
          step,        \* what a tab waits for
          links,       \* EmailVerificationToken
          newest,      \* the last link made for an address
          mailed,      \* links that reached the mailbox
          promised,    \* links answered with "sent: true"
          clock, steps

accountsVars == <<user, verified, session, ceremony, step, links, newest, mailed,
          promised, clock, steps>>
linkVars == <<links, newest, mailed, promised>>

Idle == [at |-> "idle", email |-> Nothing]
Waiting(at, e, n) == [at |-> at, email |-> e, n |-> n]

AccountsInit ==
    /\ user = [e \in Emails |-> Nothing]
    /\ verified = {}
    /\ session = [b \in Browsers |-> Nothing]
    /\ ceremony = [b \in Browsers |-> Nothing]
    /\ step = [t \in Tabs |-> Idle]
    /\ links = {}
    /\ newest = [e \in Emails |-> 0]
    /\ mailed = {}
    /\ promised = {}
    /\ clock = 0
    /\ steps = 0

(* A visitor does something in a tab that waits for nothing. *)
Visit(t) == step[t] = Idle /\ steps < MaxSteps /\ steps' = steps + 1

(* createSession after the credentials were accepted.  Its row may fail to   *)
(* be written: the account then exists and the visitor is told it does not.  *)
SignedIn(t, e) == session' \in {session, [session EXCEPT ![BrowserOf[t]] = e]}

(* --- Password ----------------------------------------------------------- *)

(* POST register reads whether the address is free, then hashes. *)
Register(t, e) ==
    /\ Visit(t)
    /\ user[e] = Nothing
    /\ step' = [step EXCEPT ![t] = Waiting("registering", e, steps)]
    /\ UNCHANGED <<user, verified, session, ceremony, linkVars, clock>>

(* The insert: the address is unique, a taken one fails the request. *)
Create(t) ==
    /\ step[t].at = "registering"
    /\ step' = [step EXCEPT ![t] = Idle]
    /\ \/ /\ user[step[t].email] = Nothing
          /\ user' = [user EXCEPT ![step[t].email] = "password"]
          /\ SignedIn(t, step[t].email)
       \/ /\ user[step[t].email] # Nothing
          /\ UNCHANGED <<user, session>>
    /\ UNCHANGED <<verified, ceremony, linkVars, clock, steps>>

Login(t, e) ==
    /\ Visit(t)
    /\ user[e] = "password"
    /\ SignedIn(t, e)
    /\ UNCHANGED <<user, verified, ceremony, step, linkVars, clock>>

Logout(t) ==
    /\ Visit(t)
    /\ session[BrowserOf[t]] # Nothing
    /\ session' = [session EXCEPT ![BrowserOf[t]] = Nothing]
    /\ UNCHANGED <<user, verified, ceremony, step, linkVars, clock>>

(* --- Passkeys ----------------------------------------------------------- *)

(* setPasskeyCeremony: the challenge, the address and the end of the         *)
(* ceremony, in the cookie of the browser.                                   *)
Begin(t, kind, e) ==
    /\ Visit(t)
    /\ ceremony' = [ceremony EXCEPT ![BrowserOf[t]] =
           [kind |-> kind, email |-> e, challenge |-> steps,
            expires |-> clock + CeremonyLife]]
    /\ step' = [step EXCEPT ![t] = Waiting(kind, e, steps)]
    /\ UNCHANGED <<user, verified, session, linkVars, clock>>

RegisterOptions(t, e) == user[e] = Nothing /\ Begin(t, "registration", e)
LoginOptions(t) == Begin(t, "authentication", Nothing)

(* Mutant: the challenge of the answer is not compared. *)
GenuineMutant(t, c) ==
    /\ c # Nothing
    /\ c.kind = step[t].at
    /\ c.expires > clock

(* consumePasskeyCeremony, and the challenge the signature must hold. *)
Genuine(t, c) ==
    /\ c # Nothing
    /\ c.kind = step[t].at
    /\ c.expires > clock
    /\ c.challenge = step[t].n

(* Both verify routes delete the cookie first, whatever comes of it. *)
Consume(t) ==
    /\ ceremony' = [ceremony EXCEPT ![BrowserOf[t]] = Nothing]
    /\ step' = [step EXCEPT ![t] = Idle]
    /\ UNCHANGED <<verified, linkVars, clock, steps>>

(* register/verify: the account and its passkey in one transaction, for the  *)
(* address of the cookie.                                                    *)
RegisterVerify(t) ==
    LET c == ceremony[BrowserOf[t]] IN
    /\ step[t].at = "registration"
    /\ Consume(t)
    /\ \/ /\ Genuine(t, c)
          /\ user[c.email] = Nothing
          /\ user' = [user EXCEPT ![c.email] = "passkey"]
          /\ SignedIn(t, c.email)
       \/ UNCHANGED <<user, session>>   \* refused, expired or taken

LoginVerify(t) ==
    /\ step[t].at = "authentication"
    /\ Consume(t)
    /\ UNCHANGED user
    /\ \/ /\ Genuine(t, ceremony[BrowserOf[t]])
          /\ \E e \in Emails : user[e] = "passkey" /\ SignedIn(t, e)
       \/ UNCHANGED session

(* --- The confirmation of the address ------------------------------------ *)

LinksOf(e) == {l \in links : l.email = e}

(* POST request: the signed-in visitor, not verified, and no link made       *)
(* within the delay.  The links are read outside the transaction.            *)
RequestLink(t) ==
    LET e == session[BrowserOf[t]] IN
    /\ Visit(t)
    /\ e # Nothing
    /\ e \notin verified
    /\ \A l \in LinksOf(e) : clock - l.created >= ResendDelay
    /\ step' = [step EXCEPT ![t] = Waiting("requested", e, steps)]
    /\ UNCHANGED <<user, verified, session, ceremony, linkVars, clock>>

(* The transaction of createEmailVerification. *)
MakeLink(t) ==
    LET e == step[t].email
        l == [email |-> e, id |-> newest[e] + 1, created |-> clock,
              expires |-> clock + LinkLife]
    IN
    /\ step[t].at = "requested"
    /\ links' = (links \ LinksOf(e)) \cup {l}
    /\ newest' = [newest EXCEPT ![e] = l.id]
    /\ step' = [step EXCEPT ![t] = [at |-> "sending", email |-> e, link |-> l]]
    /\ UNCHANGED <<user, verified, session, ceremony, mailed, promised,
                   clock, steps>>

(* request/route.ts:15 after a failed sending. *)
Withdrawn(l) == links \ {l}

(* sendEmailVerification: the provider accepts, or the call fails before or  *)
(* after the provider took the mail.                                         *)
Send(t) ==
    LET l == step[t].link IN
    /\ step[t].at = "sending"
    /\ step' = [step EXCEPT ![t] = Idle]
    /\ \/ /\ mailed' = mailed \cup {l}
          /\ promised' = promised \cup {l}
          /\ UNCHANGED links
       \/ /\ mailed' \in {mailed, mailed \cup {l}}
          /\ links' = Withdrawn(l)
          /\ UNCHANGED promised
    /\ UNCHANGED <<user, verified, session, ceremony, newest, clock, steps>>

(* GET confirm, with any link from the mailbox. *)
Confirm(l) ==
    /\ steps < MaxSteps
    /\ steps' = steps + 1
    /\ l \in links
    /\ l.expires > clock
    /\ verified' = verified \cup {l.email}
    /\ links' = links \ LinksOf(l.email)
    /\ UNCHANGED <<user, session, ceremony, step, newest, mailed, promised,
                   clock>>

Tick ==
    /\ clock < MaxClock
    /\ clock' = clock + 1
    /\ UNCHANGED <<user, verified, session, ceremony, step, linkVars, steps>>

AccountsNext ==
    \/ \E t \in Tabs :
          \/ \E e \in Emails : \/ Register(t, e)
                               \/ Login(t, e)
                               \/ RegisterOptions(t, e)
          \/ Create(t)
          \/ Logout(t)
          \/ LoginOptions(t)
          \/ RegisterVerify(t)
          \/ LoginVerify(t)
          \/ RequestLink(t)
          \/ MakeLink(t)
          \/ Send(t)
    \/ \E l \in mailed : Confirm(l)
    \/ Tick

AccountsSpec == AccountsInit /\ [][AccountsNext]_accountsVars

(* ---- Properties -------------------------------------------------------- *)

(* An account is opened once, and by the tab in which its address was        *)
(* entered, however many tabs of the browser have a ceremony open and        *)
(* whichever way of registering comes first; only that tab's browser may be  *)
(* signed in with it.                                                        *)
OpenedOnce == [][
    \A e \in Emails : user'[e] # user[e] =>
        /\ user[e] = Nothing
        /\ \E t \in Tabs :
              /\ step[t].at \in {"registering", "registration"}
              /\ step[t].email = e
              /\ step'[t] = Idle
              /\ \A b \in Browsers \ {BrowserOf[t]} : session'[b] = session[b]]_accountsVars

(* The newest link that was answered with "sent" works until it expires or   *)
(* the address is verified: requests that overlap, and a sending that fails, *)
(* withdraw no link but their own or an older one.                           *)
LinkKept ==
    \A l \in promised :
        l.id = newest[l.email] /\ l.expires > clock /\ l.email \notin verified
            => l \in links

(* Accounts are opened once, by who entered the address, and the newest link *)
(* that was sent works until it expires (register, passkey and               *)
(* email-verification routes).                                               *)
AccountsHonoured == OpenedOnce /\ []LinkKept
=============================================================================
