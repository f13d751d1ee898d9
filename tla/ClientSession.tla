---------------------------- MODULE ClientSession ----------------------------
(***************************************************************************)
(* The session of the web client: auth/AuthContext.tsx, the gate of        *)
(* App.tsx, pages/LoginPage.tsx and the 401 branch of fetchJSON in         *)
(* api/client.ts.                                                          *)
(*                                                                         *)
(* A session is a number; 0 is no cookie.  The browser keeps the cookie    *)
(* and a cached copy of the user between page loads; the tab keeps user    *)
(* and loading.  The server forgets a session when it is revoked or        *)
(* expires.                                                                *)
(***************************************************************************)
EXTENDS Naturals

CONSTANTS User, NoUser,
          MaxSessions      \* sessions the server opens (a bound)

ASSUME SesAssumption == NoUser \notin User /\ User # {} /\ MaxSessions \in Nat \ {0}

VARIABLE ses

Session == 1..MaxSessions

(* An earlier life of the browser, or another tab, has left a cookie and a *)
(* cached user behind; they need not belong together. *)
SesStart(cache, cookie, live, u) ==
    [user |-> cache, loading |-> TRUE, cache |-> cache, me |-> TRUE,
     busy |-> NoUser, out |-> {}, calls |-> {},
     cookie |-> cookie, live |-> live, opened |-> 1,
     owner |-> [s \in Session |-> IF s = 1 THEN u ELSE NoUser]]
SesInit ==
    \E cache \in User \cup {NoUser}, cookie \in {0, 1}, live \in SUBSET {1}, u \in User :
        ses = SesStart(cache, cookie, live, u)

(* What AppContent renders: the spinner while loading, then the login page *)
(* without a user and the pages with one. *)
LoginShown(c) == ~c.loading /\ c.user = NoUser
PagesShown(c) == ~c.loading /\ c.user # NoUser

Valid(c) == c.cookie \in c.live

(* user and its cached copy are set together. *)
SetUser(c, u) == [c EXCEPT !.user = u, !.cache = u]

-----------------------------------------------------------------------------
(* The answer of /auth/me ends loading: the user of the cookie, or nobody  *)
(* when the session is not valid or the request fails. *)
MeUser_cached(c) == IF c.cache # NoUser THEN c.cache ELSE c.owner[c.cookie]   \* fault
MeUser(c) == c.owner[c.cookie]
MeAnswered ==
    /\ ses.me
    /\ \/ Valid(ses) /\ ses' = [SetUser(ses, MeUser(ses)) EXCEPT !.me = FALSE, !.loading = FALSE]
       \/ ses' = [SetUser(ses, NoUser) EXCEPT !.me = FALSE, !.loading = FALSE]

(* handleSubmit, with login or register alike. *)
Submit(u) ==
    /\ LoginShown(ses) /\ ses.busy = NoUser
    /\ ses' = [ses EXCEPT !.busy = u]

(* The server opens a session for the user who submitted. *)
Opened_noOwner(c) ==   \* fault
    [c EXCEPT !.opened = @ + 1, !.live = @ \cup {c.opened + 1}, !.busy = NoUser]
Opened(c) ==
    [c EXCEPT !.opened = @ + 1, !.live = @ \cup {c.opened + 1}, !.busy = NoUser,
              !.owner = [@ EXCEPT ![c.opened + 1] = c.busy]]

(* The server opens a session and its answer sets the cookie; a refusal or *)
(* a lost answer leaves the page with an error. *)
LoginAnswered ==
    /\ ses.busy # NoUser /\ ses.opened < MaxSessions
    /\ \/ ses' = [SetUser(Opened(ses), ses.busy) EXCEPT !.cookie = ses.opened + 1]
       \/ ses' = Opened(ses)

LoginRefused ==
    /\ ses.busy # NoUser
    /\ ses' = [ses EXCEPT !.busy = NoUser]

(* logout revokes the session of its request; its answer clears the        *)
(* cookie.  Whether or not it is answered, the local state is cleared. *)
Logout ==
    /\ PagesShown(ses)
    /\ ses' = [ses EXCEPT !.out = @ \cup {ses.cookie}]

Revoke(s) ==
    /\ s \in ses.out
    /\ ses' = [ses EXCEPT !.live = @ \ {s}]

LoggedOut(s) ==
    /\ s \in ses.out
    /\ \E cookie \in {0, ses.cookie} :
         ses' = [SetUser(ses, NoUser) EXCEPT !.out = @ \ {s}, !.cookie = cookie]

(* A page calls the API with the cookie there is; an answer 401 clears the *)
(* cached user and dispatches auth:session-expired, whichever session the  *)
(* call was made in. *)
Call ==
    /\ PagesShown(ses)
    /\ ses' = [ses EXCEPT !.calls = @ \cup {ses.cookie}]

CallAnswered(s) ==
    /\ s \in ses.calls
    /\ ses' = [ses EXCEPT !.calls = @ \ {s}]

CallExpired(s) ==
    /\ s \in ses.calls /\ s \notin ses.live
    /\ ses' = [SetUser(ses, NoUser) EXCEPT !.calls = @ \ {s}]

(* The server forgets a session on its own: it expires, or the user signs  *)
(* out on another device. *)
Expire(s) ==
    /\ s \in ses.live
    /\ ses' = [ses EXCEPT !.live = @ \ {s}]

(* The page is reloaded: the component starts again from what the browser  *)
(* keeps. *)
Reload ==
    /\ ses' = [ses EXCEPT !.user = ses.cache, !.loading = TRUE, !.me = TRUE,
                          !.busy = NoUser, !.out = {}, !.calls = {}]

SesNext ==
    \/ MeAnswered \/ LoginAnswered \/ LoginRefused \/ Logout \/ Call \/ Reload
    \/ \E u \in User : Submit(u)
    \/ \E s \in Session \cup {0} :
         Revoke(s) \/ LoggedOut(s) \/ CallAnswered(s) \/ CallExpired(s) \/ Expire(s)

SesSpec == SesInit /\ [][SesNext]_ses

-----------------------------------------------------------------------------
(* The fields have their types; sessions are opened one after the other    *)
(* and only opened ones are anyone's. *)
SesTypeOK ==
    /\ ses.user \in User \cup {NoUser} /\ ses.cache \in User \cup {NoUser}
    /\ ses.busy \in User \cup {NoUser}
    /\ ses.cookie \in 0..ses.opened /\ ses.live \subseteq 1..ses.opened
    /\ ses.opened \in Session
    /\ ses.owner \in [Session -> User \cup {NoUser}]
    /\ \A s \in 1..ses.opened : ses.owner[s] \in User

(* The pages are never shown under the name of one user while the requests *)
(* carry the cookie of another, although the cached user is taken over on  *)
(* trust (/auth/me is awaited behind the spinner). *)
SesShowsOwner ==
    (PagesShown(ses) /\ ses.cookie # 0) => ses.owner[ses.cookie] = ses.user
=============================================================================
