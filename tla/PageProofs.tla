----------------------------- MODULE PageProofs -----------------------------
(***************************************************************************)
(* Invariance proofs for the session and the pages of the web client that  *)
(* have no module of proofs of their own, for every value of the           *)
(* constants.  A page's invariant is stated as what its start has and what *)
(* each of its steps keeps; ClientProofs puts them together.               *)
(***************************************************************************)
EXTENDS ClientSession, AccountsPage, DataPage, OverviewPages, Sums

-----------------------------------------------------------------------------
(* The session.  Its type invariant speaks of some fields; the shape names *)
(* them all. *)
Formed(c) ==
    /\ c \in [user : User \cup {NoUser}, loading : BOOLEAN, cache : User \cup {NoUser},
              me : BOOLEAN, busy : User \cup {NoUser}, out : SUBSET (Session \cup {0}),
              calls : SUBSET (Session \cup {0}), cookie : Session \cup {0},
              live : SUBSET Session, opened : Session,
              owner : [Session -> User \cup {NoUser}]]
    /\ c.cookie <= c.opened
    /\ \A s \in c.live : s <= c.opened
    /\ \A s \in Session : s <= c.opened => c.owner[s] \in User
SesShape == Formed(ses)

LEMMA SessionsAreNat ==
    /\ \A s \in Session : s \in Nat /\ s >= 1
    /\ NoUser \notin User /\ 1 \in Session
BY SesAssumption DEF Session

LEMMA StartFormed ==
    ASSUME NEW cache \in User \cup {NoUser}, NEW cookie \in {0, 1},
           NEW live \in SUBSET {1}, NEW u \in User
    PROVE  /\ Formed(SesStart(cache, cookie, live, u))
           /\ SesStart(cache, cookie, live, u).loading
BY SessionsAreNat DEF SesStart, Formed

LEMMA InitShape == SesInit => SesShape
BY StartFormed DEF SesInit, SesShape

LEMMA SetUserFormed ==
    ASSUME NEW c, Formed(c), NEW u \in User \cup {NoUser}
    PROVE  Formed(SetUser(c, u)) /\ SetUser(c, u).opened = c.opened
BY DEF Formed, SetUser

(* A session that is opened is the next number and belongs to the user who *)
(* submitted. *)
LEMMA OpenedFormed ==
    ASSUME NEW c, Formed(c), c.busy # NoUser, c.opened < MaxSessions
    PROVE  /\ Formed(Opened(c))
           /\ Opened(c).opened = c.opened + 1
           /\ Opened(c).owner[c.opened + 1] = c.busy
<1>1. c.opened \in Nat /\ c.opened + 1 \in Session
  BY SesAssumption DEF Formed, Session
<1>2. c.busy \in User
  BY DEF Formed
<1> DEFINE n == c.opened + 1
           owner == [c.owner EXCEPT ![n] = c.busy]
<1>3. owner \in [Session -> User \cup {NoUser}] /\ owner[n] = c.busy
  BY <1>1, <1>2 DEF Formed
<1>4. \A s \in Session : s <= n => owner[s] \in User
  BY <1>1, <1>2, SessionsAreNat DEF Formed
<1>5. \A s \in c.live \cup {n} : s <= n
  BY <1>1, SessionsAreNat DEF Formed
<1>6. c.live \cup {n} \in SUBSET Session
  BY <1>1 DEF Formed
<1>7. c.cookie <= n
  <2>1. c.cookie \in Session \cup {0} /\ c.cookie <= c.opened
    BY DEF Formed
  <2>2. c.cookie \in Nat
    BY <2>1, SessionsAreNat
  <2>3. QED
    BY <1>1, <2>1, <2>2
<1>8. Opened(c) = [c EXCEPT !.opened = n, !.live = c.live \cup {n}, !.busy = NoUser,
                            !.owner = owner]
  BY DEF Opened, Formed
<1> HIDE DEF owner, n
<1>9. QED
  BY <1>1, <1>3, <1>4, <1>5, <1>6, <1>7, <1>8 DEF Formed, n

LEMMA CookieFormed ==
    ASSUME NEW c, Formed(c)
    PROVE  Formed([c EXCEPT !.cookie = c.opened])
BY SessionsAreNat DEF Formed

LEMMA LoginShape == SesShape /\ LoginAnswered => SesShape'
<1> SUFFICES ASSUME SesShape, LoginAnswered PROVE Formed(ses')
  BY DEF SesShape
<1>1. /\ Formed(ses) /\ ses.busy \in User /\ ses.busy # NoUser
      /\ ses.opened < MaxSessions
  BY DEF SesShape, Formed, LoginAnswered
<1>2. Formed(Opened(ses)) /\ Opened(ses).opened = ses.opened + 1
  BY <1>1, OpenedFormed
<1> DEFINE c == SetUser(Opened(ses), ses.busy)
<1>3. Formed(c) /\ c.opened = ses.opened + 1
  BY <1>1, <1>2, SetUserFormed
<1>4. Formed([c EXCEPT !.cookie = c.opened])
  BY <1>3, CookieFormed
<1>5. ses' = Opened(ses) \/ ses' = [c EXCEPT !.cookie = c.opened]
  BY <1>3 DEF LoginAnswered
<1>6. QED
  BY <1>2, <1>4, <1>5

LEMMA MeShape == SesShape /\ MeAnswered => SesShape'
<1> SUFFICES ASSUME SesShape, MeAnswered PROVE Formed(ses')
  BY DEF SesShape
<1>1. Formed(ses)
  BY DEF SesShape
<1>2. Valid(ses) => MeUser(ses) \in User \cup {NoUser}
  BY <1>1 DEF Valid, MeUser, Formed
<1>3. PICK u \in User \cup {NoUser} :
          ses' = [SetUser(ses, u) EXCEPT !.me = FALSE, !.loading = FALSE]
  BY <1>2 DEF MeAnswered
<1> DEFINE c == SetUser(ses, u)
<1>4. Formed(c)
  BY <1>1, SetUserFormed
<1> HIDE DEF c
<1>5. Formed([c EXCEPT !.me = FALSE, !.loading = FALSE])
  BY <1>4 DEF Formed
<1>6. QED
  BY <1>3, <1>5 DEF c

LEMMA StepShape == SesShape /\ [SesNext]_ses => SesShape'
<1> SUFFICES ASSUME SesShape, [SesNext]_ses PROVE SesShape'
  OBVIOUS
<1> USE SessionsAreNat DEF SesShape, Formed
<1>1. CASE LoginRefused
  BY <1>1 DEF LoginRefused
<1>2. CASE Logout \/ Call
  BY <1>2 DEF Logout, Call
<1>3. CASE Reload
  BY <1>3 DEF Reload
<1>4. CASE \E u \in User : Submit(u)
  BY <1>4 DEF Submit
<1>5. ASSUME NEW s \in Session \cup {0}, Revoke(s) \/ Expire(s)
      PROVE  SesShape'
  BY <1>5 DEF Revoke, Expire
<1>6. ASSUME NEW s \in Session \cup {0}, CallAnswered(s)
      PROVE  SesShape'
  BY <1>6 DEF CallAnswered
<1>7. ASSUME NEW s \in Session \cup {0}, CallExpired(s)
      PROVE  SesShape'
  <2> DEFINE c == SetUser(ses, NoUser)
  <2>1. Formed(c)
    BY SetUserFormed
  <2>2. ses' = [c EXCEPT !.calls = @ \ {s}]
    BY <1>7 DEF CallExpired
  <2> HIDE DEF c
  <2>3. QED
    BY <2>1, <2>2
<1>8. ASSUME NEW s \in Session \cup {0}, LoggedOut(s)
      PROVE  SesShape'
  <2> DEFINE c == SetUser(ses, NoUser)
  <2>1. Formed(c)
    BY SetUserFormed
  <2>2. c.cookie = ses.cookie
    BY DEF SetUser
  <2>3. 0 <= c.opened
    BY <2>1
  <2>4. PICK cookie \in {0, ses.cookie} :
            ses' = [c EXCEPT !.out = @ \ {s}, !.cookie = cookie]
    BY <1>8 DEF LoggedOut
  <2> HIDE DEF c
  <2>5. QED
    BY <2>1, <2>2, <2>3, <2>4
<1>9. CASE UNCHANGED ses
  BY <1>9
<1>10. QED
  BY <1>1, <1>2, <1>3, <1>4, <1>5, <1>6, <1>7, <1>8, <1>9, LoginShape, MeShape
  DEF SesNext

(* The invariant that carries the two results below. *)
THEOREM ShapeAlways == SesSpec => []SesShape
BY InitShape, StepShape, PTL DEF SesSpec

(* The type invariant, whatever the browser kept and whatever the order of *)
(* logins, logouts and late answers: only opened sessions are live or in   *)
(* the cookie, and each is somebody's. *)
THEOREM SessionTypes == SesSpec => []SesTypeOK
<1>1. SesShape => SesTypeOK
  BY SesAssumption DEF SesShape, Formed, SesTypeOK, Session
<1>2. QED
  BY <1>1, ShapeAlways, PTL

-----------------------------------------------------------------------------
LEMMA OwnerStep ==
    ASSUME SesShape, SesShowsOwner, [SesNext]_ses
    PROVE  SesShowsOwner'
<1> USE SessionsAreNat DEF SesShape, Formed, SesShowsOwner, PagesShown
<1>1. CASE LoginRefused \/ Logout \/ Call \/ Reload \/ UNCHANGED ses
  BY <1>1 DEF LoginRefused, Logout, Call, Reload
<1>2. CASE \E u \in User : Submit(u)
  BY <1>2 DEF Submit
<1>3. ASSUME NEW s \in Session \cup {0},
             Revoke(s) \/ LoggedOut(s) \/ CallAnswered(s) \/ CallExpired(s) \/ Expire(s)
      PROVE  SesShowsOwner'
  BY <1>3 DEF Revoke, LoggedOut, CallAnswered, CallExpired, Expire, SetUser
<1>4. CASE MeAnswered
  <2>1. ASSUME NEW u \in User \cup {NoUser},
               ses' = [SetUser(ses, u) EXCEPT !.me = FALSE, !.loading = FALSE]
        PROVE  ses'.user = u /\ ses'.cookie = ses.cookie /\ ses'.owner = ses.owner
    BY <2>1 DEF SetUser
  <2>2. CASE Valid(ses)
    <3>1. ses.owner[ses.cookie] \in User \cup {NoUser}
      BY <2>2 DEF Valid
    <3>2. QED
      BY <1>4, <2>1, <3>1 DEF MeAnswered, MeUser
  <2>3. CASE ~Valid(ses)
    BY <1>4, <2>1, <2>3 DEF MeAnswered
  <2>4. QED
    BY <2>2, <2>3
<1>5. CASE LoginAnswered
  <2>1. ses.busy # NoUser /\ ses.opened < MaxSessions /\ ses.opened \in Nat
    BY <1>5 DEF LoginAnswered
  <2>2. Opened(ses).owner[ses.opened + 1] = ses.busy
    BY <2>1, OpenedFormed
  <2>3. CASE ses' = Opened(ses)
    BY <2>1, <2>3 DEF Opened
  <2>4. CASE ses' = [SetUser(Opened(ses), ses.busy) EXCEPT !.cookie = ses.opened + 1]
    BY <2>1, <2>2, <2>4 DEF Opened, SetUser
  <2>5. QED
    BY <1>5, <2>3, <2>4 DEF LoginAnswered
<1>6. QED
  BY <1>1, <1>2, <1>3, <1>4, <1>5 DEF SesNext

(* The pages are shown under the name of the cookie's user (the gate of    *)
(* App.tsx over AuthContext): the cached user is shown only behind the     *)
(* spinner, and what ends it or a login replaces user and cookie together. *)
THEOREM PagesOfOwner == SesSpec => []SesShowsOwner
<1>1. SesInit => SesShowsOwner
  BY DEF SesInit, SesStart, SesShowsOwner, PagesShown
<1>2. SesShape /\ SesShowsOwner /\ [SesNext]_ses => SesShowsOwner'
  BY OwnerStep
<1>3. QED
  BY <1>1, <1>2, ShapeAlways, PTL DEF SesSpec
-----------------------------------------------------------------------------
(* The list of transactions.  While no load overlapped another request and *)
(* no answer was lost, a load is under way only behind the spinner, where  *)
(* nothing can be written; so what it read is still there when it comes. *)
TxnRequest == [out : BOOLEAN, run : BOOLEAN, list : SUBSET Entry]
Modal == [new : BOOLEAN, edit : Entry \cup {NoEntry}, copy : Entry \cup {NoEntry}]
TxnState ==
    [list : SUBSET Entry, loading : BOOLEAN, modal : Modal, calm : BOOLEAN,
     load : [TxnLoad -> TxnRequest], delete : [Entry -> {"no", "sent", "run", "refused"}],
     save : {"no", "edit", "new", "run"}, of : Entry \cup {NoEntry}, book : SUBSET Entry,
     day : [Entry -> TxnDay], used : SUBSET Entry]
TxnTrue(m) ==
    /\ \A j, k \in TxnLoad : m.load[j].out /\ m.load[k].out => j = k
    /\ \A k \in TxnLoad : m.load[k].out => m.loading /\ ~TxnWrites(m)
    /\ \A k \in TxnLoad : m.load[k].run => m.load[k].list \in Newest(m.book, m.day)
    /\ ~m.loading /\ ~TxnWrites(m) => m.list \in Newest(m.book, m.day)
TxnGood(m) ==
    /\ m \in TxnState
    /\ \A k \in TxnLoad : m.load[k].run => m.load[k].out
    /\ m.calm => TxnTrue(m)
TxnInv == TxnGood(txn)

LEMMA TxnStartGood == TxnGood(TxnStart)
BY OverviewAssumption
DEF TxnGood, TxnTrue, TxnStart, TxnState, TxnRequest, Modal, NoModal, NoTxnLoad, TxnWrites

LEMMA NewestListed ==
    \A book \in SUBSET Entry : \A day : \A S \in Newest(book, day) : S \in SUBSET Entry
BY DEF Newest

(* loadData: the new load is alone, or the page is not calm any more. *)
LEMMA ReloadingGood ==
    ASSUME NEW m, m \in TxnState, FreeTxnLoad(m) # {},
           \A k \in TxnLoad : m.load[k].run => m.load[k].out
    PROVE  TxnGood(Reloading(m))
<1>1. PICK k \in FreeTxnLoad(m) : k = CHOOSE l \in FreeTxnLoad(m) : TRUE
  OBVIOUS
<1>2. k \in TxnLoad
  BY DEF FreeTxnLoad
<1>3. PICK calm \in BOOLEAN : calm <=> (m.calm /\ ~TxnWrites(m) /\ FreeTxnLoad(m) = TxnLoad)
  OBVIOUS
<1>4. PICK sent : sent = [NoTxnLoad EXCEPT !.out = TRUE]
  OBVIOUS
<1>5. PICK load : load = [m.load EXCEPT ![k] = sent]
  OBVIOUS
<1>6. sent \in TxnRequest /\ sent.out /\ ~sent.run
  BY <1>4 DEF NoTxnLoad, TxnRequest
<1>7. /\ load \in [TxnLoad -> TxnRequest]
      /\ \A l \in TxnLoad : load[l] = IF l = k THEN sent ELSE m.load[l]
  BY <1>2, <1>5, <1>6 DEF TxnState
<1>8. PICK u : u = Reloading(m)
  OBVIOUS
<1>9. u = [m EXCEPT !.loading = TRUE, !.calm = calm, !.load = load]
  BY <1>1, <1>3, <1>4, <1>5, <1>8 DEF Reloading, TxnState
<1>10. /\ u \in TxnState /\ u.loading /\ u.load = load /\ u.calm = calm
       /\ u.delete = m.delete /\ u.save = m.save
  BY <1>7, <1>9 DEF TxnState
<1>11. \A l \in TxnLoad : u.load[l].run => u.load[l].out
  BY <1>6, <1>7, <1>10
<1>12. ASSUME u.calm
       PROVE  TxnTrue(u)
  <2>1. ~TxnWrites(u) /\ \A l \in TxnLoad : ~m.load[l].out
    BY <1>3, <1>10, <1>12 DEF TxnWrites, FreeTxnLoad
  <2>2. QED
    BY <1>6, <1>7, <1>10, <1>11, <2>1 DEF TxnTrue
<1>13. QED
  BY <1>8, <1>10, <1>11, <1>12 DEF TxnGood

LEMMA TxnLoadStep ==
    ASSUME TxnInv, NEW k \in TxnLoad, TxnRun(k) \/ TxnAnswered(k) \/ TxnFailed(k)
    PROVE  TxnInv'
<1> USE DEF TxnInv, TxnGood
<1>1. /\ txn \in TxnState /\ txn.load \in [TxnLoad -> TxnRequest]
      /\ \A l \in TxnLoad : txn.load[l] \in TxnRequest
      /\ NoTxnLoad \in TxnRequest /\ ~NoTxnLoad.run /\ ~NoTxnLoad.out
  BY DEF TxnState, TxnRequest, NoTxnLoad
<1>2. CASE TxnRun(k)
  <2>0. PICK list \in Newest(txn.book, txn.day) :
          txn' = [txn EXCEPT !.load[k].run = TRUE, !.load[k].list = list]
    BY <1>2 DEF TxnRun
  <2>0a. list \in SUBSET Entry
    BY <1>1, <2>0, NewestListed DEF TxnState
  <2>1. PICK q : q = [txn.load[k] EXCEPT !.run = TRUE, !.list = list]
    OBVIOUS
  <2>2. PICK load : load = [txn.load EXCEPT ![k] = q]
    OBVIOUS
  <2>3. q \in TxnRequest /\ q.out /\ q.run /\ q.list = list
    BY <1>1, <1>2, <2>0a, <2>1 DEF TxnRun, TxnRequest, TxnState
  <2>4. /\ load \in [TxnLoad -> TxnRequest]
        /\ \A l \in TxnLoad : load[l] = IF l = k THEN q ELSE txn.load[l]
    BY <1>1, <2>2, <2>3
  <2>5. txn' = [txn EXCEPT !.load = load]
    BY <1>1, <2>0, <2>1, <2>2 DEF TxnState, TxnRequest
  <2>6. /\ txn' \in TxnState /\ txn'.load = load /\ txn'.calm = txn.calm
        /\ txn'.loading = txn.loading /\ txn'.delete = txn.delete /\ txn'.save = txn.save
        /\ txn'.book = txn.book /\ txn'.day = txn.day /\ txn'.list = txn.list
    BY <1>1, <2>4, <2>5 DEF TxnState
  <2>7. TxnWrites(txn') <=> TxnWrites(txn)
    BY <2>6 DEF TxnWrites
  <2>8. txn.load[k].out /\ ~txn.load[k].run
    BY <1>2 DEF TxnRun
  <2>9. \A l \in TxnLoad : /\ txn'.load[l].out <=> txn.load[l].out
                           /\ txn'.load[l].run => txn'.load[l].out
    BY <2>3, <2>4, <2>6, <2>8
  <2>10. ASSUME txn'.calm
         PROVE  TxnTrue(txn')
    <3>1. TxnTrue(txn)
      BY <2>6, <2>10
    <3>2. \A l \in TxnLoad : txn'.load[l].run =>
                                txn'.load[l].list \in Newest(txn'.book, txn'.day)
      BY <2>0, <2>3, <2>4, <2>6, <3>1 DEF TxnTrue
    <3>3. QED
      BY <2>6, <2>7, <2>9, <3>1, <3>2 DEF TxnTrue
  <2>11. QED
    BY <2>6, <2>9, <2>10
<1>3. CASE TxnAnswered(k)
  <2>1. PICK load : load = [txn.load EXCEPT ![k] = NoTxnLoad]
    OBVIOUS
  <2>2. /\ load \in [TxnLoad -> TxnRequest]
        /\ \A l \in TxnLoad : load[l] = IF l = k THEN NoTxnLoad ELSE txn.load[l]
    BY <1>1, <2>1
  <2>3. PICK list \in SUBSET Entry : list = txn.load[k].list
    BY <1>1 DEF TxnRequest
  <2>4. txn' = [txn EXCEPT !.list = list, !.loading = FALSE, !.load = load]
    BY <1>1, <1>3, <2>1, <2>3 DEF TxnAnswered, TxnState
  <2>5. /\ txn' \in TxnState /\ txn'.load = load /\ txn'.calm = txn.calm
        /\ ~txn'.loading /\ txn'.delete = txn.delete /\ txn'.save = txn.save
        /\ txn'.book = txn.book /\ txn'.day = txn.day /\ txn'.list = list
    BY <1>1, <2>2, <2>4 DEF TxnState
  <2>6. QED
    BY <1>1, <1>3, <2>2, <2>3, <2>5 DEF TxnAnswered, TxnTrue, TxnWrites
<1>4. CASE TxnFailed(k)
  <2>1. PICK load : load = [txn.load EXCEPT ![k] = NoTxnLoad]
    OBVIOUS
  <2>2. /\ load \in [TxnLoad -> TxnRequest]
        /\ \A l \in TxnLoad : load[l] = IF l = k THEN NoTxnLoad ELSE txn.load[l]
    BY <1>1, <2>1
  <2>3. txn' = [txn EXCEPT !.calm = FALSE, !.loading = FALSE, !.load = load]
    BY <1>1, <1>4, <2>1 DEF TxnFailed, TxnState
  <2>4. txn' \in TxnState /\ txn'.load = load /\ ~txn'.calm
    BY <1>1, <2>2, <2>3 DEF TxnState
  <2>5. QED
    BY <1>1, <2>2, <2>4
<1>5. QED
  BY <1>2, <1>3, <1>4

(* A delete or a save is sent, runs or is given up.  While the spinner     *)
(* turns neither is sent, and one that is under way keeps the list apart   *)
(* from the books. *)
LEMMA TxnWriteStep ==
    ASSUME TxnInv, NEW u, txn' = u, u \in TxnState, u.load = txn.load,
           u.loading = txn.loading, u.calm => txn.calm, u.list = txn.list,
           \/ TxnWrites(u) /\ (TxnWrites(txn) \/ ~txn.loading)
           \/ /\ u.book = txn.book /\ u.day = txn.day
              /\ TxnWrites(u) <=> TxnWrites(txn)
           \/ ~u.calm
    PROVE  TxnInv'
<1>1. /\ txn'.load = txn.load /\ txn'.loading = txn.loading /\ txn'.calm => txn.calm
      /\ txn'.list = txn.list /\ txn' \in TxnState
  OBVIOUS
<1>2. ASSUME txn'.calm
      PROVE  TxnTrue(txn')
  <2>1. TxnTrue(txn) /\ \A k \in TxnLoad : txn.load[k].run => txn.load[k].out
    BY <1>2 DEF TxnInv, TxnGood
  <2>2. TxnWrites(u) <=> TxnWrites(txn')
    OBVIOUS
  <2>3. txn'.book = u.book /\ txn'.day = u.day /\ u.calm
    BY <1>2
  <2>4. CASE u.book = txn.book /\ u.day = txn.day /\ (TxnWrites(u) <=> TxnWrites(txn))
    BY <1>1, <2>1, <2>2, <2>3, <2>4 DEF TxnTrue
  <2>5. CASE TxnWrites(u) /\ (TxnWrites(txn) \/ ~txn.loading)
    BY <1>1, <2>1, <2>2, <2>5 DEF TxnTrue
  <2>6. QED
    BY <2>3, <2>4, <2>5
<1>3. QED
  BY <1>1, <1>2 DEF TxnInv, TxnGood
LEMMA TxnWritesSent ==
    ASSUME TxnInv,
           \/ \E t \in Entry : TxnDelete(t) \/ TxnRunDelete(t) \/ TxnDeleteFailed(t)
           \/ TxnFormSent \/ TxnFormRuns \/ TxnFormFailed
    PROVE  TxnInv'
<1>0. txn \in TxnState /\ txn.delete \in [Entry -> {"no", "sent", "run", "refused"}]
  BY DEF TxnInv, TxnGood, TxnState
<1>1. ASSUME NEW t \in Entry, NEW how \in {"sent", "run", "refused"}, NEW book \in SUBSET Entry,
             txn' = [txn EXCEPT !.delete[t] = how, !.book = book],
             TxnWrites(txn) \/ ~txn.loading
      PROVE  TxnInv'
  <2>1. PICK delete : delete = [txn.delete EXCEPT ![t] = how]
    OBVIOUS
  <2>2. delete \in [Entry -> {"no", "sent", "run", "refused"}] /\ delete[t] # "no"
    BY <1>0, <2>1
  <2>3. PICK u : u = [txn EXCEPT !.delete = delete, !.book = book]
    OBVIOUS
  <2>4. txn' = u
    BY <1>0, <1>1, <2>1, <2>3 DEF TxnState
  <2>5. /\ u \in TxnState /\ u.load = txn.load /\ u.loading = txn.loading
        /\ u.calm = txn.calm /\ u.list = txn.list /\ u.delete = delete
    BY <1>0, <2>2, <2>3 DEF TxnState
  <2>6. TxnWrites(u)
    BY <2>2, <2>5 DEF TxnWrites
  <2>7. QED
    BY <1>1, <2>4, <2>5, <2>6, TxnWriteStep
<1>2. ASSUME NEW save \in {"edit", "new", "run"}, NEW book \in SUBSET Entry,
             NEW used \in SUBSET Entry, NEW of \in Entry \cup {NoEntry},
             NEW day \in [Entry -> TxnDay],
             txn' = [txn EXCEPT !.save = save, !.book = book, !.used = used, !.of = of,
                                !.day = day],
             TxnWrites(txn) \/ ~txn.loading
      PROVE  TxnInv'
  <2>1. PICK u : u = [txn EXCEPT !.save = save, !.book = book, !.used = used, !.of = of,
                                 !.day = day]
    OBVIOUS
  <2>2. /\ u \in TxnState /\ u.load = txn.load /\ u.loading = txn.loading
        /\ u.calm = txn.calm /\ u.list = txn.list /\ u.save = save
    BY <1>0, <2>1 DEF TxnState
  <2>3. TxnWrites(u)
    BY <2>2 DEF TxnWrites
  <2>4. QED
    BY <1>2, <2>1, <2>2, <2>3, TxnWriteStep
<1>3. ASSUME NEW delete \in [Entry -> {"no", "sent", "run", "refused"}],
             NEW save \in {"no", "edit", "new", "run"},
             txn' = [txn EXCEPT !.delete = delete, !.save = save, !.calm = FALSE]
      PROVE  TxnInv'
  <2>1. PICK u : u = [txn EXCEPT !.delete = delete, !.save = save, !.calm = FALSE]
    OBVIOUS
  <2>2. /\ u \in TxnState /\ u.load = txn.load /\ u.loading = txn.loading
        /\ ~u.calm /\ u.list = txn.list
    BY <1>0, <2>1 DEF TxnState
  <2>3. QED
    BY <1>3, <2>1, <2>2, TxnWriteStep
<1>4. ASSUME NEW t \in Entry, TxnDelete(t)
      PROVE  TxnInv'
  <2>1. txn' = [txn EXCEPT !.delete[t] = "sent", !.book = txn.book] /\ ~txn.loading
    BY <1>0, <1>4 DEF TxnDelete, TxnState
  <2>2. txn.book \in SUBSET Entry
    BY <1>0 DEF TxnState
  <2>3. QED
    BY <1>1, <2>1, <2>2
<1>5. ASSUME NEW t \in Entry, TxnRunDelete(t)
      PROVE  TxnInv'
  <2>1. PICK how \in {"run", "refused"}, book \in SUBSET Entry :
          txn' = [txn EXCEPT !.delete[t] = how, !.book = book]
    BY <1>0, <1>5 DEF TxnRunDelete, TxnState
  <2>2. TxnWrites(txn)
    BY <1>5 DEF TxnRunDelete, TxnWrites
  <2>3. QED
    BY <1>1, <2>1, <2>2
<1>6. ASSUME NEW t \in Entry, TxnDeleteFailed(t)
      PROVE  TxnInv'
  <2>1. PICK delete : delete = [txn.delete EXCEPT ![t] = "no"]
    OBVIOUS
  <2>2. delete \in [Entry -> {"no", "sent", "run", "refused"}]
    BY <1>0, <2>1
  <2>3. txn' = [txn EXCEPT !.delete = delete, !.save = txn.save, !.calm = FALSE]
    BY <1>0, <1>6, <2>1 DEF TxnDeleteFailed, TxnState
  <2>4. txn.save \in {"no", "edit", "new", "run"}
    BY <1>0 DEF TxnState
  <2>5. QED
    BY <1>3, <2>2, <2>3, <2>4
<1>7. CASE TxnFormSent
  <2>1. PICK save \in {"edit", "new"} : txn' = [txn EXCEPT !.save = save, !.of = txn.modal.edit]
    BY <1>7 DEF TxnFormSent
  <2>2. /\ ~txn.loading /\ txn.book \in SUBSET Entry /\ txn.used \in SUBSET Entry
        /\ txn.day \in [Entry -> TxnDay] /\ txn.modal.edit \in Entry \cup {NoEntry}
    BY <1>0, <1>7 DEF TxnFormSent, TxnState, Modal
  <2>3. txn' = [txn EXCEPT !.save = save, !.book = txn.book, !.used = txn.used,
                           !.of = txn.modal.edit, !.day = txn.day]
    BY <1>0, <2>1 DEF TxnState
  <2>4. QED
    BY <1>2, <2>2, <2>3
<1>8. CASE TxnFormRuns
  <2>1. /\ TxnWrites(txn) /\ txn.book \in SUBSET Entry /\ txn.used \in SUBSET Entry
        /\ txn.day \in [Entry -> TxnDay] /\ txn.of \in Entry \cup {NoEntry}
    BY <1>0, <1>8 DEF TxnFormRuns, TxnWrites, TxnState
  <2>2. ASSUME NEW t \in Entry, NEW d \in TxnDay, NEW book \in SUBSET Entry,
               NEW used \in SUBSET Entry,
               txn' = [txn EXCEPT !.save = "run", !.day[t] = d, !.book = book, !.used = used]
        PROVE  TxnInv'
    <3>1. PICK day : day = [txn.day EXCEPT ![t] = d]
      OBVIOUS
    <3>2. day \in [Entry -> TxnDay]
      BY <2>1, <3>1
    <3>3. txn' = [txn EXCEPT !.save = "run", !.book = book, !.used = used, !.of = txn.of,
                             !.day = day]
      BY <1>0, <2>2, <3>1 DEF TxnState
    <3>4. QED
      BY <1>2, <2>1, <3>2, <3>3
  <2>3. PICK d \in TxnDay :
          \/ /\ txn.of \in txn.book
             /\ txn' = [txn EXCEPT !.save = "run", !.day[txn.of] = d]
          \/ \E t \in Entry \ txn.used :
               txn' = [txn EXCEPT !.save = "run", !.day[t] = d, !.book = @ \cup {t},
                                  !.used = @ \cup {t}]
    BY <1>8 DEF TxnFormRuns
  <2>4. CASE txn.of \in txn.book /\ txn' = [txn EXCEPT !.save = "run", !.day[txn.of] = d]
    <3>1. txn.of \in Entry
      BY <2>1, <2>4
    <3>2. txn' = [txn EXCEPT !.save = "run", !.day[txn.of] = d, !.book = txn.book,
                             !.used = txn.used]
      BY <1>0, <2>4 DEF TxnState
    <3>3. QED
      BY <2>1, <2>2, <3>1, <3>2
  <2>5. ASSUME NEW t \in Entry \ txn.used,
               txn' = [txn EXCEPT !.save = "run", !.day[t] = d, !.book = @ \cup {t},
                                  !.used = @ \cup {t}]
        PROVE  TxnInv'
    <3>1. PICK book, used : book = txn.book \cup {t} /\ used = txn.used \cup {t}
      OBVIOUS
    <3>2. txn' = [txn EXCEPT !.save = "run", !.day[t] = d, !.book = book, !.used = used]
      BY <2>5, <3>1
    <3>3. book \in SUBSET Entry /\ used \in SUBSET Entry
      BY <2>1, <3>1
    <3>4. QED
      BY <2>2, <3>2, <3>3
  <2>6. QED
    BY <2>3, <2>4, <2>5
<1>9. CASE TxnFormFailed
  <2>1. txn' = [txn EXCEPT !.delete = txn.delete, !.save = "no", !.calm = FALSE]
    BY <1>0, <1>9 DEF TxnFormFailed, TxnState
  <2>2. QED
    BY <1>0, <1>3, <2>1
<1>10. QED
  BY <1>4, <1>5, <1>6, <1>7, <1>8, <1>9

(* The form is opened and closed, which changes nothing else. *)
LEMMA TxnModalStep ==
    ASSUME TxnInv, OpenNew \/ TxnFormClosed \/ \E t \in Entry : OpenEntry(t)
    PROVE  TxnInv'
<1>0. txn \in TxnState /\ txn.modal \in Modal
  BY DEF TxnInv, TxnGood, TxnState
<1>1. PICK modal \in Modal : txn' = [txn EXCEPT !.modal = modal]
  <2>1. CASE OpenNew
    <3>1. PICK modal : modal = [txn.modal EXCEPT !.new = TRUE]
      OBVIOUS
    <3>2. modal \in Modal /\ txn' = [txn EXCEPT !.modal = modal]
      BY <1>0, <2>1, <3>1 DEF OpenNew, Modal, TxnState
    <3>3. QED
      BY <3>2
  <2>2. CASE TxnFormClosed
    <3>1. NoModal \in Modal
      BY DEF NoModal, Modal
    <3>2. QED
      BY <2>2, <3>1 DEF TxnFormClosed
  <2>3. ASSUME NEW t \in Entry, OpenEntry(t)
        PROVE  \E modal \in Modal : txn' = [txn EXCEPT !.modal = modal]
    <3>1. PICK edit, copy : edit = [txn.modal EXCEPT !.edit = t]
                            /\ copy = [txn.modal EXCEPT !.copy = t]
      OBVIOUS
    <3>2. edit \in Modal /\ copy \in Modal
      BY <1>0, <3>1 DEF Modal
    <3>3. txn' = [txn EXCEPT !.modal = edit] \/ txn' = [txn EXCEPT !.modal = copy]
      BY <1>0, <2>3, <3>1 DEF OpenEntry, TxnState
    <3>4. QED
      BY <3>2, <3>3
  <2>4. QED
    BY <2>1, <2>2, <2>3
<1>2. PICK u : u = [txn EXCEPT !.modal = modal]
  OBVIOUS
<1>3. /\ u \in TxnState /\ u.load = txn.load /\ u.loading = txn.loading
      /\ u.calm = txn.calm /\ u.list = txn.list /\ u.book = txn.book /\ u.day = txn.day
      /\ u.delete = txn.delete /\ u.save = txn.save
  BY <1>0, <1>2 DEF TxnState
<1>4. TxnWrites(u) <=> TxnWrites(txn)
  BY <1>3 DEF TxnWrites
<1>5. QED
  BY <1>1, <1>2, <1>3, <1>4, TxnWriteStep

LEMMA TxnReloadStep ==
    ASSUME TxnInv, TxnFormCreated \/ \E t \in Entry : TxnDeleteAnswered(t)
    PROVE  TxnInv'
<1>0. /\ txn \in TxnState /\ \A k \in TxnLoad : txn.load[k].run => txn.load[k].out
      /\ txn.delete \in [Entry -> {"no", "sent", "run", "refused"}]
  BY DEF TxnInv, TxnGood, TxnState
<1>1. ASSUME NEW m, m \in TxnState, m.load = txn.load, FreeTxnLoad(txn) # {},
             txn' = Reloading(m)
      PROVE  TxnInv'
  <2>1. FreeTxnLoad(m) = FreeTxnLoad(txn)
    BY <1>1 DEF FreeTxnLoad
  <2>2. TxnGood(Reloading(m))
    BY <1>0, <1>1, <2>1, ReloadingGood
  <2>3. QED
    BY <1>1, <2>2 DEF TxnInv
<1>2. ASSUME NEW t \in Entry, TxnDeleteAnswered(t)
      PROVE  TxnInv'
  <2>1. PICK delete : delete = [txn.delete EXCEPT ![t] = "no"]
    OBVIOUS
  <2>2. delete \in [Entry -> {"no", "sent", "run", "refused"}]
    BY <1>0, <2>1
  <2>3. PICK m : m = [txn EXCEPT !.delete[t] = "no"]
    OBVIOUS
  <2>4. m = [txn EXCEPT !.delete = delete]
    BY <1>0, <2>1, <2>3 DEF TxnState
  <2>5. m \in TxnState /\ m.load = txn.load
    BY <1>0, <2>2, <2>4 DEF TxnState
  <2>6. QED
    BY <1>1, <1>2, <2>3, <2>5 DEF TxnDeleteAnswered, AfterDelete
<1>3. CASE TxnFormCreated
  <2>1. PICK m : m = [txn EXCEPT !.save = "no", !.modal = NoModal]
    OBVIOUS
  <2>2. m \in TxnState /\ m.load = txn.load
    BY <1>0, <2>1 DEF TxnState, NoModal, Modal
  <2>3. QED
    BY <1>1, <1>3, <2>1, <2>2 DEF TxnFormCreated
<1>4. QED
  BY <1>2, <1>3

LEMMA TxnStepKeeps == TxnInv /\ [TxnNext]_txn => TxnInv'
BY TxnLoadStep, TxnWritesSent, TxnModalStep, TxnReloadStep DEF TxnNext, TxnInv
-----------------------------------------------------------------------------
(* The data page: the half with the files. *)
DatShape ==
    dat \in [busy : SUBSET Operations, chosen : [Uploads -> File \cup {NoFile}],
             target : BOOLEAN, accounts : BOOLEAN, reload : BOOLEAN]

LEMMA DatStartShape == dat = DatStart => DatShape
BY DEF DatStart, DatShape

LEMMA FilesStepKeeps == DatShape /\ [FilesNext]_datVars => DatShape'
<1> SUFFICES ASSUME DatShape, [FilesNext]_datVars PROVE DatShape'
  OBVIOUS
<1> USE DEF DatShape
<1>1. CASE TargetsLoaded \/ PickTarget
  BY <1>1 DEF TargetsLoaded, PickTarget
<1>2. CASE Export \/ FactoryReset
  BY <1>2 DEF Export, FactoryReset, Operations
<1>3. CASE Reloads
  BY <1>3 DEF Reloads, DatStart
<1>4. ASSUME NEW u \in Uploads, NEW f \in File, Upload(u, f)
      PROVE  DatShape'
  <2>1. PICK chosen : chosen = [dat.chosen EXCEPT ![u] = f]
    OBVIOUS
  <2>2. chosen \in [Uploads -> File \cup {NoFile}]
    BY <2>1
  <2>3. dat' = [dat EXCEPT !.busy = @ \cup {u}, !.chosen = chosen]
    BY <1>4, <2>1 DEF Upload
  <2>4. QED
    BY <2>2, <2>3 DEF Operations
<1>5. ASSUME NEW o \in Operations, Ended(o)
      PROVE  DatShape'
  <2>1. PICK ok \in BOOLEAN :
          dat' = [dat EXCEPT !.busy = @ \ {o}, !.reload = @ \/ (ok /\ o = "reset"),
                    !.chosen = [u \in Uploads |-> IF u = o /\ ok THEN NoFile ELSE @[u]]]
    BY <1>5 DEF Ended
  <2>2. PICK chosen :
          chosen = [u \in Uploads |-> IF u = o /\ ok THEN NoFile ELSE dat.chosen[u]]
    OBVIOUS
  <2>3. chosen \in [Uploads -> File \cup {NoFile}]
    BY <2>2
  <2>4. PICK reload \in BOOLEAN : reload = (dat.reload \/ (ok /\ o = "reset"))
    OBVIOUS
  <2>5. dat' = [dat EXCEPT !.busy = @ \ {o}, !.reload = reload, !.chosen = chosen]
    BY <2>1, <2>2, <2>4
  <2>6. QED
    BY <2>3, <2>5
<1>6. CASE UNCHANGED datVars
  BY <1>6 DEF datVars
<1>7. QED
  BY <1>1, <1>2, <1>3, <1>4, <1>5, <1>6 DEF FilesNext
-----------------------------------------------------------------------------
(* The half with the banks.  A connection takes its steps in order; while  *)
(* no two list requests overlapped and nothing failed, at most one list is *)
(* under way, and unless another one is still to be asked for, it brings,  *)
(* or has brought, the items there are. *)
ListRequest == [out : BOOLEAN, run : BOOLEAN, items : SUBSET Bank, synced : SUBSET Bank]
BankPage ==
    [step : {"idle", "linking", "mapping", "done"}, connecting : BOOLEAN,
     item : Bank \cup {NoBank}, items : SUBSET Bank, synced : SUBSET Bank,
     syncing : Bank \cup {NoBank}, calm : BOOLEAN]
BankNet ==
    [list : [Lists -> ListRequest], connect : {"no", "token", "link", "exchange"},
     link : {"no", "sent"}, sync : {"no", "sent", "run"}, gone : [Bank -> {"no", "sent", "run"}]]
ItemBook == [items : SUBSET Bank, synced : SUBSET Bank]
BankShape(b, net, book) ==
    /\ b \in BankPage /\ net \in BankNet /\ book \in ItemBook
    /\ book.synced \subseteq book.items
    /\ \A l \in Lists : net.list[l].run => net.list[l].out
BankPhase(b, net) ==
    /\ net.connect = "token" => b.step = "idle"
    /\ net.connect \in {"link", "exchange"} <=> b.step = "linking"
    /\ net.link # "no" => b.step = "mapping"
    /\ b.connecting <=> (net.connect \in {"token", "exchange"} \/ net.link # "no")
    /\ b.syncing # NoBank <=> net.sync # "no"
    /\ b.step \in {"mapping", "done"} => b.item \in Bank
OneList(net) == \A k, l \in Lists : net.list[k].out /\ net.list[l].out => k = l
ListDue(b, net) ==
    \/ net.sync = "run" \/ b.step = "mapping"
    \/ \E i \in Bank : net.gone[i] = "run"
Brought(b, net, book) ==
    /\ \A l \in Lists : net.list[l].run =>
           net.list[l].items = book.items /\ net.list[l].synced = book.synced
    /\ (\A l \in Lists : ~net.list[l].out) =>
           b.items = book.items /\ b.synced = book.synced
BankGood(b, net, book) ==
    /\ BankShape(b, net, book) /\ BankPhase(b, net)
    /\ b.calm => OneList(net) /\ (~ListDue(b, net) => Brought(b, net, book))
BankInv == BankGood(bank, bankNet, bankBook)

(* Sending a list request when one is free. *)
LEMMA SendListIs ==
    ASSUME NEW net \in BankNet, FreeList(net) # {}
    PROVE  \E k \in Lists :
             /\ ~net.list[k].out
             /\ SendList(net).list \in [Lists -> ListRequest]
             /\ SendList(net).list[k] = [net.list[k] EXCEPT !.out = TRUE]
             /\ \A l \in Lists : l # k => SendList(net).list[l] = net.list[l]
             /\ SendList(net) = [net EXCEPT !.list = SendList(net).list]
<1>1. \E l \in FreeList(net) : \A k \in FreeList(net) : l <= k
  <2>1. FreeList(net) \subseteq {1, 2}
    BY DEF FreeList, Lists
  <2>2. QED
    BY <2>1
<1>2. PICK k : k = CHOOSE l \in FreeList(net) : \A j \in FreeList(net) : l <= j
  OBVIOUS
<1>3. k \in Lists /\ ~net.list[k].out
  BY <1>1, <1>2 DEF FreeList
<1>4. PICK q : q = [net.list[k] EXCEPT !.out = TRUE]
  OBVIOUS
<1>5. q \in ListRequest
  <2>1. net.list[k] \in ListRequest
    BY <1>3 DEF BankNet
  <2>2. QED
    BY <1>4, <2>1 DEF ListRequest
<1>6. PICK list : list = [net.list EXCEPT ![k] = q]
  OBVIOUS
<1>7. /\ list \in [Lists -> ListRequest] /\ list[k] = q
      /\ \A l \in Lists : l # k => list[l] = net.list[l]
  BY <1>3, <1>5, <1>6 DEF BankNet
<1>8. PICK u : u = SendList(net)
  OBVIOUS
<1>9. u = [net EXCEPT !.list = list]
  BY <1>2, <1>3, <1>4, <1>6, <1>8 DEF SendList, BankNet
<1>10. u.list = list
  BY <1>9 DEF BankNet
<1>11. QED
  BY <1>3, <1>4, <1>7, <1>8, <1>9, <1>10
(* What a handler does that ends in loadPlaidItems: if nothing else is     *)
(* under way, the list that is asked for now is the only one. *)
LEMMA ListedGood ==
    ASSUME NEW b \in BankPage, NEW net \in BankNet, NEW book,
           BankShape(b, net, book), BankPhase(b, net), FreeList(net) # {},
           NEW c, c = [b EXCEPT !.calm = @ /\ Alone(net)]
    PROVE  BankGood(c, SendList(net), book)
<1>1. PICK k \in Lists :
         /\ ~net.list[k].out
         /\ SendList(net).list \in [Lists -> ListRequest]
         /\ SendList(net).list[k] = [net.list[k] EXCEPT !.out = TRUE]
         /\ \A l \in Lists : l # k => SendList(net).list[l] = net.list[l]
         /\ SendList(net) = [net EXCEPT !.list = SendList(net).list]
  BY SendListIs
<1>2. PICK u : u = SendList(net)
  OBVIOUS
<1>3. PICK list : list = u.list
  OBVIOUS
<1>4. /\ u = [net EXCEPT !.list = list] /\ list \in [Lists -> ListRequest]
      /\ list[k] = [net.list[k] EXCEPT !.out = TRUE]
      /\ \A l \in Lists : l # k => list[l] = net.list[l]
  BY <1>1, <1>2, <1>3
<1>5. /\ u \in BankNet /\ u.list = list /\ u.connect = net.connect /\ u.link = net.link
      /\ u.sync = net.sync /\ u.gone = net.gone
  BY <1>4 DEF BankNet
<1>6. \A l \in Lists : net.list[l] \in ListRequest /\ (net.list[l].run => net.list[l].out)
  BY DEF BankNet, BankShape
<1>7. list[k].out /\ ~list[k].run
  BY <1>1, <1>4, <1>6 DEF ListRequest
<1>8. \A l \in Lists : list[l].run => list[l].out
  BY <1>4, <1>6, <1>7
<1>9. PICK calm \in BOOLEAN : calm <=> (b.calm /\ Alone(net))
  OBVIOUS
<1>10. c = [b EXCEPT !.calm = calm]
  BY <1>9 DEF BankPage
<1>11. /\ c \in BankPage /\ c.calm = calm /\ c.step = b.step /\ c.connecting = b.connecting
       /\ c.item = b.item /\ c.syncing = b.syncing
  BY <1>10 DEF BankPage
<1>12. BankShape(c, u, book) /\ BankPhase(c, u)
  BY <1>5, <1>8, <1>11 DEF BankShape, BankPhase
<1>13. ASSUME c.calm
       PROVE  OneList(u) /\ Brought(c, u, book)
  <2>1. \A l \in Lists : ~net.list[l].out
    BY <1>9, <1>11, <1>13 DEF Alone, FreeList
  <2>2. \A l \in Lists : l # k => ~list[l].out /\ ~list[l].run
    BY <1>4, <1>6, <2>1
  <2>3. QED
    BY <1>5, <1>7, <2>2 DEF OneList, Brought
<1>14. QED
  BY <1>2, <1>12, <1>13 DEF BankGood

LEMMA BankStartGood ==
    ASSUME NEW net, net = SendList(Quiet)
    PROVE  BankGood(BankStart, net, BankBooks)
<1>1. /\ Quiet \in BankNet /\ BankStart \in BankPage
      /\ BankShape(BankStart, Quiet, BankBooks) /\ BankPhase(BankStart, Quiet)
      /\ \A l \in Lists : ~Quiet.list[l].out
  BY DatAssumption
  DEF Quiet, NoList, BankNet, ListRequest, BankStart, BankPage, BankShape, BankPhase,
      BankBooks, ItemBook
<1>2. FreeList(Quiet) = Lists /\ 1 \in Lists
  BY <1>1 DEF FreeList, Lists
<1>3. PICK c : c = [BankStart EXCEPT !.calm = @ /\ Alone(Quiet)]
  OBVIOUS
<1>4. c = BankStart
  BY <1>2, <1>3 DEF Alone, BankStart
<1>5. FreeList(Quiet) # {}
  BY <1>2
<1>6. BankGood(c, SendList(Quiet), BankBooks)
  BY <1>1, <1>3, <1>5, ListedGood
<1>7. QED
  BY <1>4, <1>6

(* A step that asks for no list and answers none: it changes the items     *)
(* there are only if a list is due afterwards, or something failed. *)
LEMMA BankMoves ==
    ASSUME BankInv, NEW b \in BankPage, NEW net \in BankNet, NEW book \in ItemBook,
           bank' = b, bankNet' = net, bankBook' = book,
           book.synced \subseteq book.items, BankPhase(b, net), net.list = bankNet.list,
           b.items = bank.items, b.synced = bank.synced, b.calm => bank.calm,
           \/ ~b.calm
           \/ ListDue(b, net)
           \/ book = bankBook /\ ~ListDue(bank, bankNet)
    PROVE  BankInv'
<1>1. BankShape(b, net, book)
  BY DEF BankInv, BankGood, BankShape
<1>2. ASSUME b.calm
      PROVE  OneList(net) /\ (~ListDue(b, net) => Brought(b, net, book))
  <2>1. OneList(bankNet) /\ (~ListDue(bank, bankNet) => Brought(bank, bankNet, bankBook))
    BY <1>2 DEF BankInv, BankGood
  <2>2. OneList(net)
    BY <2>1 DEF OneList
  <2>3. ASSUME ~ListDue(b, net)
        PROVE  Brought(b, net, book)
    <3>1. book = bankBook /\ Brought(bank, bankNet, bankBook)
      BY <1>2, <2>1, <2>3
    <3>2. QED
      BY <3>1 DEF Brought
  <2>4. QED
    BY <2>2, <2>3
<1>3. BankGood(b, net, book)
  BY <1>1, <1>2 DEF BankGood
<1>4. QED
  BY <1>3 DEF BankInv

LEMMA ListStep ==
    ASSUME BankInv, NEW k \in Lists, RunList(k) \/ ListAnswered(k) \/ ListFailed(k)
    PROVE  BankInv'
<1>1. /\ BankShape(bank, bankNet, bankBook) /\ BankPhase(bank, bankNet)
      /\ bank \in BankPage /\ bankNet \in BankNet /\ bankBook \in ItemBook
      /\ bankNet.list \in [Lists -> ListRequest]
      /\ \A l \in Lists : bankNet.list[l] \in ListRequest
      /\ bankNet.list[k].run => bankNet.list[k].out
  BY DEF BankInv, BankGood, BankShape, BankNet
<1>2. ASSUME NEW q \in ListRequest, NEW b \in BankPage, q.run => q.out,
             bankNet' = [bankNet EXCEPT !.list[k] = q], bank' = b, bankBook' = bankBook,
             b.step = bank.step, b.connecting = bank.connecting, b.item = bank.item,
             b.syncing = bank.syncing, b.calm => bank.calm,
             b.calm /\ q.run =>
                 /\ bankNet.list[k].out
                 /\ q.items = bankBook.items /\ q.synced = bankBook.synced
                 /\ b.items = bank.items /\ b.synced = bank.synced,
             b.calm /\ ~q.out =>
                 /\ bankNet.list[k].run
                 /\ b.items = bankNet.list[k].items /\ b.synced = bankNet.list[k].synced,
             q.out => q.run
      PROVE  BankInv'
  <2>1. PICK list : list = [bankNet.list EXCEPT ![k] = q]
    OBVIOUS
  <2>2. /\ list \in [Lists -> ListRequest] /\ list[k] = q
        /\ \A l \in Lists : l # k => list[l] = bankNet.list[l]
    BY <1>1, <2>1
  <2>3. PICK net : net = [bankNet EXCEPT !.list = list]
    OBVIOUS
  <2>4. /\ net \in BankNet /\ net.list = list /\ net.connect = bankNet.connect
        /\ net.link = bankNet.link /\ net.sync = bankNet.sync /\ net.gone = bankNet.gone
    BY <1>1, <2>2, <2>3 DEF BankNet
  <2>5. bankNet' = net
    BY <1>1, <1>2, <2>1, <2>3 DEF BankNet
  <2>6. BankShape(b, net, bankBook) /\ BankPhase(b, net)
    BY <1>1, <1>2, <2>2, <2>4 DEF BankShape, BankPhase
  <2>7. ListDue(b, net) <=> ListDue(bank, bankNet)
    BY <1>2, <2>4 DEF ListDue
  <2>8. ASSUME b.calm
        PROVE  OneList(net) /\ (~ListDue(b, net) => Brought(b, net, bankBook))
    <3>1. OneList(bankNet) /\ (~ListDue(b, net) => Brought(bank, bankNet, bankBook))
      BY <1>2, <2>7, <2>8 DEF BankInv, BankGood
    <3>2. bankNet.list[k].out
      BY <1>1, <1>2, <2>8
    <3>3. \A l \in Lists : l # k => ~list[l].out /\ ~list[l].run
      BY <1>1, <2>2, <3>1, <3>2 DEF OneList, BankShape
    <3>4. OneList(net)
      BY <2>4, <3>3 DEF OneList
    <3>5. ASSUME ~ListDue(b, net)
          PROVE  Brought(b, net, bankBook)
      <4>1. bankNet.list[k].run =>
               /\ bankNet.list[k].items = bankBook.items
               /\ bankNet.list[k].synced = bankBook.synced
        BY <3>1, <3>5 DEF Brought
      <4>2. q.run => q.items = bankBook.items /\ q.synced = bankBook.synced
        BY <1>2, <2>8
      <4>3. ~q.out => b.items = bankBook.items /\ b.synced = bankBook.synced
        BY <1>2, <2>8, <4>1
      <4>4. QED
        BY <2>2, <2>4, <3>3, <4>2, <4>3 DEF Brought
    <3>6. QED
      BY <3>4, <3>5
  <2>9. BankGood(b, net, bankBook)
    BY <2>6, <2>8 DEF BankGood
  <2>10. QED
    BY <1>2, <2>5, <2>9 DEF BankInv
<1>3. CASE RunList(k)
  <2>1. PICK q : q = [bankNet.list[k] EXCEPT !.run = TRUE, !.items = bankBook.items,
                                             !.synced = bankBook.synced]
    OBVIOUS
  <2>2. /\ q \in ListRequest /\ q.run /\ q.out /\ q.items = bankBook.items
        /\ q.synced = bankBook.synced /\ bankNet.list[k].out
    BY <1>1, <1>3, <2>1 DEF RunList, ListRequest, ItemBook
  <2>3. bankNet' = [bankNet EXCEPT !.list[k] = q] /\ bank' = bank /\ bankBook' = bankBook
    BY <1>1, <1>3, <2>1 DEF RunList, BankNet, ListRequest
  <2>4. QED
    BY <1>1, <1>2, <2>2, <2>3
<1>4. NoList \in ListRequest /\ ~NoList.out /\ ~NoList.run
  BY DEF NoList, ListRequest
<1>5. CASE ListAnswered(k)
  <2>1. PICK items \in SUBSET Bank, synced \in SUBSET Bank :
           items = bankNet.list[k].items /\ synced = bankNet.list[k].synced
    BY <1>1 DEF ListRequest
  <2>2. PICK b : b = [bank EXCEPT !.items = items, !.synced = synced]
    OBVIOUS
  <2>3. /\ b \in BankPage /\ b.items = items /\ b.synced = synced /\ b.step = bank.step
        /\ b.connecting = bank.connecting /\ b.item = bank.item /\ b.syncing = bank.syncing
        /\ b.calm = bank.calm
    BY <1>1, <2>2 DEF BankPage
  <2>4. /\ bankNet' = [bankNet EXCEPT !.list[k] = NoList] /\ bank' = b
        /\ bankBook' = bankBook /\ bankNet.list[k].run
    BY <1>5, <2>1, <2>2 DEF ListAnswered
  <2>5. QED
    BY <1>2, <1>4, <2>1, <2>3, <2>4
<1>6. CASE ListFailed(k)
  <2>1. PICK b : b = [bank EXCEPT !.calm = FALSE]
    OBVIOUS
  <2>2. /\ b \in BankPage /\ b.step = bank.step /\ ~b.calm
        /\ b.connecting = bank.connecting /\ b.item = bank.item /\ b.syncing = bank.syncing
    BY <1>1, <2>1 DEF BankPage
  <2>3. /\ bankNet' = [bankNet EXCEPT !.list[k] = NoList] /\ bank' = b
        /\ bankBook' = bankBook
    BY <1>6, <2>1 DEF ListFailed
  <2>4. QED
    BY <1>2, <1>4, <2>2, <2>3
<1>7. QED
  BY <1>3, <1>5, <1>6
(* The steps of a connection but for the exchange. *)
LEMMA ConnectStep ==
    ASSUME BankInv,
           \/ ConnectBank \/ LinkExit \/ LinkSuccess \/ SubmitMappings
           \/ \E ok \in BOOLEAN : TokenAnswered(ok)
    PROVE  BankInv'
<1>1. /\ BankShape(bank, bankNet, bankBook) /\ BankPhase(bank, bankNet)
      /\ bank \in BankPage /\ bankNet \in BankNet /\ bankBook \in ItemBook
      /\ bankBook.synced \subseteq bankBook.items
  BY DEF BankInv, BankGood, BankShape
<1>2. ASSUME NEW b \in BankPage, NEW net \in BankNet,
             bank' = b, bankNet' = net, bankBook' = bankBook,
             b = [bank EXCEPT !.step = b.step, !.connecting = b.connecting],
             net = [bankNet EXCEPT !.connect = net.connect, !.link = net.link],
             BankPhase(b, net), b.step = "mapping" <=> bank.step = "mapping"
      PROVE  BankInv'
  <2>1. /\ net.list = bankNet.list /\ net.sync = bankNet.sync /\ net.gone = bankNet.gone
        /\ b.items = bank.items /\ b.synced = bank.synced /\ b.calm = bank.calm
    BY <1>1, <1>2 DEF BankPage, BankNet
  <2>2. ListDue(b, net) <=> ListDue(bank, bankNet)
    BY <1>2, <2>1 DEF ListDue
  <2>3. PICK book \in ItemBook : book = bankBook
    BY <1>1
  <2>4. QED
    BY <1>1, <1>2, <2>1, <2>2, <2>3, BankMoves
<1>3. ASSUME NEW step \in {"idle", "linking", "mapping", "done"}, NEW connecting \in BOOLEAN,
             NEW connect \in {"no", "token", "link", "exchange"}, NEW link \in {"no", "sent"},
             bank' = [bank EXCEPT !.step = step, !.connecting = connecting],
             bankNet' = [bankNet EXCEPT !.connect = connect, !.link = link],
             bankBook' = bankBook,
             connect = "token" => step = "idle",
             connect \in {"link", "exchange"} <=> step = "linking",
             link # "no" => step = "mapping",
             connecting <=> (connect \in {"token", "exchange"} \/ link # "no"),
             step = "mapping" <=> bank.step = "mapping",
             step = "done" => bank.step = "done"
      PROVE  BankInv'
  <2>1. PICK b : b = [bank EXCEPT !.step = step, !.connecting = connecting]
    OBVIOUS
  <2>2. PICK net : net = [bankNet EXCEPT !.connect = connect, !.link = link]
    OBVIOUS
  <2>3. /\ b \in BankPage /\ b.step = step /\ b.connecting = connecting /\ b.item = bank.item
        /\ b.syncing = bank.syncing
    BY <1>1, <2>1 DEF BankPage
  <2>4. /\ net \in BankNet /\ net.connect = connect /\ net.link = link
        /\ net.sync = bankNet.sync
    BY <1>1, <2>2 DEF BankNet
  <2>5. BankPhase(b, net)
    BY <1>1, <1>3, <2>3, <2>4 DEF BankPhase
  <2>6. QED
    BY <1>2, <1>3, <2>1, <2>2, <2>3, <2>4, <2>5
<1>4. /\ bank.step \in {"idle", "linking", "mapping", "done"} /\ bank.connecting \in BOOLEAN
      /\ bankNet.connect \in {"no", "token", "link", "exchange"}
      /\ bankNet.link \in {"no", "sent"}
      /\ bank = [bank EXCEPT !.step = bank.step, !.connecting = bank.connecting]
      /\ bankNet = [bankNet EXCEPT !.connect = bankNet.connect, !.link = bankNet.link]
  BY <1>1 DEF BankPage, BankNet
<1>5. PICK step, connecting, connect, link :
         step = bank.step /\ connecting = bank.connecting /\ connect = bankNet.connect
         /\ link = bankNet.link
  OBVIOUS
<1>6. CASE ConnectBank
  <2>1. bank' = [bank EXCEPT !.step = step, !.connecting = TRUE]
    BY <1>1, <1>5, <1>6 DEF ConnectBank, BankPage
  <2>2. bankNet' = [bankNet EXCEPT !.connect = "token", !.link = link]
    BY <1>1, <1>5, <1>6 DEF ConnectBank, BankNet
  <2>3. step = "idle" /\ link = "no" /\ bankBook' = bankBook
    BY <1>1, <1>4, <1>5, <1>6 DEF ConnectBank, BankPhase
  <2>4. QED
    BY <1>3, <1>4, <1>5, <2>1, <2>2, <2>3
<1>7. CASE LinkExit
  <2>1. bank' = [bank EXCEPT !.step = "idle", !.connecting = connecting]
    BY <1>1, <1>5, <1>7 DEF LinkExit, BankPage
  <2>2. bankNet' = [bankNet EXCEPT !.connect = "no", !.link = link]
    BY <1>1, <1>5, <1>7 DEF LinkExit, BankNet
  <2>3. step = "linking" /\ ~connecting /\ link = "no" /\ bankBook' = bankBook
    BY <1>1, <1>4, <1>5, <1>7 DEF LinkExit, BankPhase
  <2>4. QED
    BY <1>3, <1>4, <1>5, <2>1, <2>2, <2>3
<1>8. CASE LinkSuccess
  <2>1. bank' = [bank EXCEPT !.step = step, !.connecting = TRUE]
    BY <1>1, <1>5, <1>8 DEF LinkSuccess, BankPage
  <2>2. bankNet' = [bankNet EXCEPT !.connect = "exchange", !.link = link]
    BY <1>1, <1>5, <1>8 DEF LinkSuccess, BankNet
  <2>3. step = "linking" /\ link = "no" /\ bankBook' = bankBook
    BY <1>1, <1>4, <1>5, <1>8 DEF LinkSuccess, BankPhase
  <2>4. QED
    BY <1>3, <1>4, <1>5, <2>1, <2>2, <2>3
<1>9. CASE SubmitMappings
  <2>1. bank' = [bank EXCEPT !.step = step, !.connecting = TRUE]
    BY <1>1, <1>5, <1>9 DEF SubmitMappings, BankPage
  <2>2. bankNet' = [bankNet EXCEPT !.connect = connect, !.link = "sent"]
    BY <1>1, <1>5, <1>9 DEF SubmitMappings, BankNet
  <2>3. step = "mapping" /\ connect = "no" /\ bankBook' = bankBook
    BY <1>1, <1>4, <1>5, <1>9 DEF SubmitMappings, BankPhase
  <2>4. QED
    BY <1>3, <1>4, <1>5, <2>1, <2>2, <2>3
<1>10. ASSUME NEW ok \in BOOLEAN, TokenAnswered(ok)
       PROVE  BankInv'
  <2>1. PICK after \in {"idle", "linking"} : after = IF ok THEN "linking" ELSE "idle"
    OBVIOUS
  <2>2. PICK then \in {"no", "link"} : then = IF ok THEN "link" ELSE "no"
    OBVIOUS
  <2>3. step = "idle" /\ link = "no" /\ bankBook' = bankBook
    BY <1>1, <1>4, <1>5, <1>10 DEF TokenAnswered, BankPhase
  <2>4. bank' = [bank EXCEPT !.step = after, !.connecting = FALSE]
    BY <1>1, <1>5, <1>10, <2>1, <2>3 DEF TokenAnswered, BankPage
  <2>5. bankNet' = [bankNet EXCEPT !.connect = then, !.link = link]
    BY <1>1, <1>5, <1>10, <2>2 DEF TokenAnswered, BankNet
  <2>6. after = "linking" <=> then = "link"
    BY <2>1, <2>2
  <2>7. QED
    BY <1>3, <1>4, <1>5, <2>3, <2>4, <2>5, <2>6
<1>11. QED
  BY <1>6, <1>7, <1>8, <1>9, <1>10

LEMMA ExchangeStep ==
    ASSUME BankInv, NEW i \in Bank, NEW ok \in BOOLEAN, ExchangeEnds(i, ok)
    PROVE  BankInv'
<1>1. /\ BankShape(bank, bankNet, bankBook) /\ BankPhase(bank, bankNet)
      /\ bank \in BankPage /\ bankNet \in BankNet /\ bankBook \in ItemBook
      /\ bankBook.synced \subseteq bankBook.items
  BY DEF BankInv, BankGood, BankShape
<1>2. PICK book : book = bankBook'
  OBVIOUS
<1>3. book \in ItemBook /\ book.synced \subseteq book.items
  BY <1>1, <1>2 DEF ExchangeEnds, ItemBook
<1>4. PICK net : net = [bankNet EXCEPT !.connect = "no"]
  OBVIOUS
<1>5. /\ net \in BankNet /\ net.connect = "no" /\ net.link = bankNet.link
      /\ net.sync = bankNet.sync /\ net.list = bankNet.list
  BY <1>1, <1>4 DEF BankNet
<1>6. bankNet' = net /\ bank.step = "linking" /\ bankNet.link = "no"
  BY <1>1, <1>4, <1>5 DEF ExchangeEnds, BankPhase, BankNet
<1>7. CASE ok
  <2>1. PICK b : b = [bank EXCEPT !.step = "mapping", !.connecting = FALSE, !.item = i]
    OBVIOUS
  <2>2. /\ b \in BankPage /\ b.step = "mapping" /\ ~b.connecting /\ b.item = i
        /\ b.syncing = bank.syncing /\ b.items = bank.items /\ b.synced = bank.synced
        /\ b.calm = bank.calm
    BY <1>1, <2>1 DEF BankPage
  <2>3. bank' = b
    BY <1>7, <2>1 DEF ExchangeEnds, Exchanged
  <2>4. BankPhase(b, net) /\ ListDue(b, net)
    BY <1>1, <1>5, <1>6, <2>2 DEF BankPhase, ListDue
  <2>5. QED
    BY <1>2, <1>3, <1>5, <1>6, <2>2, <2>3, <2>4, BankMoves
<1>8. CASE ~ok
  <2>1. PICK b : b = [bank EXCEPT !.step = "idle", !.connecting = FALSE, !.calm = FALSE]
    OBVIOUS
  <2>2. /\ b \in BankPage /\ b.step = "idle" /\ ~b.connecting /\ b.item = bank.item
        /\ b.syncing = bank.syncing /\ b.items = bank.items /\ b.synced = bank.synced
        /\ ~b.calm
    BY <1>1, <2>1 DEF BankPage
  <2>3. bank' = b
    BY <1>8, <2>1 DEF ExchangeEnds
  <2>4. BankPhase(b, net)
    BY <1>1, <1>5, <1>6, <2>2 DEF BankPhase
  <2>5. QED
    BY <1>2, <1>3, <1>5, <1>6, <2>2, <2>3, <2>4, BankMoves
<1>9. QED
  BY <1>7, <1>8

LEMMA LinkStep ==
    ASSUME BankInv, NEW ok \in BOOLEAN, LinkAnswered(ok)
    PROVE  BankInv'
<1>1. /\ BankShape(bank, bankNet, bankBook) /\ BankPhase(bank, bankNet)
      /\ bank \in BankPage /\ bankNet \in BankNet /\ bankBook \in ItemBook
      /\ bankBook.synced \subseteq bankBook.items
      /\ \A l \in Lists : bankNet.list[l].run => bankNet.list[l].out
  BY DEF BankInv, BankGood, BankShape
<1>2. PICK net : net = [bankNet EXCEPT !.link = "no"]
  OBVIOUS
<1>3. /\ net \in BankNet /\ net.connect = bankNet.connect /\ net.link = "no"
      /\ net.sync = bankNet.sync /\ net.list = bankNet.list /\ net.gone = bankNet.gone
  BY <1>1, <1>2 DEF BankNet
<1>4. bank.step = "mapping" /\ bankNet.connect = "no" /\ bankBook' = bankBook
  BY <1>1 DEF LinkAnswered, BankPhase, BankNet
<1>5. PICK step \in {"mapping", "done"} : step = IF ok THEN "done" ELSE "mapping"
  OBVIOUS
<1>6. PICK b : b = [bank EXCEPT !.connecting = FALSE, !.step = step]
  OBVIOUS
<1>7. /\ b \in BankPage /\ b.step = step /\ ~b.connecting /\ b.item = bank.item
      /\ b.syncing = bank.syncing /\ b.items = bank.items /\ b.synced = bank.synced
      /\ b.calm = bank.calm
  BY <1>1, <1>6 DEF BankPage
<1>8. b = [bank EXCEPT !.connecting = FALSE, !.step = IF ok THEN "done" ELSE @]
  BY <1>1, <1>4, <1>5, <1>6 DEF BankPage
<1>9. BankPhase(b, net)
  BY <1>1, <1>3, <1>4, <1>5, <1>7 DEF BankPhase
<1>10. PICK book \in ItemBook : book = bankBook
  BY <1>1
<1>11. CASE ok
  <2>1. Listed(b, net)
    BY <1>2, <1>8, <1>11 DEF LinkAnswered, AfterLink
  <2>2. BankShape(b, net, book)
    BY <1>1, <1>3, <1>7, <1>10 DEF BankShape
  <2>3. PICK c : c = [b EXCEPT !.calm = @ /\ Alone(net)]
    OBVIOUS
  <2>4. BankGood(c, SendList(net), book)
    BY <1>3, <1>7, <1>9, <2>1, <2>2, <2>3, ListedGood DEF Listed
  <2>5. bank' = c /\ bankNet' = SendList(net) /\ bankBook' = book
    BY <1>4, <1>10, <2>1, <2>3 DEF Listed
  <2>6. PICK sent : sent = SendList(net)
    OBVIOUS
  <2>7. QED
    BY <2>4, <2>5, <2>6 DEF BankInv
<1>12. CASE ~ok
  <2>1. bank' = b /\ bankNet' = net
    BY <1>2, <1>8, <1>12 DEF LinkAnswered
  <2>2. ListDue(b, net)
    BY <1>5, <1>7, <1>12 DEF ListDue
  <2>3. QED
    BY <1>1, <1>3, <1>4, <1>7, <1>9, <1>10, <2>1, <2>2, BankMoves
<1>13. QED
  BY <1>11, <1>12
(* A handler that ends in loadPlaidItems and changes nothing at the server. *)
LEMMA ListsAgain ==
    ASSUME BankInv, NEW b \in BankPage, NEW net \in BankNet, BankPhase(b, net),
           net.list = bankNet.list, Listed(b, net), UNCHANGED bankBook
    PROVE  BankInv'
<1>1. PICK book : book = bankBook
  OBVIOUS
<1>2. BankShape(b, net, book)
  BY <1>1 DEF BankInv, BankGood, BankShape
<1>3. PICK c : c = [b EXCEPT !.calm = @ /\ Alone(net)]
  OBVIOUS
<1>4. BankGood(c, SendList(net), book)
  BY <1>2, <1>3, ListedGood DEF Listed
<1>5. bank' = c /\ bankNet' = SendList(net) /\ bankBook' = book
  BY <1>1, <1>3 DEF Listed
<1>6. QED
  BY <1>4, <1>5 DEF BankInv

LEMMA BankSyncStep ==
    ASSUME BankInv,
           \/ \E i \in Bank : BankSyncNow(i)
           \/ BankSyncRuns \/ BankSyncAnswered \/ BankSyncFailed
    PROVE  BankInv'
<1>1. /\ BankShape(bank, bankNet, bankBook) /\ BankPhase(bank, bankNet)
      /\ bank \in BankPage /\ bankNet \in BankNet /\ bankBook \in ItemBook
      /\ bankBook.synced \subseteq bankBook.items /\ NoBank \notin Bank
  BY DatAssumption DEF BankInv, BankGood, BankShape
<1>2. PICK book \in ItemBook : book = bankBook
  BY <1>1
<1>3. ASSUME NEW i \in Bank, BankSyncNow(i)
      PROVE  BankInv'
  <2>1. PICK b : b = [bank EXCEPT !.syncing = i]
    OBVIOUS
  <2>2. PICK net : net = [bankNet EXCEPT !.sync = "sent"]
    OBVIOUS
  <2>3. /\ b \in BankPage /\ b.step = bank.step /\ b.connecting = bank.connecting
        /\ b.item = bank.item /\ b.syncing = i /\ b.items = bank.items
        /\ b.synced = bank.synced /\ b.calm = bank.calm
    BY <1>1, <2>1 DEF BankPage
  <2>4. /\ net \in BankNet /\ net.connect = bankNet.connect /\ net.link = bankNet.link
        /\ net.sync = "sent" /\ net.list = bankNet.list /\ net.gone = bankNet.gone
    BY <1>1, <2>2 DEF BankNet
  <2>5. bankNet.sync = "no"
    BY <1>1, <1>3 DEF BankSyncNow, BankPhase
  <2>6. BankPhase(b, net) /\ (ListDue(b, net) <=> ListDue(bank, bankNet))
    BY <1>1, <2>3, <2>4, <2>5 DEF BankPhase, ListDue
  <2>7. bank' = b /\ bankNet' = net /\ bankBook' = book
    BY <1>2, <1>3, <2>1, <2>2 DEF BankSyncNow
  <2>8. QED
    BY <1>1, <1>2, <2>3, <2>4, <2>6, <2>7, BankMoves
<1>4. CASE BankSyncRuns
  <2>1. PICK after : after = [bankBook EXCEPT !.synced = @ \cup {bank.syncing}]
    OBVIOUS
  <2>2. after \in ItemBook /\ after.synced \subseteq after.items
    BY <1>1, <1>4, <2>1 DEF BankSyncRuns, ItemBook
  <2>3. PICK net : net = [bankNet EXCEPT !.sync = "run"]
    OBVIOUS
  <2>4. /\ net \in BankNet /\ net.connect = bankNet.connect /\ net.link = bankNet.link
        /\ net.sync = "run" /\ net.list = bankNet.list
    BY <1>1, <2>3 DEF BankNet
  <2>5. PICK b \in BankPage : b = bank
    BY <1>1
  <2>6. BankPhase(b, net) /\ ListDue(b, net)
    BY <1>1, <1>4, <2>4, <2>5 DEF BankSyncRuns, BankPhase, ListDue
  <2>7. bank' = b /\ bankNet' = net /\ bankBook' = after
    BY <1>4, <2>1, <2>3, <2>5 DEF BankSyncRuns
  <2>8. QED
    BY <2>2, <2>4, <2>5, <2>6, <2>7, BankMoves
<1>5. PICK net : net = [bankNet EXCEPT !.sync = "no"]
  OBVIOUS
<1>6. /\ net \in BankNet /\ net.connect = bankNet.connect /\ net.link = bankNet.link
      /\ net.sync = "no" /\ net.list = bankNet.list /\ net.gone = bankNet.gone
  BY <1>1, <1>5 DEF BankNet
<1>7. CASE BankSyncAnswered
  <2>1. PICK b : b = [bank EXCEPT !.syncing = NoBank]
    OBVIOUS
  <2>2. /\ b \in BankPage /\ b.step = bank.step /\ b.connecting = bank.connecting
        /\ b.item = bank.item /\ b.syncing = NoBank
    BY <1>1, <2>1 DEF BankPage
  <2>3. BankPhase(b, net)
    BY <1>1, <1>6, <2>2 DEF BankPhase
  <2>4. Listed(b, net) /\ UNCHANGED bankBook
    BY <1>5, <1>7, <2>1 DEF BankSyncAnswered
  <2>5. QED
    BY <1>6, <2>2, <2>3, <2>4, ListsAgain
<1>8. CASE BankSyncFailed
  <2>1. PICK b : b = [bank EXCEPT !.syncing = NoBank, !.calm = FALSE]
    OBVIOUS
  <2>2. /\ b \in BankPage /\ b.step = bank.step /\ b.connecting = bank.connecting
        /\ b.item = bank.item /\ b.syncing = NoBank /\ b.items = bank.items
        /\ b.synced = bank.synced /\ ~b.calm
    BY <1>1, <2>1 DEF BankPage
  <2>3. BankPhase(b, net)
    BY <1>1, <1>6, <2>2 DEF BankPhase
  <2>4. bank' = b /\ bankNet' = net /\ bankBook' = book
    BY <1>2, <1>5, <1>8, <2>1 DEF BankSyncFailed
  <2>5. QED
    BY <1>1, <1>2, <1>6, <2>2, <2>3, <2>4, BankMoves
<1>9. QED
  BY <1>3, <1>4, <1>7, <1>8

LEMMA DisconnectStep ==
    ASSUME BankInv, NEW i \in Bank,
           DisconnectClick(i) \/ DisconnectRuns(i) \/ DisconnectAnswered(i) \/ DisconnectFailed(i)
    PROVE  BankInv'
<1>1. /\ BankShape(bank, bankNet, bankBook) /\ BankPhase(bank, bankNet)
      /\ bank \in BankPage /\ bankNet \in BankNet /\ bankBook \in ItemBook
      /\ bankBook.synced \subseteq bankBook.items
      /\ bankNet.gone \in [Bank -> {"no", "sent", "run"}]
  BY DEF BankInv, BankGood, BankShape, BankNet
<1>2. PICK book \in ItemBook : book = bankBook
  BY <1>1
<1>3. PICK b \in BankPage : b = bank
  BY <1>1
<1>4. ASSUME NEW now \in {"no", "sent", "run"}
      PROVE  \E net \in BankNet, gone \in [Bank -> {"no", "sent", "run"}] :
               /\ net = [bankNet EXCEPT !.gone[i] = now] /\ net.gone = gone
               /\ net.list = bankNet.list /\ net.sync = bankNet.sync
               /\ \A c : BankPhase(c, net) <=> BankPhase(c, bankNet)
               /\ gone[i] = now /\ \A j \in Bank : j # i => gone[j] = bankNet.gone[j]
  <2>1. PICK gone : gone = [bankNet.gone EXCEPT ![i] = now]
    OBVIOUS
  <2>2. /\ gone \in [Bank -> {"no", "sent", "run"}] /\ gone[i] = now
        /\ \A j \in Bank : j # i => gone[j] = bankNet.gone[j]
    BY <1>1, <1>4, <2>1
  <2>3. PICK net : net = [bankNet EXCEPT !.gone = gone]
    OBVIOUS
  <2>4. /\ net \in BankNet /\ net.gone = gone /\ net.list = bankNet.list
        /\ net.sync = bankNet.sync /\ net.connect = bankNet.connect /\ net.link = bankNet.link
    BY <1>1, <2>2, <2>3 DEF BankNet
  <2>5. \A c : BankPhase(c, net) <=> BankPhase(c, bankNet)
    BY <2>4 DEF BankPhase
  <2>6. net = [bankNet EXCEPT !.gone[i] = now]
    BY <1>1, <2>1, <2>3 DEF BankNet
  <2>7. QED
    BY <2>2, <2>4, <2>5, <2>6
<1>5. CASE DisconnectClick(i)
  <2>1. PICK net \in BankNet, gone \in [Bank -> {"no", "sent", "run"}] :
               /\ net = [bankNet EXCEPT !.gone[i] = "sent"] /\ net.gone = gone
               /\ net.list = bankNet.list /\ net.sync = bankNet.sync
               /\ BankPhase(b, net)
               /\ gone[i] = "sent" /\ \A j \in Bank : j # i => gone[j] = bankNet.gone[j]
    BY <1>1, <1>3, <1>4
  <2>2. bankNet.gone[i] = "no"
    BY <1>5 DEF DisconnectClick
  <2>3. ListDue(b, net) <=> ListDue(bank, bankNet)
    BY <1>3, <2>1, <2>2 DEF ListDue
  <2>4. bank' = b /\ bankNet' = net /\ bankBook' = book
    BY <1>2, <1>3, <1>5, <2>1 DEF DisconnectClick
  <2>5. QED
    BY <1>1, <1>2, <1>3, <2>1, <2>3, <2>4, BankMoves
<1>6. CASE DisconnectRuns(i)
  <2>1. PICK net \in BankNet, gone \in [Bank -> {"no", "sent", "run"}] :
               /\ net = [bankNet EXCEPT !.gone[i] = "run"] /\ net.gone = gone
               /\ net.list = bankNet.list /\ BankPhase(b, net) /\ gone[i] = "run"
    BY <1>1, <1>3, <1>4
  <2>2. PICK after :
           after = [items |-> bankBook.items \ {i}, synced |-> bankBook.synced \ {i}]
    OBVIOUS
  <2>3. after \in ItemBook /\ after.synced \subseteq after.items
    BY <1>1, <2>2 DEF ItemBook
  <2>4. ListDue(b, net)
    BY <2>1 DEF ListDue
  <2>5. bank' = b /\ bankNet' = net /\ bankBook' = after
    BY <1>3, <1>6, <2>1, <2>2 DEF DisconnectRuns
  <2>6. QED
    BY <1>1, <1>3, <2>1, <2>3, <2>4, <2>5, BankMoves
<1>7. PICK net \in BankNet :
         /\ net = [bankNet EXCEPT !.gone[i] = "no"]
         /\ net.list = bankNet.list /\ BankPhase(bank, net)
  BY <1>1, <1>4
<1>8. CASE DisconnectAnswered(i)
  <2>1. Listed(b, net) /\ UNCHANGED bankBook
    BY <1>3, <1>7, <1>8 DEF DisconnectAnswered
  <2>2. QED
    BY <1>3, <1>7, <2>1, ListsAgain
<1>9. CASE DisconnectFailed(i)
  <2>1. PICK c : c = [bank EXCEPT !.calm = FALSE]
    OBVIOUS
  <2>2. /\ c \in BankPage /\ c.step = bank.step /\ c.connecting = bank.connecting
        /\ c.item = bank.item /\ c.syncing = bank.syncing /\ c.items = bank.items
        /\ c.synced = bank.synced /\ ~c.calm
    BY <1>1, <2>1 DEF BankPage
  <2>3. BankPhase(c, net)
    BY <1>7, <2>2 DEF BankPhase
  <2>4. bank' = c /\ bankNet' = net /\ bankBook' = book
    BY <1>2, <1>7, <1>9, <2>1 DEF DisconnectFailed
  <2>5. QED
    BY <1>1, <1>2, <1>7, <2>2, <2>3, <2>4, BankMoves
<1>10. QED
  BY <1>5, <1>6, <1>8, <1>9

LEMMA BankStepKeeps == BankInv /\ [BanksNext]_bankVars => BankInv'
<1>1. BankInv /\ UNCHANGED bankVars => BankInv'
  BY DEF BankInv, bankVars
<1>2. QED
  BY <1>1, ListStep, ConnectStep, ExchangeStep, LinkStep, BankSyncStep, DisconnectStep
  DEF BanksNext

LEMMA BankTypes == DatShape /\ BankInv => DatTypeOK
BY DatAssumption
DEF DatShape, DatTypeOK, BankInv, BankGood, BankShape, BankPhase, BankPage, BankNet, ItemBook

(* Quiet and nothing to be mapped: no list is due, and none under way. *)
LEMMA QuietFresh == BankInv => DatListFresh
<1> SUFFICES ASSUME BankInv, bank.calm, bank.step # "mapping", bankNet = Quiet
             PROVE  bank.items = bankBook.items /\ bank.synced = bankBook.synced
  BY DEF DatListFresh
<1>1. /\ \A l \in Lists : ~bankNet.list[l].out
      /\ bankNet.sync = "no" /\ \A i \in Bank : bankNet.gone[i] = "no"
  BY DEF Quiet, NoList
<1>2. ~ListDue(bank, bankNet)
  BY <1>1 DEF ListDue
<1>3. QED
  BY <1>1, <1>2 DEF BankInv, BankGood, Brought
-----------------------------------------------------------------------------
(* The accounts page.  Whatever copy of an account's row the page or a     *)
(* request holds, the server's row is that copy, or of a later version, or *)
(* gone.  A version is never used again, so the row of the version a form  *)
(* was opened with is the form's row. *)
AccRow == [parent : AccAccount \cup {NoOne}, ver : Int]
AccRows == [AccAccount -> AccRow]
AccLoads == [out : BOOLEAN, run : BOOLEAN, range : Ranges, list : AccRows]
AccForms == [open : BOOLEAN, of : AccAccount \cup {NoOne}, row : AccRow,
             parent : AccAccount \cup {NoOne}, saving : BOOLEAN]
AccSaves == [out : BOOLEAN, run : BOOLEAN, own : BOOLEAN, ok : BOOLEAN,
             of : AccAccount \cup {NoOne}, row : AccRow, ver : Int,
             parent : AccAccount \cup {NoOne}, range : Ranges]
AccDeletes == [out : BOOLEAN, run : BOOLEAN, ok : BOOLEAN,
               of : AccAccount \cup {NoOne}, range : Ranges]
AccNets == [load : [Load -> AccLoads], save : AccSaves, delete : AccDeletes, ops : Int]

(* A copy r of the row of a. *)
Copy(book, a, r) ==
    \/ book[a].ver = -1
    \/ r.ver <= book[a].ver /\ (r.ver = book[a].ver => r = book[a])
Copies(book, list) == list \in AccRows /\ \A a \in AccAccount : Copy(book, a, list[a])
AccEdited(book, of, row) == of # NoOne => row.ver > 0 /\ Copy(book, of, row)

BookGood(book) ==
    /\ book \in AccRows
    /\ \A a \in AccAccount : book[a].ver >= -1 /\ (book[a].ver = 0 => book[a] = Missing)
PageGood(m, book) ==
    /\ m = [list |-> m.list, range |-> m.range, loading |-> m.loading, filter |-> m.filter,
            form |-> m.form, wizard |-> m.wizard]
    /\ m.filter \in Ranges /\ m.form \in AccForms
    /\ Copies(book, m.list) /\ AccEdited(book, m.form.of, m.form.row)
NetGood(net, book) ==
    /\ net \in AccNets
    /\ \A k \in Load : Copies(book, net.load[k].list)
    /\ AccEdited(book, net.save.of, net.save.row)
    /\ net.save.of # NoOne => net.save.ver = net.save.row.ver

AccInv == BookGood(accBook) /\ PageGood(acc, accBook) /\ NetGood(accNet, accBook)

LEMMA BlankGood ==
    /\ Missing \in AccRow /\ Gone \in AccRow /\ NoAnswer \in AccRows
    /\ NoForm \in AccForms /\ NoLoad \in AccLoads
    /\ NoSave \in AccSaves /\ NoDelete \in AccDeletes
BY DEF Missing, Gone, NoAnswer, NoForm, NoLoad, NoSave, NoDelete, AccRow, AccRows, AccForms,
       AccLoads, AccSaves, AccDeletes, Ranges

(* The empty list is a copy of any books. *)
LEMMA NoAnswerCopies == ASSUME NEW book, BookGood(book) PROVE Copies(book, NoAnswer)
<1>1. ASSUME NEW a \in AccAccount PROVE Copy(book, a, NoAnswer[a])
  <2>1. NoAnswer[a] = Missing /\ Missing.ver = 0 /\ book[a] \in AccRow
    BY DEF NoAnswer, Missing, BookGood, AccRows
  <2>2. book[a].ver \in Int /\ book[a].ver >= -1 /\ (book[a].ver = 0 => book[a] = Missing)
    BY <2>1 DEF BookGood, AccRow
  <2>3. QED
    BY <2>1, <2>2 DEF Copy
<1>2. QED
  BY <1>1, BlankGood DEF Copies

LEMMA FirstGood ==
    BookGood(FirstBook) /\ PageGood(AccPage, FirstBook) /\ NetGood(AccSent, FirstBook)
<1>1. BookGood(FirstBook)
  <2>1. ASSUME NEW a \in AccAccount
        PROVE  /\ FirstBook[a] \in AccRow
               /\ FirstBook[a].ver >= -1 /\ (FirstBook[a].ver = 0 => FirstBook[a] = Missing)
    <3>1. CASE a \in DOMAIN FirstTree
      <4>1. FirstBook[a] = [parent |-> FirstTree[a], ver |-> 1]
        BY <3>1 DEF FirstBook
      <4>2. FirstTree[a] \in AccAccount \cup {NoOne}
        BY <3>1, AccAssumption
      <4>3. QED
        BY <4>1, <4>2 DEF AccRow
    <3>2. CASE a \notin DOMAIN FirstTree
      BY <3>2, BlankGood DEF FirstBook, Missing
    <3>3. QED
      BY <3>1, <3>2
  <2>2. FirstBook \in AccRows
    BY <2>1 DEF FirstBook, AccRows
  <2>3. QED
    BY <2>1, <2>2 DEF BookGood
<1>2. Copies(FirstBook, NoAnswer)
  BY <1>1, NoAnswerCopies
<1>3. PageGood(AccPage, FirstBook)
  BY <1>2, BlankGood DEF AccPage, PageGood, NoForm, AccEdited, Ranges
<1>4. NetGood(AccSent, FirstBook)
  <2>1. [NoLoad EXCEPT !.out = TRUE, !.range = "today"] \in AccLoads
        /\ [NoLoad EXCEPT !.out = TRUE, !.range = "today"].list = NoAnswer
        /\ NoLoad.list = NoAnswer
    BY BlankGood DEF NoLoad, AccLoads, Ranges
  <2>2. AccSent.load \in [Load -> AccLoads]
        /\ \A k \in Load : AccSent.load[k].list = NoAnswer
    BY <2>1, BlankGood DEF AccSent
  <2>3. AccSent.save = NoSave /\ AccSent \in AccNets
    BY <2>2, BlankGood, AccAssumption DEF AccSent, AccNets
  <2>4. QED
    BY <1>2, <2>2, <2>3 DEF NetGood, AccEdited, NoSave
<1>5. QED
  BY <1>1, <1>3, <1>4

-----------------------------------------------------------------------------
(* Rows that go or take a later version leave every copy one. *)
Later(book, new) ==
    \A a \in AccAccount : \/ new[a] = book[a] \/ new[a].ver = -1
                          \/ book[a].ver # -1 /\ new[a].ver > book[a].ver

LEMMA CopyLater ==
    ASSUME NEW book \in AccRows, NEW new \in AccRows, Later(book, new),
           NEW a \in AccAccount, NEW r \in AccRow, Copy(book, a, r)
    PROVE  Copy(new, a, r)
<1>1. book[a].ver \in Int /\ new[a].ver \in Int /\ r.ver \in Int
  BY DEF AccRows, AccRow
<1>2. QED
  BY <1>1 DEF Copy, Later

LEMMA CopiesLater ==
    ASSUME NEW book, BookGood(book), NEW new, BookGood(new), Later(book, new)
    PROVE  /\ \A list : Copies(book, list) => Copies(new, list)
           /\ \A of \in AccAccount \cup {NoOne} : \A row \in AccRow :
                AccEdited(book, of, row) => AccEdited(new, of, row)
           /\ \A m : PageGood(m, book) => PageGood(m, new)
           /\ \A net : NetGood(net, book) => NetGood(net, new)
<1>1. book \in AccRows /\ new \in AccRows
  BY DEF BookGood
<1>2. ASSUME NEW list, Copies(book, list) PROVE Copies(new, list)
  <2>1. list \in AccRows /\ \A a \in AccAccount : list[a] \in AccRow
    BY <1>2 DEF Copies, AccRows
  <2>2. QED
    BY <1>1, <1>2, <2>1, CopyLater DEF Copies
<1>3. ASSUME NEW of \in AccAccount \cup {NoOne}, NEW row \in AccRow, AccEdited(book, of, row)
      PROVE  AccEdited(new, of, row)
  BY <1>1, <1>3, CopyLater DEF AccEdited
<1>4. ASSUME NEW m, PageGood(m, book) PROVE PageGood(m, new)
  <2>1. m.form.of \in AccAccount \cup {NoOne} /\ m.form.row \in AccRow
    BY <1>4 DEF PageGood, AccForms
  <2>2. Copies(new, m.list) /\ AccEdited(new, m.form.of, m.form.row)
    BY <1>2, <1>3, <1>4, <2>1 DEF PageGood
  <2>3. QED
    BY <1>4, <2>2 DEF PageGood
<1>5. ASSUME NEW net, NetGood(net, book) PROVE NetGood(net, new)
  <2>1. net.save.of \in AccAccount \cup {NoOne} /\ net.save.row \in AccRow
    BY <1>5 DEF NetGood, AccNets, AccSaves
  <2>2. /\ \A k \in Load : Copies(new, net.load[k].list)
        /\ AccEdited(new, net.save.of, net.save.row)
    BY <1>2, <1>3, <1>5, <2>1 DEF NetGood
  <2>3. QED
    BY <1>5, <2>2 DEF NetGood
<1>6. QED
  BY <1>2, <1>3, <1>4, <1>5

(* A step that leaves the books alone, or makes them later. *)
LEMMA BooksMove ==
    ASSUME AccInv, BookGood(accBook'), Later(accBook, accBook'),
           PageGood(acc', accBook), NetGood(accNet', accBook)
    PROVE  AccInv'
BY CopiesLater DEF AccInv

LEMMA BooksStay ==
    ASSUME AccInv, UNCHANGED accBook, PageGood(acc', accBook), NetGood(accNet', accBook)
    PROVE  AccInv'
BY DEF AccInv

-----------------------------------------------------------------------------
(* The page and the requests, piece by piece. *)
LEMMA PutForm ==
    ASSUME NEW m, NEW book, PageGood(m, book), NEW f \in AccForms, AccEdited(book, f.of, f.row)
    PROVE  PageGood([m EXCEPT !.form = f], book)
BY DEF PageGood

LEMMA PutWizard ==
    ASSUME NEW m, NEW book, PageGood(m, book), NEW W
    PROVE  PageGood([m EXCEPT !.wizard = W], book)
BY DEF PageGood

LEMMA PutLoad ==
    ASSUME NEW net, NEW book, NetGood(net, book), NEW k \in Load,
           NEW l \in AccLoads, Copies(book, l.list)
    PROVE  NetGood([net EXCEPT !.load[k] = l], book)
<1> DEFINE new == [net.load EXCEPT ![k] = l]
<1>1. net.load \in [Load -> AccLoads] /\ [net EXCEPT !.load[k] = l] = [net EXCEPT !.load = new]
  BY DEF NetGood, AccNets
<1>2. new \in [Load -> AccLoads] /\ \A j \in Load : Copies(book, new[j].list)
  BY <1>1 DEF NetGood
<1> HIDE DEF new
<1>3. QED
  BY <1>1, <1>2 DEF NetGood, AccNets

LEMMA PutSave ==
    ASSUME NEW net, NEW book, NetGood(net, book), NEW s \in AccSaves,
           AccEdited(book, s.of, s.row), s.of # NoOne => s.ver = s.row.ver
    PROVE  NetGood([net EXCEPT !.save = s], book)
BY DEF NetGood, AccNets

LEMMA PutDelete ==
    ASSUME NEW net, NEW book, NetGood(net, book), NEW d \in AccDeletes
    PROVE  NetGood([net EXCEPT !.delete = d], book)
BY DEF NetGood, AccNets

LEMMA PutSpent ==
    ASSUME NEW net, NEW book, NetGood(net, book)
    PROVE  /\ NetGood(Spent(net), book)
           /\ Spent(net).save = net.save /\ Spent(net).delete = net.delete
BY DEF NetGood, AccNets, Spent

LEMMA LoadDataGood ==
    ASSUME NEW book, BookGood(book), NEW m, PageGood(m, book), NEW net, NetGood(net, book),
           NEW range \in Ranges, LoadData(m, net, range)
    PROVE  PageGood(acc', book) /\ NetGood(accNet', book)
<1> DEFINE f == [m.form EXCEPT !.saving = FALSE, !.parent = m.form.row.parent]
           s == [net.save EXCEPT !.own = FALSE]
           l == [NoLoad EXCEPT !.out = TRUE, !.range = range]
           k == CHOOSE j \in FreeLoad(net) : TRUE
<1>1. f \in AccForms /\ f.of = m.form.of /\ f.row = m.form.row
  BY DEF PageGood, AccForms, AccRow
<1>2. s \in AccSaves /\ s.of = net.save.of /\ s.row = net.save.row /\ s.ver = net.save.ver
  BY DEF NetGood, AccNets, AccSaves
<1>3. l \in AccLoads /\ Copies(book, l.list)
  BY BlankGood, NoAnswerCopies DEF NoLoad, AccLoads
<1>4. k \in Load
  BY DEF LoadData, FreeLoad
<1>5. acc' = [[m EXCEPT !.form = f] EXCEPT !.loading = TRUE]
  BY DEF LoadData, PageGood
<1>6. accNet' = [[net EXCEPT !.save = s] EXCEPT !.load[k] = l]
  BY DEF LoadData, NetGood, AccNets
<1> HIDE DEF f, s, l, k
<1>7. PageGood([m EXCEPT !.form = f], book)
  BY <1>1, PutForm DEF PageGood
<1>8. PageGood(acc', book)
  BY <1>5, <1>7 DEF PageGood
<1>9. NetGood([net EXCEPT !.save = s], book)
  BY <1>2, PutSave DEF NetGood
<1>10. NetGood(accNet', book)
  BY <1>3, <1>4, <1>6, <1>9, PutLoad
<1>11. QED
  BY <1>8, <1>10

-----------------------------------------------------------------------------
(* The steps. *)
LEMMA FilterKeeps == ASSUME AccInv, NEW r \in Ranges, SetFilter(r) PROVE AccInv'
<1>1. PageGood([acc EXCEPT !.filter = r], accBook)
  BY DEF AccInv, PageGood
<1>2. QED
  BY <1>1, PutSpent, LoadDataGood, BooksStay DEF SetFilter, AccInv

LEMMA LoadKeeps ==
    ASSUME AccInv, NEW k \in Load,
           RunAccounts(k) \/ AccountsAnswered(k) \/ AccountsFailed(k)
    PROVE  AccInv'
<1>1. accNet.load[k] \in AccLoads /\ Copies(accBook, accNet.load[k].list)
  BY DEF AccInv, NetGood, AccNets
<1>2. Copies(accBook, NoLoad.list)
  BY NoAnswerCopies DEF AccInv, NoLoad
<1>3. CASE RunAccounts(k)
  <2> DEFINE l == [accNet.load[k] EXCEPT !.run = TRUE, !.list = accBook]
  <2>1. accBook \in AccRows /\ Copies(accBook, accBook)
    BY DEF AccInv, BookGood, Copies, Copy, AccRows, AccRow
  <2>2. l \in AccLoads /\ l.list = accBook
    BY <1>1, <2>1 DEF AccLoads
  <2>3. accNet' = [accNet EXCEPT !.load[k] = l]
    BY <1>3 DEF RunAccounts, AccInv, NetGood, AccNets
  <2> HIDE DEF l
  <2>4. NetGood(accNet', accBook)
    BY <2>1, <2>2, <2>3, PutLoad DEF AccInv
  <2>5. QED
    BY <1>3, <2>4 DEF RunAccounts, AccInv
<1>4. CASE AccountsAnswered(k)
  <2>1. PageGood(acc', accBook)
    BY <1>1, <1>4 DEF AccountsAnswered, AccInv, PageGood
  <2>2. NetGood(accNet', accBook)
    BY <1>2, <1>4, BlankGood, PutLoad DEF AccountsAnswered, AccInv
  <2>3. QED
    BY <1>4, <2>1, <2>2, BooksStay DEF AccountsAnswered
<1>5. CASE AccountsFailed(k)
  <2>1. PageGood(acc', accBook)
    BY <1>5 DEF AccountsFailed, AccInv, PageGood
  <2>2. NetGood(accNet', accBook)
    BY <1>2, <1>5, BlankGood, PutLoad DEF AccountsFailed, AccInv
  <2>3. QED
    BY <1>5, <2>1, <2>2, BooksStay DEF AccountsFailed
<1>6. QED
  BY <1>3, <1>4, <1>5

(* The row an edit starts from is listed, so it is a copy of a version. *)
LEMMA EditKeeps == ASSUME AccInv, NEW a \in AccAccount, HandleEdit(a) PROVE AccInv'
<1> DEFINE f == [open |-> TRUE, of |-> a, row |-> acc.list[a],
                 parent |-> acc.list[a].parent, saving |-> FALSE]
<1>1. a \in Present(acc.list)
  BY DEF HandleEdit, Clickable, InTree
<1>2. acc.list \in AccRows /\ Copy(accBook, a, acc.list[a]) /\ acc.list[a].ver > 0
  BY <1>1 DEF AccInv, PageGood, Copies, Present
<1>3. f \in AccForms /\ AccEdited(accBook, f.of, f.row)
  BY <1>2 DEF AccForms, AccRows, AccRow, AccEdited
<1>4. acc' = [acc EXCEPT !.form = f]
  BY DEF HandleEdit
<1> HIDE DEF f
<1>5. PageGood(acc', accBook)
  BY <1>3, <1>4, PutForm DEF AccInv
<1>6. QED
  BY <1>5 DEF HandleEdit, AccInv

LEMMA ButtonsKeep ==
    ASSUME AccInv, \/ NewAccount \/ WizardClosed \/ WizardFinished
                   \/ \E a \in AccAccount : HandleReconcile(a)
    PROVE  AccInv'
<1>1. CASE NewAccount
  <2>1. [NoForm EXCEPT !.open = TRUE] \in AccForms
        /\ [NoForm EXCEPT !.open = TRUE].of = NoOne
    BY BlankGood DEF NoForm, AccForms
  <2>2. QED
    BY <1>1, <2>1, PutForm, BooksStay DEF NewAccount, AccInv, AccEdited
<1>2. CASE WizardClosed \/ \E a \in AccAccount : HandleReconcile(a)
  <2>1. PICK W : acc' = [acc EXCEPT !.wizard = W]
    BY <1>2 DEF WizardClosed, HandleReconcile
  <2>2. PageGood(acc', accBook)
    BY <2>1, PutWizard DEF AccInv
  <2>3. QED
    BY <1>2, <2>2 DEF WizardClosed, HandleReconcile, AccInv
<1>3. CASE WizardFinished
  <2>1. acc.filter \in Ranges
    BY DEF AccInv, PageGood
  <2>2. QED
    BY <1>3, <2>1, PutWizard, PutSpent, LoadDataGood, BooksStay DEF WizardFinished, AccInv
<1>4. QED
  BY <1>1, <1>2, <1>3

LEMMA DeleteKeeps ==
    ASSUME AccInv, \/ RunDelete \/ DeleteAnswered \/ DeleteFailed
                   \/ \E a \in AccAccount : HandleDelete(a)
    PROVE  AccInv'
<1>1. accNet.delete \in AccDeletes /\ acc.filter \in Ranges
  BY DEF AccInv, NetGood, AccNets, PageGood
<1>2. CASE \E a \in AccAccount : HandleDelete(a)
  <2>1. PICK a \in AccAccount : HandleDelete(a)
    BY <1>2
  <2>2. [NoDelete EXCEPT !.out = TRUE, !.of = a, !.range = acc.filter] \in AccDeletes
    BY <1>1, BlankGood DEF AccDeletes
  <2>3. QED
    BY <2>1, <2>2, PutSpent, PutDelete, BooksStay DEF HandleDelete, AccInv
<1>3. CASE RunDelete
  <2> DEFINE a == accNet.delete.of
             ok == a \in Present(accBook) \ Fixed /\ Children(accBook, a) = {}
             d == [accNet.delete EXCEPT !.run = TRUE, !.ok = ok]
  <2>1. d \in AccDeletes
    BY <1>1 DEF AccDeletes
  <2>2. accNet' = [accNet EXCEPT !.delete = d]
    BY <1>3 DEF RunDelete, AccInv, NetGood, AccNets
  <2>3. BookGood(accBook') /\ Later(accBook, accBook')
    <3>1. accBook' = accBook \/ (a \in AccAccount /\ accBook' = [accBook EXCEPT ![a] = Gone])
      BY <1>3 DEF RunDelete, Present
    <3>2. QED
      BY <3>1, BlankGood DEF AccInv, BookGood, AccRows, Later, Gone
  <2> HIDE DEF d
  <2>4. NetGood(accNet', accBook)
    BY <2>1, <2>2, PutDelete DEF AccInv
  <2>5. PageGood(acc', accBook)
    BY <1>3 DEF RunDelete, AccInv
  <2>6. QED
    BY <2>3, <2>4, <2>5, BooksMove
<1>4. CASE DeleteAnswered
  <2>1. NetGood([accNet EXCEPT !.delete = NoDelete], accBook) /\ accNet.delete.range \in Ranges
    BY <1>1, BlankGood, PutDelete DEF AccInv, AccDeletes
  <2>2. QED
    BY <1>4, <2>1, LoadDataGood, BooksStay DEF DeleteAnswered, AccInv
<1>5. CASE DeleteFailed
  BY <1>5, BlankGood, PutDelete, BooksStay DEF DeleteFailed, AccInv
<1>6. QED
  BY <1>2, <1>3, <1>4, <1>5

-----------------------------------------------------------------------------
LEMMA FormKeeps ==
    ASSUME AccInv, \/ CloseAccountForm \/ SubmitAccount
                   \/ \E p \in AccAccount \cup {NoOne} : ChooseParent(p)
    PROVE  AccInv'
<1> DEFINE f == acc.form
<1>1. f \in AccForms /\ AccEdited(accBook, f.of, f.row) /\ acc.filter \in Ranges
  BY DEF AccInv, PageGood
<1>2. CASE \E p \in AccAccount \cup {NoOne} : ChooseParent(p)
  <2>1. PICK p \in AccAccount \cup {NoOne} : ChooseParent(p)
    BY <1>2
  <2> DEFINE g == [f EXCEPT !.parent = p]
  <2>2. g \in AccForms /\ g.of = f.of /\ g.row = f.row
    BY <1>1 DEF AccForms
  <2>3. acc' = [acc EXCEPT !.form = g]
    BY <2>1 DEF ChooseParent, AccInv, PageGood
  <2> HIDE DEF g
  <2>4. QED
    BY <1>1, <2>1, <2>2, <2>3, PutForm, BooksStay DEF ChooseParent, AccInv
<1>3. CASE CloseAccountForm
  <2> DEFINE s == [accNet.save EXCEPT !.own = FALSE]
  <2>1. s \in AccSaves /\ s.of = accNet.save.of /\ s.row = accNet.save.row
        /\ s.ver = accNet.save.ver
    BY DEF AccInv, NetGood, AccNets, AccSaves
  <2>2. accNet' = [accNet EXCEPT !.save = s]
    BY <1>3 DEF CloseAccountForm, AccInv, NetGood, AccNets
  <2> HIDE DEF s
  <2>3. NetGood(accNet', accBook)
    BY <2>1, <2>2, PutSave DEF AccInv, NetGood
  <2>4. NoForm.of = NoOne
    BY DEF NoForm
  <2>5. QED
    BY <1>3, <2>3, <2>4, BlankGood, PutForm, BooksStay DEF CloseAccountForm, AccInv, AccEdited
<1>4. CASE SubmitAccount
  <2> DEFINE g == [f EXCEPT !.saving = TRUE]
             s == [NoSave EXCEPT !.out = TRUE, !.own = TRUE, !.of = f.of, !.row = f.row,
                     !.ver = IF f.of = NoOne THEN 0 ELSE SentVersion(f),
                     !.parent = Parent(f.parent), !.range = acc.filter]
  <2>1. g \in AccForms /\ g.of = f.of /\ g.row = f.row
    BY <1>1 DEF AccForms
  <2>2. acc' = [acc EXCEPT !.form = g]
    BY <1>4 DEF SubmitAccount, AccInv, PageGood
  <2>3. Parent(f.parent) \in AccAccount \cup {NoOne}
    BY <1>1, AccAssumption DEF Parent, AccForms
  <2>4. /\ s \in AccSaves /\ s.of = f.of /\ s.row = f.row
        /\ s.of # NoOne => s.ver = s.row.ver
    BY <1>1, <2>3, BlankGood DEF AccForms, AccSaves, NoSave, SentVersion, AccRow
  <2>5. accNet' = [Spent(accNet) EXCEPT !.save = s]
    BY <1>4 DEF SubmitAccount
  <2> HIDE DEF g, s
  <2>6. NetGood(accNet', accBook)
    BY <1>1, <2>4, <2>5, PutSpent, PutSave DEF AccInv
  <2>7. PageGood(acc', accBook)
    BY <1>1, <2>1, <2>2, PutForm DEF AccInv
  <2>8. QED
    BY <1>4, <2>6, <2>7 DEF SubmitAccount, AccInv
<1>5. QED
  BY <1>2, <1>3, <1>4

(* The server's side of a save, and what another tab does. *)
LEMMA AccSaveRuns ==
    ASSUME AccInv, NEW b \in BOOLEAN,
           accNet' = [accNet EXCEPT !.save.run = TRUE, !.save.ok = b]
    PROVE  NetGood(accNet', accBook)
<1> DEFINE s == [accNet.save EXCEPT !.run = TRUE, !.ok = b]
<1>1. s \in AccSaves /\ s.of = accNet.save.of /\ s.row = accNet.save.row
      /\ s.ver = accNet.save.ver
  BY DEF AccInv, NetGood, AccNets, AccSaves
<1>2. accNet' = [accNet EXCEPT !.save = s]
  BY DEF AccInv, NetGood, AccNets
<1> HIDE DEF s
<1>3. AccEdited(accBook, s.of, s.row) /\ (s.of # NoOne => s.ver = s.row.ver)
  BY <1>1 DEF AccInv, NetGood
<1>4. NetGood([accNet EXCEPT !.save = s], accBook)
  BY <1>1, <1>3, PutSave DEF AccInv
<1>5. QED
  BY <1>2, <1>4

LEMMA RowLater ==
    ASSUME NEW book, BookGood(book), NEW a \in AccAccount, NEW r \in AccRow,
           book[a].ver >= 0, r.ver = book[a].ver + 1
    PROVE  BookGood([book EXCEPT ![a] = r]) /\ Later(book, [book EXCEPT ![a] = r])
<1> DEFINE new == [book EXCEPT ![a] = r]
<1>1. book \in AccRows /\ book[a].ver \in Int
  BY DEF BookGood, AccRows, AccRow
<1>2. new \in AccRows /\ \A b \in AccAccount : new[b] = IF b = a THEN r ELSE book[b]
  BY <1>1 DEF AccRows
<1> HIDE DEF new
<1>3. BookGood(new) /\ Later(book, new)
  BY <1>1, <1>2 DEF BookGood, Later
<1>4. QED
  BY <1>3 DEF new

LEMMA CreateKeeps == ASSUME AccInv, RunCreate PROVE AccInv'
<1>1. PICK a \in AccAccount :
        /\ accBook[a] = Missing
        /\ accBook' = IF ParentThere
             THEN [accBook EXCEPT ![a] = [parent |-> accNet.save.parent, ver |-> 1]]
             ELSE accBook
  BY DEF RunCreate
<1> DEFINE r == [parent |-> accNet.save.parent, ver |-> 1]
<1>2. r \in AccRow /\ r.ver = accBook[a].ver + 1 /\ accBook[a].ver >= 0
  BY <1>1 DEF AccInv, NetGood, AccNets, AccSaves, AccRow, Missing
<1> HIDE DEF r
<1>3. BookGood(accBook') /\ Later(accBook, accBook')
  <2>1. accBook' = accBook \/ accBook' = [accBook EXCEPT ![a] = r]
    BY <1>1 DEF r
  <2>2. BookGood(accBook) /\ Later(accBook, accBook)
    BY DEF AccInv, Later
  <2>3. QED
    BY <1>2, <2>1, <2>2, RowLater
<1>4. NetGood(accNet', accBook)
  <2> DEFINE there == ParentThere
  <2>1. there \in BOOLEAN /\ accNet' = [accNet EXCEPT !.save.run = TRUE, !.save.ok = there]
    BY DEF RunCreate, ParentThere
  <2> HIDE DEF there
  <2>2. QED
    BY <2>1, AccSaveRuns
<1>5. PageGood(acc', accBook)
  BY DEF RunCreate, AccInv
<1>6. QED
  BY <1>3, <1>4, <1>5, BooksMove

(* The heart of the matter: the version that matches is of a row the form  *)
(* had a copy of, so it is that row. *)
LEMMA MatchIsCopy ==
    ASSUME AccInv, accNet.save.of # NoOne, accBook[accNet.save.of].ver = accNet.save.ver
    PROVE  /\ accNet.save.of \in AccAccount /\ accNet.save.ver > 0
           /\ accBook[accNet.save.of] = accNet.save.row
<1>1. /\ accNet.save.of \in AccAccount /\ accNet.save.row.ver > 0
      /\ accNet.save.ver = accNet.save.row.ver
      /\ Copy(accBook, accNet.save.of, accNet.save.row)
  BY DEF AccInv, NetGood, AccNets, AccSaves, AccEdited
<1>2. QED
  BY <1>1 DEF Copy

LEMMA UpdateKeeps == ASSUME AccInv, RunUpdate PROVE AccInv'
<1> DEFINE s == accNet.save
           ok == accBook[s.of].ver = s.ver /\ ParentThere
           r == [parent |-> IF s.parent = NoOne THEN accBook[s.of].parent ELSE s.parent,
                 ver |-> accBook[s.of].ver + 1]
<1>1. s.of \in AccAccount /\ s.parent \in AccAccount \cup {NoOne} /\ accBook[s.of] \in AccRow
  BY DEF RunUpdate, AccInv, NetGood, AccNets, AccSaves, BookGood, AccRows
<1>2. r \in AccRow /\ r.ver = accBook[s.of].ver + 1
  BY <1>1 DEF AccRow
<1>3. ok => accBook[s.of].ver >= 0
  BY <1>1, MatchIsCopy DEF RunUpdate, AccRow
<1>4. accBook' = IF ok THEN [accBook EXCEPT ![s.of] = r] ELSE accBook
  BY <1>1 DEF RunUpdate, AccInv, BookGood, AccRows
<1>5. BookGood(accBook') /\ Later(accBook, accBook')
  <2> HIDE DEF r, ok
  <2>1. QED
    BY <1>1, <1>2, <1>3, <1>4, RowLater DEF AccInv, Later
<1>6. NetGood(accNet', accBook)
  <2>1. ok \in BOOLEAN /\ accNet' = [accNet EXCEPT !.save.run = TRUE, !.save.ok = ok]
    BY DEF RunUpdate, ParentThere
  <2> HIDE DEF ok
  <2>2. QED
    BY <2>1, AccSaveRuns
<1>7. PageGood(acc', accBook)
  BY DEF RunUpdate, AccInv
<1>8. QED
  BY <1>5, <1>6, <1>7, BooksMove

LEMMA MovedKeeps == ASSUME AccInv, NEW a \in AccAccount, MovedElsewhere(a) PROVE AccInv'
<1> DEFINE r == [parent |-> AccRoot, ver |-> accBook[a].ver + 1]
<1>1. accBook[a] \in AccRow /\ accBook[a].ver > 0
  BY DEF MovedElsewhere, AccInv, BookGood, AccRows, Present
<1>2. r \in AccRow /\ r.ver = accBook[a].ver + 1 /\ accBook[a].ver >= 0
  BY <1>1, AccAssumption DEF AccRow
<1>3. accBook' = [accBook EXCEPT ![a] = r]
  BY DEF MovedElsewhere, AccInv, BookGood, AccRows
<1> HIDE DEF r
<1>4. BookGood(accBook') /\ Later(accBook, accBook')
  BY <1>2, <1>3, RowLater DEF AccInv
<1>5. PageGood(acc', accBook) /\ NetGood(accNet', accBook)
  BY PutSpent DEF MovedElsewhere, AccInv
<1>6. QED
  BY <1>4, <1>5, BooksMove

LEMMA SavedKeeps == ASSUME AccInv, AccountSaved \/ AccountNotSaved PROVE AccInv'
<1>1. NetGood([accNet EXCEPT !.save = NoSave], accBook) /\ accNet.save.range \in Ranges
  <2>1. NoSave.of = NoOne
    BY DEF NoSave
  <2>2. QED
    BY <2>1, BlankGood, PutSave DEF AccInv, AccEdited, NetGood, AccNets, AccSaves
<1>2. CASE AccountSaved
  <2>1. NoForm.of = NoOne
    BY DEF NoForm
  <2>2. PageGood([acc EXCEPT !.form = NoForm], accBook)
    BY <2>1, BlankGood, PutForm DEF AccInv, AccEdited
  <2>3. QED
    BY <1>1, <1>2, <2>2, LoadDataGood, BooksStay DEF AccountSaved, AccInv
<1>3. CASE AccountNotSaved
  <2> DEFINE g == [acc.form EXCEPT !.saving = FALSE]
  <2>1. g \in AccForms /\ g.of = acc.form.of /\ g.row = acc.form.row
    BY DEF AccInv, PageGood, AccForms
  <2>2. acc' = acc \/ acc' = [acc EXCEPT !.form = g]
    BY <1>3 DEF AccountNotSaved, AccInv, PageGood
  <2> HIDE DEF g
  <2>3. PageGood(acc', accBook)
    BY <2>1, <2>2, PutForm DEF AccInv, PageGood
  <2>4. QED
    BY <1>1, <1>3, <2>3, BooksStay DEF AccountNotSaved
<1>4. QED
  BY <1>2, <1>3

-----------------------------------------------------------------------------
LEMMA AccStepKeeps == ASSUME AccInv, [AccNext]_accVars PROVE AccInv'
<1>1. CASE UNCHANGED accVars
  BY <1>1 DEF accVars, AccInv
<1>2. CASE AccNext
  BY <1>2, FilterKeeps, LoadKeeps, EditKeeps, ButtonsKeep, DeleteKeeps, FormKeeps,
     CreateKeeps, UpdateKeeps, MovedKeeps, SavedKeeps DEF AccNext
<1>3. QED
  BY <1>1, <1>2

THEOREM AccAlways == AccSpec => []AccInv
<1>1. AccInit => AccInv
  BY FirstGood DEF AccInit, AccInv
<1>2. QED
  BY <1>1, AccStepKeeps, PTL DEF AccSpec

(* Whatever the server's row becomes by an update is based on what it was. *)
LEMMA UpdateBased ==
    ASSUME AccInv, NEW a \in AccAccount, RunUpdate, accBook'[a] # accBook[a]
    PROVE  accNet.save.row = accBook[a]
<1>1. accBook[accNet.save.of].ver = accNet.save.ver /\ a = accNet.save.of
  BY DEF RunUpdate, AccInv, BookGood, AccRows
<1>2. QED
  BY <1>1, MatchIsCopy DEF RunUpdate

(* No update is lost: an edit the server accepts replaces the row the user *)
(* opened the form with (the version AccountForm sends and UpdateAccount   *)
(* compares), however many lists, saves, deletes and tabs are under way. *)
THEOREM EditBased == AccSpec => AccEditBased
<1>1. AccInv => [\A a \in AccAccount :
                   (RunUpdate /\ accBook'[a] # accBook[a]) => accNet.save.row = accBook[a]]_accVars
  BY UpdateBased
<1>2. QED
  BY <1>1, AccAlways, PTL DEF AccEditBased

-----------------------------------------------------------------------------
(* The tree.  Ancestors gives the least set that holds the account and the *)
(* parents of its listed members, Under the least one that holds it and    *)
(* the children of its members; the rest follows from these two facts. *)
ParentsIn(list, S) == \A b \in Present(list) : b \in S => list[b].parent \in S
ChildrenIn(list, S) == \A b \in Present(list) : list[b].parent \in S => b \in S

LEMMA AccountsFinite ==
    /\ Cardinality(AccAccount) \in Nat
    /\ IsFiniteSet(AccAccount \cup {NoOne})
    /\ Cardinality(AccAccount \cup {NoOne}) = Cardinality(AccAccount) + 1
    /\ \A S \in SUBSET AccAccount : IsFiniteSet(S) /\ Cardinality(S) \in Nat
BY AccAssumption, FS_CardinalityType, FS_AddElement, FS_Subset

LEMMA AncestorsLeast ==
    ASSUME NEW list \in AccRows, NEW a \in AccAccount \cup {NoOne}
    PROVE  /\ Ancestors(list, a) \subseteq AccAccount \cup {NoOne}
           /\ a \in Ancestors(list, a) /\ ParentsIn(list, Ancestors(list, a))
           /\ \A S : a \in S /\ ParentsIn(list, S) => Ancestors(list, a) \subseteq S
<1> DEFINE N == Cardinality(AccAccount)
           R == {<<b, list[b].parent>> : b \in Present(list)}
           one(S) == {a} \cup {e[2] : e \in {d \in R : d[1] \in S}}
           two(S) == {a} \cup {list[b].parent : b \in S \cap Present(list)}
           h == CHOOSE f : f = [n \in Depth |-> IF n = 0 THEN {a}
                  ELSE {a} \cup {list[b].parent : b \in f[n - 1] \cap Present(list)}]
<1>1. \A S : one(S) = two(S)
  <2>1. ASSUME NEW S, NEW y, y \in {e[2] : e \in {d \in R : d[1] \in S}}
        PROVE  y \in {list[b].parent : b \in S \cap Present(list)}
    <3>1. PICK e \in R : e[1] \in S /\ y = e[2]
      BY <2>1
    <3>2. PICK b \in Present(list) : e = <<b, list[b].parent>>
      BY <3>1
    <3>3. QED
      BY <3>1, <3>2
  <2>2. ASSUME NEW S, NEW b \in S \cap Present(list)
        PROVE  list[b].parent \in {e[2] : e \in {d \in R : d[1] \in S}}
    <3>1. PICK e : e = <<b, list[b].parent>>
      OBVIOUS
    <3>2. e \in R /\ e[1] = b /\ e[2] = list[b].parent
      BY <3>1
    <3>3. QED
      BY <2>2, <3>2
  <2>3. QED
    BY <2>1, <2>2
<1>2. \A f : Reaches(f, N, a, R) <=> f = [n \in Depth |-> IF n = 0 THEN {a} ELSE two(f[n - 1])]
  <2>1. \A f : Reaches(f, N, a, R) <=> f = [n \in Depth |-> IF n = 0 THEN {a} ELSE one(f[n - 1])]
    BY DEF Reaches, Depth
  <2> DEFINE u(f, n) == IF n = 0 THEN {a} ELSE one(f[n - 1])
             v(f, n) == IF n = 0 THEN {a} ELSE two(f[n - 1])
  <2>2. \A f, n : u(f, n) = v(f, n)
    BY <1>1
  <2>3. \A f : Reaches(f, N, a, R) <=> f = [n \in Depth |-> u(f, n)]
    BY <2>1
  <2> HIDE DEF u, v
  <2>4. \A f : Reaches(f, N, a, R) <=> f = [n \in Depth |-> v(f, n)]
    BY <2>2, <2>3
  <2>5. QED
    BY <2>4 DEF v
<1>3. Ancestors(list, a) = h[N]
  BY DEF Ancestors
<1>4. Reaches(h, N, a, R)
  <2>1. h = CHOOSE f : Reaches(f, N, a, R)
    BY <1>2
  <2> HIDE DEF h, R
  <2>2. \E f : Reaches(f, N, a, R)
    BY AccountsFinite, ReachesExists
  <2>3. QED
    BY <2>1, <2>2
<1>5. \A e \in R : e[2] \in AccAccount \cup {NoOne}
  BY DEF Present, AccRows, AccRow
<1>6. \A S : Along(R, S) <=> ParentsIn(list, S)
  <2>1. ASSUME NEW S, Along(R, S), NEW b \in Present(list), b \in S PROVE list[b].parent \in S
    <3>1. PICK e : e = <<b, list[b].parent>>
      OBVIOUS
    <3>2. e \in R /\ e[1] = b /\ e[2] = list[b].parent
      BY <3>1
    <3>3. QED
      BY <2>1, <3>2 DEF Along
  <2>2. ASSUME NEW S, ParentsIn(list, S) PROVE Along(R, S)
    BY <2>2 DEF Along, ParentsIn
  <2>3. QED
    BY <2>1, <2>2 DEF ParentsIn
<1> HIDE DEF h, R, N
<1>7. /\ h[N] \subseteq AccAccount \cup {NoOne} /\ a \in h[N] /\ Along(R, h[N])
      /\ \A S : a \in S /\ Along(R, S) => h[N] \subseteq S
  <2>1. PICK X : X = AccAccount \cup {NoOne}
    OBVIOUS
  <2>2. N \in Nat /\ IsFiniteSet(X) /\ Cardinality(X) <= N + 1 /\ a \in X
    BY <2>1, AccountsFinite DEF N
  <2>3. \A e \in R : e[2] \in X
    BY <1>5, <2>1
  <2>4. /\ h[N] \subseteq X /\ a \in h[N] /\ Along(R, h[N])
        /\ \A S : a \in S /\ Along(R, S) => h[N] \subseteq S
    BY <1>4, <2>2, <2>3, ReachesClosed, Zenon
  <2>5. QED
    BY <2>1, <2>4, Zenon
<1>8. QED
  BY <1>3, <1>6, <1>7

LEMMA UnderLeast ==
    ASSUME NEW list \in AccRows, NEW a \in AccAccount
    PROVE  /\ Under(list, a) \subseteq AccAccount
           /\ a \in Under(list, a) /\ ChildrenIn(list, Under(list, a))
           /\ \A S : a \in S /\ ChildrenIn(list, S) => Under(list, a) \subseteq S
<1> DEFINE N == Cardinality(AccAccount)
           R == {<<list[b].parent, b>> : b \in Present(list)}
           one(S) == {a} \cup {e[2] : e \in {d \in R : d[1] \in S}}
           two(S) == {a} \cup UNION {Children(list, b) : b \in S}
           h == CHOOSE f : f = [n \in Depth |-> IF n = 0 THEN {a}
                  ELSE {a} \cup UNION {Children(list, b) : b \in f[n - 1]}]
<1>1. \A S : one(S) = two(S)
  <2>1. ASSUME NEW S, NEW y, y \in {e[2] : e \in {d \in R : d[1] \in S}}
        PROVE  y \in UNION {Children(list, b) : b \in S}
    <3>1. PICK e \in R : e[1] \in S /\ y = e[2]
      BY <2>1
    <3>2. PICK b \in Present(list) : e = <<list[b].parent, b>>
      BY <3>1
    <3>3. y \in Children(list, e[1])
      BY <3>1, <3>2 DEF Children
    <3>4. QED
      BY <3>1, <3>3
  <2>2. ASSUME NEW S, NEW c \in S, NEW b \in Children(list, c)
        PROVE  b \in {e[2] : e \in {d \in R : d[1] \in S}}
    <3>1. PICK e : e = <<list[b].parent, b>>
      OBVIOUS
    <3>2. e \in R /\ e[1] = c /\ e[2] = b
      BY <2>2, <3>1 DEF Children
    <3>3. QED
      BY <2>2, <3>2
  <2>3. QED
    BY <2>1, <2>2
<1>2. \A f : Reaches(f, N, a, R) <=> f = [n \in Depth |-> IF n = 0 THEN {a} ELSE two(f[n - 1])]
  <2>1. \A f : Reaches(f, N, a, R) <=> f = [n \in Depth |-> IF n = 0 THEN {a} ELSE one(f[n - 1])]
    BY DEF Reaches, Depth
  <2> DEFINE u(f, n) == IF n = 0 THEN {a} ELSE one(f[n - 1])
             v(f, n) == IF n = 0 THEN {a} ELSE two(f[n - 1])
  <2>2. \A f, n : u(f, n) = v(f, n)
    BY <1>1
  <2>3. \A f : Reaches(f, N, a, R) <=> f = [n \in Depth |-> u(f, n)]
    BY <2>1
  <2> HIDE DEF u, v
  <2>4. \A f : Reaches(f, N, a, R) <=> f = [n \in Depth |-> v(f, n)]
    BY <2>2, <2>3
  <2>5. QED
    BY <2>4 DEF v
<1>3. Under(list, a) = h[N]
  BY DEF Under
<1>4. Reaches(h, N, a, R)
  <2>1. h = CHOOSE f : Reaches(f, N, a, R)
    BY <1>2
  <2> HIDE DEF h, R
  <2>2. \E f : Reaches(f, N, a, R)
    BY AccountsFinite, ReachesExists
  <2>3. QED
    BY <2>1, <2>2
<1>5. \A e \in R : e[2] \in AccAccount
  BY DEF Present
<1>6. \A S : Along(R, S) <=> ChildrenIn(list, S)
  <2>1. ASSUME NEW S, Along(R, S), NEW b \in Present(list), list[b].parent \in S PROVE b \in S
    <3>1. PICK e : e = <<list[b].parent, b>>
      OBVIOUS
    <3>2. e \in R /\ e[1] = list[b].parent /\ e[2] = b
      BY <3>1
    <3>3. QED
      BY <2>1, <3>2 DEF Along
  <2>2. ASSUME NEW S, ChildrenIn(list, S) PROVE Along(R, S)
    BY <2>2 DEF Along, ChildrenIn
  <2>3. QED
    BY <2>1, <2>2 DEF ChildrenIn
<1> HIDE DEF h, R, N
<1>7. /\ h[N] \subseteq AccAccount /\ a \in h[N] /\ Along(R, h[N])
      /\ \A S : a \in S /\ Along(R, S) => h[N] \subseteq S
  <2>1. N \in Nat /\ IsFiniteSet(AccAccount) /\ Cardinality(AccAccount) <= N + 1
    BY AccountsFinite, AccAssumption DEF N
  <2>2. QED
    BY <1>4, <1>5, <2>1, ReachesClosed
<1>8. QED
  BY <1>3, <1>6, <1>7

LEMMA AncestorsGrow ==
    ASSUME NEW list \in AccRows, NEW a \in AccAccount \cup {NoOne}, NEW b \in Ancestors(list, a)
    PROVE  b \in AccAccount \cup {NoOne} /\ Ancestors(list, b) \subseteq Ancestors(list, a)
<1>1. b \in AccAccount \cup {NoOne}
  BY AncestorsLeast
<1>2. ParentsIn(list, Ancestors(list, a))
  BY AncestorsLeast
<1>3. QED
  BY <1>1, <1>2, AncestorsLeast

LEMMA UnderGrow ==
    ASSUME NEW list \in AccRows, NEW a \in AccAccount, NEW b \in Under(list, a)
    PROVE  b \in AccAccount /\ Under(list, b) \subseteq Under(list, a)
<1>1. b \in AccAccount
  BY UnderLeast
<1>2. ChildrenIn(list, Under(list, a))
  BY UnderLeast
<1>3. QED
  BY <1>1, <1>2, UnderLeast

LEMMA ParentAbove ==
    ASSUME NEW list \in AccRows, NEW b \in Present(list)
    PROVE  /\ b \in AccAccount /\ list[b].parent \in AccAccount \cup {NoOne}
           /\ list[b].parent \in Ancestors(list, b)
           /\ Ancestors(list, list[b].parent) \subseteq Ancestors(list, b)
           /\ Ancestors(list, b) \subseteq {b} \cup Ancestors(list, list[b].parent)
<1>1. PICK p : p = list[b].parent
  OBVIOUS
<1>2. b \in AccAccount /\ p \in AccAccount \cup {NoOne}
  BY <1>1 DEF Present, AccRows, AccRow
<1>3. p \in Ancestors(list, b)
  BY <1>1, <1>2, AncestorsLeast DEF ParentsIn
<1>4. Ancestors(list, p) \subseteq Ancestors(list, b)
  BY <1>2, <1>3, AncestorsGrow
<1>5. Ancestors(list, b) \subseteq {b} \cup Ancestors(list, p)
  <2>1. PICK S : S = {b} \cup Ancestors(list, p)
    OBVIOUS
  <2>2. p \in Ancestors(list, p) /\ ParentsIn(list, Ancestors(list, p))
    BY <1>2, AncestorsLeast
  <2>3. b \in S /\ ParentsIn(list, S)
    BY <1>1, <2>1, <2>2 DEF ParentsIn
  <2>4. Ancestors(list, b) \subseteq S
    BY <1>2, <2>3, AncestorsLeast
  <2>5. QED
    BY <2>1, <2>4
<1>6. QED
  BY <1>1, <1>2, <1>3, <1>4, <1>5

LEMMA NoOneOnTop == ASSUME NEW list \in AccRows PROVE Ancestors(list, NoOne) = {NoOne}
<1>1. ParentsIn(list, {NoOne})
  BY AccAssumption DEF ParentsIn, Present
<1>2. Ancestors(list, NoOne) \subseteq {NoOne} /\ NoOne \in Ancestors(list, NoOne)
  BY <1>1, AncestorsLeast
<1>3. QED
  BY <1>2

(* Below and above are the same relation. *)
LEMMA UnderIsBelow ==
    ASSUME NEW list \in AccRows, NEW a \in AccAccount, NEW b \in AccAccount
    PROVE  b \in Under(list, a) <=> a \in Ancestors(list, b)
<1>1. ASSUME b \in Under(list, a) PROVE a \in Ancestors(list, b)
  <2>1. PICK S : S = {x \in AccAccount : a \in Ancestors(list, x)}
    OBVIOUS
  <2>2. a \in S
    BY <2>1, AncestorsLeast
  <2>3. ASSUME NEW c \in Present(list), list[c].parent \in S PROVE c \in S
    BY <2>1, <2>3, ParentAbove
  <2>4. Under(list, a) \subseteq S
    BY <2>2, <2>3, UnderLeast DEF ChildrenIn
  <2>5. QED
    BY <1>1, <2>1, <2>4
<1>2. ASSUME a \in Ancestors(list, b) PROVE b \in Under(list, a)
  <2>1. PICK S : S = {x \in AccAccount \cup {NoOne} : x = NoOne \/ b \in Under(list, x)}
    OBVIOUS
  <2>2. b \in S
    BY <2>1, UnderLeast
  <2>3. ASSUME NEW c \in Present(list), c \in S PROVE list[c].parent \in S
    <3>1. PICK p : p = list[c].parent
      OBVIOUS
    <3>2. c \in AccAccount /\ p \in AccAccount \cup {NoOne} /\ b \in Under(list, c)
      BY <2>1, <2>3, <3>1, ParentAbove, AccAssumption
    <3>3. CASE p = NoOne
      BY <2>1, <3>1, <3>3
    <3>4. CASE p # NoOne
      <4>1. p \in AccAccount
        BY <3>2, <3>4
      <4>2. c \in Under(list, p)
        BY <3>1, <4>1, UnderLeast DEF ChildrenIn
      <4>3. b \in Under(list, p)
        BY <3>2, <4>1, <4>2, UnderGrow
      <4>4. QED
        BY <2>1, <3>1, <4>1, <4>3
    <3>5. QED
      BY <3>3, <3>4
  <2>4. Ancestors(list, b) \subseteq S
    BY <2>2, <2>3, AncestorsLeast DEF ParentsIn
  <2>5. QED
    BY <1>2, <2>1, <2>4, AccAssumption
<1>3. QED
  BY <1>1, <1>2

(* The ancestors of an account are in line. *)
LEMMA InLine ==
    ASSUME NEW list \in AccRows, NEW b \in AccAccount,
           NEW x \in Ancestors(list, b), NEW y \in Ancestors(list, b)
    PROVE  x \in Ancestors(list, y) \/ y \in Ancestors(list, x)
<1>1. PICK S : S = {z \in AccAccount \cup {NoOne} : z \in Ancestors(list, y)
                                                   \/ y \in Ancestors(list, z)}
  OBVIOUS
<1>2. b \in S
  BY <1>1
<1>3. ASSUME NEW c \in Present(list), c \in S PROVE list[c].parent \in S
  <2>1. PICK p : p = list[c].parent
    OBVIOUS
  <2>2. p \in AccAccount \cup {NoOne} /\ p \in Ancestors(list, c)
        /\ Ancestors(list, c) \subseteq {c} \cup Ancestors(list, p)
    BY <2>1, ParentAbove
  <2>3. y \in AccAccount \cup {NoOne}
    BY AncestorsGrow
  <2>4. CASE c \in Ancestors(list, y)
    BY <1>1, <2>1, <2>2, <2>3, <2>4, AncestorsGrow
  <2>5. CASE y \in Ancestors(list, c)
    BY <1>1, <2>1, <2>2, <2>3, <2>5
  <2>6. QED
    BY <1>1, <1>3, <2>4, <2>5
<1>4. Ancestors(list, b) \subseteq S
  BY <1>2, <1>3, AncestorsLeast DEF ParentsIn
<1>5. QED
  BY <1>1, <1>4

(* From an account whose ancestors come to an end none leads back to it. *)
LEMMA NoCircle ==
    ASSUME NEW list \in AccRows, NEW c \in Present(list),
           NoOne \in Ancestors(list, list[c].parent)
    PROVE  c \notin Ancestors(list, list[c].parent)
<1> SUFFICES ASSUME c \in Ancestors(list, list[c].parent) PROVE FALSE
  OBVIOUS
<1>1. PICK a : a = list[c].parent
  OBVIOUS
<1>2. c \in AccAccount /\ a \in AccAccount \cup {NoOne} /\ c \in Ancestors(list, a)
      /\ a \in Ancestors(list, c) /\ NoOne \in Ancestors(list, a)
  BY <1>1, ParentAbove
<1>3. CASE a = NoOne
  BY <1>2, <1>3, NoOneOnTop, AccAssumption
<1>4. CASE a # NoOne
  <2>1. PICK S : S = {x \in AccAccount \cup {NoOne} : a \in Ancestors(list, x)}
    OBVIOUS
  <2>2. a \in S
    BY <1>2, <2>1, AncestorsLeast
  <2>3. ASSUME NEW x \in Present(list), x \in S PROVE list[x].parent \in S
    <3>1. PICK p : p = list[x].parent
      OBVIOUS
    <3>2. p \in AccAccount \cup {NoOne} /\ Ancestors(list, x) \subseteq {x} \cup Ancestors(list, p)
          /\ a \in Ancestors(list, x)
      BY <2>1, <2>3, <3>1, ParentAbove
    <3>3. CASE x # a
      BY <2>1, <3>1, <3>2, <3>3
    <3>4. CASE x = a
      <4>1. CASE c = a
        <5>1. p = a
          BY <1>1, <3>1, <3>4, <4>1
        <5>2. QED
          BY <2>2, <3>1, <5>1
      <4>2. CASE c # a
        <5>1. c \in Ancestors(list, p)
          BY <1>2, <3>2, <3>4, <4>2
        <5>2. a \in Ancestors(list, p)
          BY <1>2, <3>2, <5>1, AncestorsGrow
        <5>3. QED
          BY <2>1, <3>1, <3>2, <5>2
      <4>3. QED
        BY <4>1, <4>2
    <3>5. QED
      BY <3>3, <3>4
  <2>4. Ancestors(list, a) \subseteq S
    BY <1>2, <2>2, <2>3, AncestorsLeast DEF ParentsIn
  <2>5. a \in Ancestors(list, NoOne)
    BY <1>2, <2>1, <2>4
  <2>6. QED
    BY <1>4, <2>5, NoOneOnTop
<1>5. QED
  BY <1>3, <1>4

(* So the trees of two children of it have no account in common. *)
LEMMA SiblingsApart ==
    ASSUME NEW list \in AccRows, NEW c \in Present(list), NEW d \in Present(list), c # d,
           list[c].parent = list[d].parent, NoOne \in Ancestors(list, list[c].parent)
    PROVE  Under(list, c) \cap Under(list, d) = {}
<1>0. PICK p : p = list[c].parent /\ p = list[d].parent
  OBVIOUS
<1> SUFFICES ASSUME NEW b, b \in Under(list, c), b \in Under(list, d) PROVE FALSE
  OBVIOUS
<1>1. c \in AccAccount /\ d \in AccAccount /\ b \in AccAccount
  BY ParentAbove, UnderLeast
<1>2. c \in Ancestors(list, b) /\ d \in Ancestors(list, b)
  BY <1>1, UnderIsBelow
<1>3. /\ Ancestors(list, c) \subseteq {c} \cup Ancestors(list, p)
      /\ Ancestors(list, d) \subseteq {d} \cup Ancestors(list, p)
  BY <1>0, ParentAbove
<1>4. c \in Ancestors(list, p) \/ d \in Ancestors(list, p)
  BY <1>1, <1>2, <1>3, InLine
<1>5. QED
  BY <1>0, <1>4, NoCircle

(* A tree is its root and the trees of its children. *)
LEMMA UnderSplits ==
    ASSUME NEW list \in AccRows, NEW a \in AccAccount
    PROVE  Under(list, a) = {a} \cup UNION {Under(list, c) : c \in Children(list, a)}
<1>1. PICK S : S = {a} \cup UNION {Under(list, c) : c \in Children(list, a)}
  OBVIOUS
<1>2. ASSUME NEW c \in Children(list, a)
      PROVE  c \in AccAccount /\ c \in Under(list, a) /\ Under(list, c) \subseteq Under(list, a)
             /\ c \in Under(list, c) /\ ChildrenIn(list, Under(list, c))
  <2>1. c \in Present(list) /\ list[c].parent = a /\ c \in AccAccount
    BY DEF Children, Present
  <2>2. c \in Under(list, a)
    BY <2>1, UnderLeast DEF ChildrenIn
  <2>3. QED
    BY <2>1, <2>2, UnderGrow, UnderLeast
<1>3. S \subseteq Under(list, a)
  BY <1>1, <1>2, UnderLeast
<1>4. ASSUME NEW b \in Present(list), list[b].parent \in S PROVE b \in S
  <2>1. CASE list[b].parent = a
    <3>1. b \in Children(list, a)
      BY <2>1 DEF Children
    <3>2. b \in Under(list, b)
      BY <1>2, <3>1
    <3>3. QED
      BY <1>1, <3>1, <3>2
  <2>2. ASSUME NEW c \in Children(list, a), list[b].parent \in Under(list, c) PROVE b \in S
    <3>1. b \in Under(list, c)
      BY <1>2, <2>2 DEF ChildrenIn
    <3>2. QED
      BY <1>1, <3>1
  <2>3. QED
    BY <1>1, <1>4, <2>1, <2>2
<1>5. Under(list, a) \subseteq S
  BY <1>1, <1>4, UnderLeast DEF ChildrenIn
<1>6. QED
  BY <1>1, <1>3, <1>5

(* A list as the server sends it: no parent is missing.  Then the roots    *)
(* are the accounts at the top, and what hangs under them is what has an   *)
(* end of ancestors. *)
ParentsListed(list) ==
    \A a \in Present(list) : list[a].parent \in Present(list) \cup {NoOne}
Whole(list) == {a \in Present(list) : NoOne \in Ancestors(list, a)}

LEMMA RootsAreTop ==
    ASSUME NEW list \in AccRows, ParentsListed(list)
    PROVE  Roots(list) = Children(list, NoOne)
BY AccAssumption DEF Roots, Children, Present, ParentsListed

LEMMA UnderListed ==
    ASSUME NEW list \in AccRows, NEW a \in Present(list)
    PROVE  a \in AccAccount /\ Under(list, a) \subseteq Present(list)
<1>1. a \in AccAccount /\ ChildrenIn(list, Present(list))
  BY DEF Present, ChildrenIn
<1>2. QED
  BY <1>1, UnderLeast

LEMMA ShownIsWhole ==
    ASSUME NEW list \in AccRows, ParentsListed(list)
    PROVE  InTree(list) = Whole(list)
<1>1. ASSUME NEW a \in InTree(list) PROVE a \in Whole(list)
  <2>1. PICK r \in Roots(list) : a \in Under(list, r)
    BY DEF InTree
  <2>2. r \in Present(list) /\ list[r].parent = NoOne /\ a \in Present(list)
    BY RootsAreTop DEF Children, InTree
  <2>3. a \in AccAccount /\ r \in AccAccount /\ NoOne \in Ancestors(list, r)
    BY <2>2, ParentAbove
  <2>4. r \in Ancestors(list, a)
    BY <2>1, <2>3, UnderIsBelow
  <2>5. QED
    BY <2>2, <2>3, <2>4, AncestorsGrow DEF Whole
<1>2. ASSUME NEW a \in Whole(list) PROVE a \in InTree(list)
  <2>1. a \in Present(list) /\ a \in AccAccount /\ NoOne \in Ancestors(list, a)
    BY DEF Whole, Present
  <2>2. PICK S : S = Ancestors(list, a) \ {NoOne}
    OBVIOUS
  <2>3. a \in S
    BY <2>1, <2>2, AncestorsLeast, AccAssumption
  <2>4. ~ParentsIn(list, S)
    BY <2>1, <2>2, <2>3, AncestorsLeast
  <2>5. PICK r \in Present(list) : r \in S /\ list[r].parent \notin S
    BY <2>4 DEF ParentsIn
  <2>6. list[r].parent \in Ancestors(list, a)
    BY <2>1, <2>2, <2>5, AncestorsLeast DEF ParentsIn
  <2>7. list[r].parent = NoOne
    BY <2>2, <2>5, <2>6
  <2>8. r \in Roots(list) /\ r \in AccAccount
    BY <2>5, <2>7, RootsAreTop DEF Children, Present
  <2>9. a \in Under(list, r)
    BY <2>1, <2>2, <2>5, <2>8, UnderIsBelow
  <2>10. QED
    BY <2>1, <2>8, <2>9 DEF InTree
<1>3. QED
  BY <1>1, <1>2

(* What the reconcile wizard takes. *)
LEMMA GuidsAreBelow ==
    ASSUME NEW list \in AccRows, NEW a \in Whole(list)
    PROVE  /\ CollectGuids(list, a) = Under(list, a)
           /\ Under(list, a) = {b \in Whole(list) : a \in Ancestors(list, b)}
<1>1. a \in Present(list) /\ a \in AccAccount /\ NoOne \in Ancestors(list, a)
  BY DEF Whole, Present
<1>2. ASSUME NEW b \in Under(list, a)
      PROVE  b \in Whole(list) /\ a \in Ancestors(list, b)
  <2>1. b \in Present(list) /\ b \in AccAccount
    BY <1>1, UnderListed DEF Present
  <2>2. a \in Ancestors(list, b)
    BY <1>1, <2>1, UnderIsBelow
  <2>3. QED
    BY <1>1, <2>1, <2>2, AncestorsGrow DEF Whole
<1>3. ASSUME NEW b \in Whole(list), a \in Ancestors(list, b) PROVE b \in Under(list, a)
  BY <1>1, <1>3, UnderIsBelow DEF Whole, Present
<1>4. QED
  BY <1>2, <1>3 DEF CollectGuids

-----------------------------------------------------------------------------
(* The balances.  The sum over the trees of an account's children, or of   *)
(* the roots. *)
TreesOf(list, p) == UNION {Under(list, c) : c \in Children(list, p)}

LEMMA SumOfTrees ==
    ASSUME NEW list \in AccRows, NEW p \in AccAccount \cup {NoOne},
           NoOne \in Ancestors(list, p), NEW bal \in [AccAccount -> Int],
           NEW g, \A c \in Children(list, p) : g[c] = SumOver(bal, Under(list, c))
    PROVE  SumOver(g, Children(list, p)) = SumOver(bal, TreesOf(list, p))
<1> DEFINE T == Children(list, p)
           S == TreesOf(list, p)
           class == [x \in S |-> CHOOSE t \in T : x \in Under(list, t)]
           part == [t \in T |-> Under(list, t)]
<1>1. ASSUME NEW t \in T
      PROVE  t \in Present(list) /\ list[t].parent = p /\ t \in AccAccount
             /\ Under(list, t) \subseteq AccAccount
  BY UnderLeast DEF Children, Present
<1>2. S \subseteq AccAccount /\ T \subseteq AccAccount
  BY <1>1 DEF TreesOf
<1>3. IsFiniteSet(S) /\ IsFiniteSet(T) /\ \A x \in S : bal[x] \in Int
  BY <1>2, AccountsFinite
<1>4. ASSUME NEW x \in S PROVE class[x] \in T /\ x \in Under(list, class[x])
  BY DEF TreesOf
<1>5. ASSUME NEW x, NEW t \in T, NEW u \in T, x \in Under(list, t), x \in Under(list, u)
      PROVE  t = u
  BY <1>1, <1>5, SiblingsApart
<1>6. ASSUME NEW t \in T, NEW x
      PROVE  x \in part[t] <=> x \in S /\ class[x] = t
  <2>1. x \in part[t] => x \in S
    BY DEF TreesOf
  <2>2. x \in S /\ x \in Under(list, t) => class[x] = t
    BY <1>4, <1>5
  <2>3. QED
    BY <1>4, <2>1, <2>2
<1>7. \A t \in T : g[t] = SumOver(bal, part[t])
  OBVIOUS
<1> HIDE DEF T, S, class, part
<1>8. SumOver(g, T) = SumOver(bal, S)
  BY <1>3, <1>4, <1>6, <1>7, SumClasses
<1>9. QED
  BY <1>8 DEF T, S

(* A level of aggregate. *)
Adding(list, bal, g) == [a \in AccAccount |-> bal[a] + SumOver(g, Children(list, a))]
Adds1(f, N, list, bal) ==
    f = [n \in 0..N |-> IF n = 0 THEN bal ELSE Adding(list, bal, f[n - 1])]

LEMMA LevelsAre ==
    ASSUME NEW N \in Nat, NEW list, NEW bal, NEW f, Adds1(f, N, list, bal)
    PROVE  f[0] = bal /\ \A n \in 1..N : f[n] = Adding(list, bal, f[n - 1])
<1> DEFINE v(n) == IF n = 0 THEN bal ELSE Adding(list, bal, f[n - 1])
<1>1. f = [n \in 0..N |-> v(n)]
  BY DEF Adds1
<1> HIDE DEF v
<1>2. \A n \in 0..N : f[n] = v(n)
  BY <1>1
<1>3. 0 \in 0..N /\ \A n \in 1..N : n \in 0..N /\ n # 0
  OBVIOUS
<1>4. QED
  BY <1>2, <1>3 DEF v

LEMMA LevelsExist ==
    ASSUME NEW N \in Nat, NEW list, NEW bal
    PROVE  \E f : Adds1(f, N, list, bal)
<1> DEFINE F == {n \in 0..N : \E f : Adds1(f, n, list, bal)}
           step(g) == Adding(list, bal, g)
<1>1. 0 \in F
  <2> DEFINE f == [n \in 0..0 |-> bal]
             v(n) == IF n = 0 THEN bal ELSE step(f[n - 1])
  <2>1. \A n \in 0..0 : v(n) = bal
    OBVIOUS
  <2> HIDE DEF v
  <2>2. f = [n \in 0..0 |-> v(n)]
    BY <2>1
  <2>3. Adds1(f, 0, list, bal)
    BY <2>2 DEF Adds1, v
  <2>4. QED
    BY <2>3
<1>2. ASSUME NEW n \in 1..N, n - 1 \in F PROVE n \in F
  <2>1. PICK g : Adds1(g, n - 1, list, bal)
    BY <1>2
  <2>2. g[0] = bal /\ \A k \in 1..(n - 1) : g[k] = step(g[k - 1])
    BY <2>1, LevelsAre
  <2> DEFINE f == [k \in 0..n |-> IF k = n THEN step(g[n - 1]) ELSE g[k]]
             v(k) == IF k = 0 THEN bal ELSE step(f[k - 1])
  <2> HIDE DEF step
  <2>3. ASSUME NEW k \in 0..n PROVE f[k] = v(k)
    <3>1. CASE k = 0
      BY <2>2, <3>1
    <3>2. CASE k # 0
      <4>1. k - 1 \in 0..n /\ k - 1 # n
        BY <3>2
      <4>2. f[k - 1] = g[k - 1]
        BY <4>1
      <4>3. f[k] = step(g[k - 1])
        BY <2>2, <3>2
      <4>4. QED
        BY <3>2, <4>2, <4>3
    <3>3. QED
      BY <3>1, <3>2
  <2>4. f = [k \in 0..n |-> v(k)]
    <3> HIDE DEF v
    <3>1. QED
      BY <2>3
  <2>5. Adds1(f, n, list, bal)
    BY <2>4 DEF Adds1, step
  <2>6. QED
    BY <2>5
<1> HIDE DEF F
<1>3. N \in F
  BY <1>1, <1>2, LevelInduction
<1>4. QED
  BY <1>3 DEF F

LEMMA AggregateIs ==
    ASSUME NEW list, NEW bal
    PROVE  \E f : /\ Adds1(f, Cardinality(AccAccount), list, bal)
                  /\ Aggregate(list, bal) = f[Cardinality(AccAccount)]
<1> DEFINE N == Cardinality(AccAccount)
           h == CHOOSE f : f = [n \in Depth |-> IF n = 0 THEN bal ELSE
                  [a \in AccAccount |->
                     bal[a] + MapThenSumSet(LAMBDA b : f[n - 1][b], Children(list, a))]]
<1>1. Aggregate(list, bal) = h[N]
  BY DEF Aggregate
<1>2. h = CHOOSE f : Adds1(f, N, list, bal)
  BY DEF Adds1, Adding, SumOver, Depth
<1> HIDE DEF h
<1>3. Adds1(h, N, list, bal)
  BY <1>2, AccountsFinite, LevelsExist
<1>4. QED
  BY <1>1, <1>3

(* A tree is summed once there are as many levels as accounts in it. *)
LEMMA TreeSums ==
    ASSUME NEW list \in AccRows, NEW bal \in [AccAccount -> Int], NEW N \in Nat,
           NEW f, Adds1(f, N, list, bal)
    PROVE  \A n \in 0..N : \A a \in Whole(list) :
             Cardinality(Under(list, a)) <= n + 1 => f[n][a] = SumOver(bal, Under(list, a))
<1> DEFINE Summed(n) == \A a \in Whole(list) :
             Cardinality(Under(list, a)) <= n + 1 => f[n][a] = SumOver(bal, Under(list, a))
           F == {n \in 0..N : Summed(n)}
<1>1. f[0] = bal /\ \A n \in 1..N : f[n] = Adding(list, bal, f[n - 1])
  BY LevelsAre
<1>2. ASSUME NEW a \in Whole(list)
      PROVE  /\ a \in AccAccount /\ a \in Present(list) /\ NoOne \in Ancestors(list, a)
             /\ Under(list, a) \subseteq AccAccount /\ a \in Under(list, a)
             /\ IsFiniteSet(Under(list, a)) /\ Cardinality(Under(list, a)) \in Nat
             /\ \A x \in Under(list, a) : bal[x] \in Int
             /\ bal[a] \in Int
  <2>1. a \in AccAccount /\ a \in Present(list) /\ NoOne \in Ancestors(list, a)
    BY DEF Whole, Present
  <2>2. Under(list, a) \subseteq AccAccount /\ a \in Under(list, a)
    BY <2>1, UnderLeast
  <2>3. QED
    BY <2>1, <2>2, AccountsFinite
<1>3. 0 \in F
  <2>1. ASSUME NEW a \in Whole(list), Cardinality(Under(list, a)) <= 0 + 1
        PROVE  f[0][a] = SumOver(bal, Under(list, a))
    <3>1. PICK U : U = Under(list, a)
      OBVIOUS
    <3>2. a \in U /\ IsFiniteSet(U) /\ Cardinality(U) \in Nat /\ {a} \subseteq U
      BY <1>2, <3>1
    <3>3. IsFiniteSet({a}) /\ Cardinality({a}) = 1
      BY FS_Singleton
    <3>4. Cardinality(U) = 1
      BY <2>1, <3>1, <3>2, <3>3, FS_Subset
    <3>5. U = {a}
      BY <3>2, <3>3, <3>4, FS_Subset
    <3>6. SumOver(bal, U) = bal[a] + SumOver(bal, U \ {a})
      BY <1>2, <3>1, <3>2, SumTakes
    <3>7. U \ {a} = {}
      BY <3>5
    <3>8. SumOver(bal, U) = bal[a] + 0
      BY <3>6, <3>7, SumEmpty
    <3>9. QED
      BY <1>1, <1>2, <3>1, <3>8
  <2>2. QED
    BY <2>1
<1>4. ASSUME NEW n \in 1..N, n - 1 \in F PROVE n \in F
  <2>1. ASSUME NEW a \in Whole(list), Cardinality(Under(list, a)) <= n + 1
        PROVE  f[n][a] = SumOver(bal, Under(list, a))
    <3>1. PICK U, T, V : U = Under(list, a) /\ T = Children(list, a) /\ V = TreesOf(list, a)
      OBVIOUS
    <3>2. ASSUME NEW c \in T
          PROVE  /\ c \in Whole(list) /\ a \notin Under(list, c) /\ Under(list, c) \subseteq U
                 /\ Cardinality(Under(list, c)) <= (n - 1) + 1
      <4>1. c \in Present(list) /\ list[c].parent = a /\ c \in AccAccount
        BY <3>1 DEF Children, Present
      <4>2. NoOne \in Ancestors(list, c) /\ c \notin Ancestors(list, a)
        BY <1>2, <4>1, ParentAbove, NoCircle
      <4>3. c \in Whole(list) /\ a \notin Under(list, c)
        BY <1>2, <4>1, <4>2, UnderIsBelow DEF Whole
      <4>4. Under(list, c) \subseteq U
        BY <1>2, <3>1, UnderSplits
      <4>5. a \in U /\ IsFiniteSet(U) /\ Cardinality(U) \in Nat /\ Cardinality(U) <= n + 1
        BY <1>2, <2>1, <3>1
      <4>6. IsFiniteSet(Under(list, c)) /\ Cardinality(Under(list, c)) \in Nat
        BY <1>2, <4>3
      <4>7. Cardinality(Under(list, c)) < Cardinality(U)
        BY <4>3, <4>4, <4>5, <4>6, FS_Subset
      <4>8. QED
        BY <4>3, <4>4, <4>5, <4>6, <4>7
    <3>3. \A c \in T : f[n - 1][c] = SumOver(bal, Under(list, c))
      BY <1>4, <3>2
    <3>4. SumOver(f[n - 1], T) = SumOver(bal, V)
      BY <1>2, <3>1, <3>3, SumOfTrees
    <3>5. U = {a} \cup V
      BY <1>2, <3>1, UnderSplits DEF TreesOf
    <3>6. a \notin V
      BY <3>1, <3>2 DEF TreesOf
    <3>7. SumOver(bal, U) = bal[a] + SumOver(bal, U \ {a})
      BY <1>2, <3>1, SumTakes
    <3>8. U \ {a} = V
      BY <3>5, <3>6
    <3>9. f[n][a] = bal[a] + SumOver(f[n - 1], T)
      BY <1>1, <1>2, <3>1 DEF Adding
    <3>10. QED
      BY <3>1, <3>4, <3>7, <3>8, <3>9
  <2>2. QED
    BY <2>1
<1> HIDE DEF F
<1>5. \A n \in 0..N : n \in F
  BY <1>3, <1>4, LevelInduction
<1>6. QED
  BY <1>5 DEF F

LEMMA AggregateSums ==
    ASSUME NEW list \in AccRows, NEW bal \in [AccAccount -> Int], NEW a \in Whole(list)
    PROVE  Aggregate(list, bal)[a] = SumOver(bal, Under(list, a))
<1>1. PICK N : N = Cardinality(AccAccount)
  OBVIOUS
<1>2. PICK f : Adds1(f, N, list, bal) /\ Aggregate(list, bal) = f[N]
  BY <1>1, AggregateIs
<1>3. a \in AccAccount
  BY DEF Whole, Present
<1>4. Under(list, a) \subseteq AccAccount /\ IsFiniteSet(AccAccount)
      /\ IsFiniteSet(Under(list, a))
  BY <1>3, UnderLeast, AccountsFinite, AccAssumption
<1>5. N \in Nat /\ Cardinality(Under(list, a)) \in Nat /\ Cardinality(Under(list, a)) <= N
  BY <1>1, <1>4, FS_Subset, FS_CardinalityType
<1>6. QED
  BY <1>2, <1>5, TreeSums

(* The tree of a list in which no parent is missing. *)
LEMMA TreeWhole ==
    ASSUME acc.list \in AccRows, ParentsListed(acc.list), acc.range \in Ranges
    PROVE  AccTreeWhole
<1> DEFINE list == acc.list
           bal == AccBalance[acc.range]
           shown == Aggregate(list, bal)
<1>1. list \in AccRows /\ ParentsListed(list) /\ bal \in [AccAccount -> Int]
  BY AccAssumption
<1> HIDE DEF list, bal
<1>2. \A a \in Whole(list) : shown[a] = SumOver(bal, Under(list, a))
  BY <1>1, AggregateSums
<1> HIDE DEF shown
<1>3. ASSUME NEW a \in InTree(list)
      PROVE  /\ CollectGuids(list, a) = {b \in Whole(list) : a \in Ancestors(list, b)}
             /\ shown[a] = SumOver(bal, CollectGuids(list, a))
  <2>1. a \in Whole(list)
    BY <1>1, ShownIsWhole
  <2>2. QED
    BY <1>1, <1>2, <2>1, GuidsAreBelow
<1>4. SumOver(shown, Roots(list)) = SumOver(bal, Whole(list))
  <2>1. PICK T : T = Children(list, NoOne)
    OBVIOUS
  <2>2. Roots(list) = T
    BY <1>1, <2>1, RootsAreTop
  <2>3. NoOne \in Ancestors(list, NoOne)
    BY <1>1, AncestorsLeast
  <2>4. ASSUME NEW c \in T PROVE c \in Whole(list)
    <3>1. c \in Present(list) /\ list[c].parent = NoOne
      BY <2>1 DEF Children
    <3>2. QED
      BY <1>1, <3>1, ParentAbove DEF Whole
  <2>5. SumOver(shown, T) = SumOver(bal, TreesOf(list, NoOne))
    BY <1>1, <1>2, <2>1, <2>3, <2>4, SumOfTrees
  <2>6. TreesOf(list, NoOne) = InTree(list)
    <3>1. \A c \in T : Under(list, c) \subseteq Present(list)
      BY <1>1, <2>4, UnderListed DEF Whole
    <3>2. QED
      BY <2>1, <2>2, <3>1 DEF TreesOf, InTree
  <2>7. TreesOf(list, NoOne) = Whole(list)
    BY <1>1, <2>6, ShownIsWhole
  <2>8. QED
    BY <2>2, <2>5, <2>7
<1>5. QED
  BY <1>3, <1>4 DEF AccTreeWhole, SumOver, Whole, list, bal, shown

-----------------------------------------------------------------------------
(* The lists.  The server takes no parent that is not there, deletes no    *)
(* account that has children, and the page never asks for the root to be   *)
(* deleted; so no parent is missing in what the server has, nor in any     *)
(* list that it has sent. *)
TreeInv ==
    /\ AccRoot \in Present(accBook) /\ ParentsListed(accBook)
    /\ ParentsListed(acc.list) /\ acc.range \in Ranges
    /\ \A k \in Load : ParentsListed(accNet.load[k].list)
    /\ accNet.delete.of # AccRoot

LEMMA NothingListed == ParentsListed(NoAnswer)
BY DEF ParentsListed, Present, NoAnswer, Missing

LEMMA FirstListed == AccRoot \in Present(FirstBook) /\ ParentsListed(FirstBook)
<1>1. PICK D : D = DOMAIN FirstTree
  OBVIOUS
<1>2. D \subseteq AccAccount /\ AccRoot \in D /\ \A a \in D : FirstTree[a] \in D \cup {NoOne}
  BY <1>1, AccAssumption
<1>3. ASSUME NEW a \in AccAccount
      PROVE  /\ a \in D => FirstBook[a].parent = FirstTree[a] /\ FirstBook[a].ver = 1
             /\ a \notin D => FirstBook[a].ver = 0
  BY <1>1 DEF FirstBook, Missing
<1>4. Present(FirstBook) = D
  <2>1. \A a \in AccAccount : FirstBook[a].ver > 0 <=> a \in D
    BY <1>3
  <2>2. QED
    BY <1>2, <2>1 DEF Present
<1>5. QED
  BY <1>2, <1>3, <1>4 DEF ParentsListed

LEMMA FirstSent ==
    /\ ParentsListed(AccPage.list) /\ AccPage.range \in Ranges
    /\ \A k \in Load : ParentsListed(AccSent.load[k].list)
    /\ AccSent.delete.of # AccRoot
<1>1. AccPage.list = NoAnswer /\ AccPage.range = "today"
  BY DEF AccPage
<1>2. \A k \in Load : AccSent.load[k].list = NoAnswer
  BY DEF AccSent, NoLoad
<1>3. AccSent.delete.of = NoOne
  BY DEF AccSent, NoDelete
<1>4. AccRoot \in AccAccount /\ NoOne \notin AccAccount
  BY AccAssumption
<1>5. QED
  BY <1>1, <1>2, <1>3, <1>4, NothingListed DEF Ranges

LEMMA TreeStarts == acc = AccPage /\ accNet = AccSent /\ accBook = FirstBook => TreeInv
BY FirstListed, FirstSent DEF TreeInv

(* Whatever a step does but to the books and the lists under way. *)
LEMMA TreeStays ==
    ASSUME TreeInv, UNCHANGED accBook, acc'.list = acc.list, acc'.range = acc.range,
           \A k \in Load : \/ accNet'.load[k].list = accNet.load[k].list
                           \/ accNet'.load[k].list \in {NoAnswer, accBook},
           accNet'.delete.of # AccRoot
    PROVE  TreeInv'
<1>1. \A l : ParentsListed(l)' = ParentsListed(l)
  BY DEF ParentsListed, Present
<1>2. \A k \in Load : ParentsListed(accNet'.load[k].list)
  BY NothingListed DEF TreeInv
<1>3. QED
  BY <1>2 DEF TreeInv, ParentsListed, Present

LEMMA TreeBooks ==
    ASSUME TreeInv, acc' = acc, \A k \in Load : accNet'.load[k].list = accNet.load[k].list,
           accNet'.delete.of = accNet.delete.of,
           NEW book, accBook' = book, AccRoot \in Present(book), ParentsListed(book)
    PROVE  TreeInv'
BY DEF TreeInv, ParentsListed, Present

LEMMA LoadDataLists ==
    ASSUME NEW m, NEW net \in AccNets, NEW range, LoadData(m, net, range),
           m = [list |-> m.list, range |-> m.range, loading |-> m.loading,
                filter |-> m.filter, form |-> m.form, wizard |-> m.wizard]
    PROVE  /\ acc'.list = m.list /\ acc'.range = m.range
           /\ accNet'.delete = net.delete
           /\ \A k \in Load : accNet'.load[k].list \in {net.load[k].list, NoAnswer}
<1> DEFINE l == [NoLoad EXCEPT !.out = TRUE, !.range = range]
           j == CHOOSE k \in FreeLoad(net) : TRUE
<1>1. l.list = NoAnswer
  BY DEF NoLoad
<1>2. j \in Load
  BY DEF LoadData, FreeLoad
<1>3. accNet' = [[net EXCEPT !.save.own = FALSE] EXCEPT !.load[j] = l]
  BY DEF LoadData, AccNets
<1>4. acc'.list = m.list /\ acc'.range = m.range
  BY DEF LoadData
<1> HIDE DEF l, j
<1>5. accNet'.load = [net.load EXCEPT ![j] = l] /\ accNet'.delete = net.delete
  BY <1>3 DEF AccNets
<1>6. net.load \in [Load -> AccLoads]
  BY DEF AccNets
<1>7. QED
  BY <1>1, <1>2, <1>4, <1>5, <1>6

(* The steps that change no books. *)
LEMMA TreeQuiet ==
    ASSUME AccInv, TreeInv,
           \/ \E r \in Ranges : SetFilter(r)
           \/ \E k \in Load : RunAccounts(k) \/ AccountsAnswered(k) \/ AccountsFailed(k)
           \/ \E a \in AccAccount : HandleEdit(a) \/ HandleReconcile(a) \/ HandleDelete(a)
           \/ \E p \in AccAccount \cup {NoOne} : ChooseParent(p)
           \/ NewAccount \/ WizardClosed \/ WizardFinished \/ CloseAccountForm
           \/ SubmitAccount \/ DeleteAnswered \/ DeleteFailed \/ AccountSaved
           \/ AccountNotSaved
    PROVE  TreeInv'
<1>0. /\ acc = [list |-> acc.list, range |-> acc.range, loading |-> acc.loading,
                filter |-> acc.filter, form |-> acc.form, wizard |-> acc.wizard]
      /\ accNet \in AccNets /\ accNet.delete.of # AccRoot /\ NoDelete.of # AccRoot
      /\ AccRoot \in AccAccount
  BY AccAssumption DEF AccInv, PageGood, NetGood, TreeInv, NoDelete
<1>1. ASSUME \/ \E r \in Ranges : SetFilter(r)
             \/ WizardFinished \/ DeleteAnswered \/ AccountSaved
      PROVE  TreeInv'
  <2>1. ASSUME NEW m, NEW net \in AccNets, NEW range, LoadData(m, net, range),
               UNCHANGED accBook, m.list = acc.list, m.range = acc.range,
               m = [list |-> m.list, range |-> m.range, loading |-> m.loading,
                    filter |-> m.filter, form |-> m.form, wizard |-> m.wizard],
               net.load = accNet.load, net.delete.of # AccRoot
        PROVE  TreeInv'
    <3>1. /\ acc'.list = acc.list /\ acc'.range = acc.range
          /\ accNet'.delete.of # AccRoot
          /\ \A k \in Load : accNet'.load[k].list \in {accNet.load[k].list, NoAnswer}
      BY <2>1, LoadDataLists
    <3>2. QED
      BY <2>1, <3>1, TreeStays
  <2>2. Spent(accNet) \in AccNets /\ Spent(accNet).load = accNet.load
        /\ Spent(accNet).delete = accNet.delete
    BY <1>0 DEF Spent, AccNets
  <2>3. ASSUME NEW r \in Ranges, SetFilter(r) PROVE TreeInv'
    <3>1. PICK m : m = [acc EXCEPT !.filter = r]
      OBVIOUS
    <3>2. /\ m.list = acc.list /\ m.range = acc.range
          /\ m = [list |-> m.list, range |-> m.range, loading |-> m.loading,
                  filter |-> m.filter, form |-> m.form, wizard |-> m.wizard]
      BY <1>0, <3>1
    <3>3. LoadData(m, Spent(accNet), r) /\ UNCHANGED accBook
      BY <2>3, <3>1 DEF SetFilter
    <3>4. QED
      BY <1>0, <2>1, <2>2, <3>2, <3>3
  <2>4. CASE WizardFinished
    <3>1. PICK m : m = [acc EXCEPT !.wizard = {}]
      OBVIOUS
    <3>2. /\ m.list = acc.list /\ m.range = acc.range
          /\ m = [list |-> m.list, range |-> m.range, loading |-> m.loading,
                  filter |-> m.filter, form |-> m.form, wizard |-> m.wizard]
      BY <1>0, <3>1
    <3>3. LoadData(m, Spent(accNet), acc.filter) /\ UNCHANGED accBook
      BY <2>4, <3>1 DEF WizardFinished
    <3>4. QED
      BY <1>0, <2>1, <2>2, <3>2, <3>3
  <2>5. CASE DeleteAnswered
    <3>1. PICK net : net = [accNet EXCEPT !.delete = NoDelete]
      OBVIOUS
    <3>2. net \in AccNets /\ net.load = accNet.load /\ net.delete.of # AccRoot
      BY <1>0, <3>1, BlankGood DEF AccNets
    <3>3. LoadData(acc, net, accNet.delete.range) /\ UNCHANGED accBook
      BY <2>5, <3>1 DEF DeleteAnswered
    <3>4. QED
      BY <1>0, <2>1, <3>2, <3>3
  <2>6. CASE AccountSaved
    <3>1. PICK net, m : net = [accNet EXCEPT !.save = NoSave] /\ m = [acc EXCEPT !.form = NoForm]
      OBVIOUS
    <3>2. net \in AccNets /\ net.load = accNet.load /\ net.delete.of # AccRoot
      BY <1>0, <3>1, BlankGood DEF AccNets
    <3>3. /\ m.list = acc.list /\ m.range = acc.range
          /\ m = [list |-> m.list, range |-> m.range, loading |-> m.loading,
                  filter |-> m.filter, form |-> m.form, wizard |-> m.wizard]
      BY <1>0, <3>1
    <3>4. LoadData(m, net, accNet.save.range) /\ UNCHANGED accBook
      BY <2>6, <3>1 DEF AccountSaved
    <3>5. QED
      BY <2>1, <3>2, <3>3, <3>4
  <2>7. QED
    BY <1>1, <2>3, <2>4, <2>5, <2>6
<1>2. ASSUME NEW k \in Load, RunAccounts(k) \/ AccountsFailed(k)
      PROVE  TreeInv'
  <2>1. acc'.list = acc.list /\ acc'.range = acc.range /\ accNet'.delete = accNet.delete
        /\ UNCHANGED accBook
    BY <1>0, <1>2 DEF RunAccounts, AccountsFailed, AccNets
  <2>2. \A j \in Load : accNet'.load[j].list \in {accNet.load[j].list, NoAnswer, accBook}
    <3>1. CASE RunAccounts(k)
      <4>1. PICK l : l = [accNet.load[k] EXCEPT !.run = TRUE, !.list = accBook]
        OBVIOUS
      <4>2. l.list = accBook
        BY <1>0, <4>1 DEF AccNets, AccLoads
      <4>3. accNet'.load = [accNet.load EXCEPT ![k] = l]
        BY <1>0, <3>1, <4>1 DEF RunAccounts, AccNets, AccLoads
      <4>4. QED
        BY <1>0, <4>2, <4>3 DEF AccNets
    <3>2. CASE AccountsFailed(k)
      BY <1>0, <3>2 DEF AccountsFailed, AccNets, NoLoad
    <3>3. QED
      BY <1>2, <3>1, <3>2
  <2>3. QED
    BY <1>0, <2>1, <2>2, TreeStays
<1>3. ASSUME NEW k \in Load, AccountsAnswered(k)
      PROVE  TreeInv'
  <2>1. PICK l : l = accNet.load[k]
    OBVIOUS
  <2>2. ParentsListed(l.list) /\ l.range \in Ranges
    BY <1>0, <2>1 DEF TreeInv, AccNets, AccLoads
  <2>3. acc'.list = l.list /\ acc'.range = l.range /\ accNet'.delete = accNet.delete
        /\ UNCHANGED accBook
    BY <1>0, <1>3, <2>1 DEF AccountsAnswered, AccNets
  <2>4. \A j \in Load : accNet'.load[j].list \in {accNet.load[j].list, NoAnswer}
    BY <1>0, <1>3 DEF AccountsAnswered, AccNets, NoLoad
  <2>5. \A j \in Load : ParentsListed(accNet'.load[j].list)
    BY <2>4, NothingListed DEF TreeInv
  <2>6. QED
    BY <1>0, <2>2, <2>3, <2>5 DEF TreeInv, ParentsListed, Present
<1>4. ASSUME \/ \E a \in AccAccount : HandleEdit(a) \/ HandleReconcile(a)
             \/ \E p \in AccAccount \cup {NoOne} : ChooseParent(p)
             \/ NewAccount \/ WizardClosed \/ CloseAccountForm \/ SubmitAccount
             \/ AccountNotSaved
      PROVE  TreeInv'
  <2>1. UNCHANGED accBook /\ accNet'.load = accNet.load /\ accNet'.delete = accNet.delete
    BY <1>0, <1>4 DEF HandleEdit, HandleReconcile, ChooseParent, NewAccount, WizardClosed,
       CloseAccountForm, SubmitAccount, AccountNotSaved, AccNets, Spent
  <2>2. acc'.list = acc.list /\ acc'.range = acc.range
    BY <1>0, <1>4 DEF HandleEdit, HandleReconcile, ChooseParent, NewAccount, WizardClosed,
       CloseAccountForm, SubmitAccount, AccountNotSaved
  <2>3. QED
    BY <1>0, <2>1, <2>2, TreeStays
<1>5. ASSUME (\E a \in AccAccount : HandleDelete(a)) \/ DeleteFailed
      PROVE  TreeInv'
  <2>1. UNCHANGED <<acc, accBook>> /\ accNet'.load = accNet.load
    BY <1>0, <1>5 DEF HandleDelete, DeleteFailed, AccNets, Spent
  <2>2. accNet'.delete.of # AccRoot
    BY <1>0, <1>5 DEF HandleDelete, DeleteFailed, AccNets, Spent, NoDelete, Clickable
  <2>3. QED
    BY <2>1, <2>2, TreeStays
<1>6. QED
  BY <1>1, <1>2, <1>3, <1>4, <1>5

(* The server's. *)
LEMMA TreeServed ==
    ASSUME AccInv, TreeInv,
           RunDelete \/ RunCreate \/ RunUpdate \/ \E a \in AccAccount : MovedElsewhere(a)
    PROVE  TreeInv'
<1>0. /\ accBook \in AccRows /\ accNet \in AccNets
      /\ AccRoot \in AccAccount /\ AccRoot \in Present(accBook) /\ ParentsListed(accBook)
      /\ accNet.delete.of # AccRoot
  BY AccAssumption DEF AccInv, BookGood, NetGood, TreeInv
<1>1. /\ acc' = acc /\ accNet'.load = accNet.load /\ accNet'.delete.of = accNet.delete.of
  BY <1>0 DEF RunDelete, RunCreate, RunUpdate, MovedElsewhere, AccNets, AccDeletes, Spent
<1>2. ASSUME NEW book, accBook' = book, AccRoot \in Present(book), ParentsListed(book)
      PROVE  TreeInv'
  BY <1>1, <1>2, TreeBooks
<1>3. accBook' = accBook => TreeInv'
  BY <1>0, <1>2
<1>4. ASSUME NEW a \in Present(accBook), NEW p \in Present(accBook) \cup {NoOne},
             NEW v \in Int, v > 0,
             accBook' = [accBook EXCEPT ![a] = [parent |-> p, ver |-> v]]
      PROVE  TreeInv'
  <2>1. PICK book : book = accBook'
    OBVIOUS
  <2>2. \A b \in AccAccount : book[b] = IF b = a THEN [parent |-> p, ver |-> v] ELSE accBook[b]
    BY <1>0, <1>4, <2>1 DEF AccRows
  <2>3. Present(book) = Present(accBook)
    BY <1>4, <2>2 DEF Present
  <2>4. ParentsListed(book)
    BY <1>0, <1>4, <2>2, <2>3 DEF ParentsListed, Present
  <2>5. QED
    BY <1>0, <1>2, <2>1, <2>3, <2>4
<1>5. CASE RunDelete
  <2>1. PICK a : a = accNet.delete.of
    OBVIOUS
  <2>2. CASE a \in Present(accBook) /\ Children(accBook, a) = {}
             /\ accBook' = [accBook EXCEPT ![a] = Gone]
    <3>1. PICK book : book = accBook'
      OBVIOUS
    <3>2. \A b \in AccAccount : book[b] = IF b = a THEN Gone ELSE accBook[b]
      BY <1>0, <2>2, <3>1 DEF AccRows
    <3>3. Present(book) = Present(accBook) \ {a}
      BY <3>2 DEF Present, Gone
    <3>4. ParentsListed(book)
      BY <1>0, <2>2, <3>2, <3>3 DEF ParentsListed, Present, Children
    <3>5. AccRoot \in Present(book)
      BY <1>0, <2>1, <3>3
    <3>6. QED
      BY <1>2, <3>1, <3>4, <3>5
  <2>3. QED
    BY <1>3, <1>5, <2>1, <2>2 DEF RunDelete
<1>6. CASE RunCreate
  <2>1. CASE accBook' # accBook
    <3>1. PICK a \in AccAccount :
              /\ accBook[a] = Missing /\ ParentThere
              /\ accBook' = [accBook EXCEPT ![a] = [parent |-> accNet.save.parent, ver |-> 1]]
      BY <1>6, <2>1 DEF RunCreate
    <3>2. PICK book, p : book = accBook' /\ p = accNet.save.parent
      OBVIOUS
    <3>3. /\ \A b \in AccAccount : book[b] = IF b = a THEN [parent |-> p, ver |-> 1]
                                             ELSE accBook[b]
          /\ p \in Present(accBook) \cup {NoOne}
      BY <1>0, <3>1, <3>2 DEF AccRows, ParentThere
    <3>4. Present(book) = Present(accBook) \cup {a}
      BY <3>3 DEF Present
    <3>5. ParentsListed(book)
      BY <1>0, <3>3, <3>4 DEF ParentsListed, Present
    <3>6. QED
      BY <1>0, <1>2, <3>2, <3>4, <3>5
  <2>2. QED
    BY <1>3, <2>1
<1>7. CASE RunUpdate
  <2>1. CASE accBook' # accBook
    <3>1. PICK s : s = accNet.save
      OBVIOUS
    <3>2. /\ s.of \in AccAccount /\ s.ver > 0 /\ accBook[s.of].ver = s.ver
          /\ s.parent \in Present(accBook) \cup {NoOne}
          /\ accBook' = [accBook EXCEPT ![s.of] =
                           [parent |-> IF s.parent = NoOne THEN @.parent ELSE s.parent,
                            ver |-> @.ver + 1]]
      BY <1>0, <1>7, <2>1, <3>1
      DEF RunUpdate, ParentThere, AccInv, NetGood, AccEdited, AccNets, AccSaves
    <3>3. PICK a, p, v : /\ a = s.of /\ v = accBook[a].ver + 1
                         /\ p = IF s.parent = NoOne THEN accBook[a].parent ELSE s.parent
      OBVIOUS
    <3>4. a \in Present(accBook) /\ v \in Int /\ v > 0
      BY <1>0, <3>2, <3>3 DEF Present, AccRows, AccRow
    <3>5. p \in Present(accBook) \cup {NoOne}
      BY <1>0, <3>2, <3>3, <3>4 DEF ParentsListed
    <3>6. accBook' = [accBook EXCEPT ![a] = [parent |-> p, ver |-> v]]
      BY <3>2, <3>3
    <3>7. QED
      BY <1>4, <3>4, <3>5, <3>6
  <2>2. QED
    BY <1>3, <2>1
<1>8. ASSUME NEW a \in AccAccount, MovedElsewhere(a) PROVE TreeInv'
  <2>1. PICK v : v = accBook[a].ver + 1
    OBVIOUS
  <2>2. a \in Present(accBook)
        /\ accBook' = [accBook EXCEPT ![a] = [parent |-> AccRoot, ver |-> v]]
    BY <1>8, <2>1 DEF MovedElsewhere
  <2>3. v \in Int /\ v > 0
    BY <1>0, <2>1, <2>2 DEF Present, AccRows, AccRow
  <2>4. QED
    BY <1>0, <1>4, <2>2, <2>3
<1>9. QED
  BY <1>5, <1>6, <1>7, <1>8

LEMMA TreeStepKeeps == ASSUME AccInv, TreeInv, [AccNext]_accVars PROVE TreeInv'
<1>1. CASE UNCHANGED accVars
  BY <1>1 DEF accVars, TreeInv, ParentsListed, Present
<1>2. CASE AccNext
  BY <1>2, TreeQuiet, TreeServed DEF AccNext
<1>3. QED
  BY <1>1, <1>2

(* Every balance the tree shows is the sum of the accounts the reconcile   *)
(* wizard of that row would take, and the roots add up to all that is      *)
(* shown, for trees of every shape and depth: whatever is created, moved   *)
(* and deleted, here or in another tab, while lists are under way. *)
THEOREM TreeAlwaysWhole == AccSpec => []AccTreeWhole
<1>1. AccInit => TreeInv
  BY TreeStarts DEF AccInit
<1>2. AccInv /\ TreeInv => AccTreeWhole
  BY TreeWhole DEF AccInv, PageGood, Copies, TreeInv
<1>3. QED
  BY <1>1, <1>2, TreeStepKeeps, AccAlways, PTL DEF AccSpec
-----------------------------------------------------------------------------
(* The dashboard.  The balances it holds are those of its book in the      *)
(* range it shows, and those of all time add up to zero. *)
DashShape ==
    [range : DashRange, bal : [DashType -> Int], of : DashRange \cup {"none"},
     loading : BOOLEAN, book : SUBSET DashEntries]
InRange(book, range) == [a \in DashType |-> ListedBalance(book, range, a)]
DashInv ==
    /\ dash \in DashShape
    /\ dash.of \in DashRange => dash.bal = InRange(dash.book, dash.of)

Worth(S) == [e \in S |-> e.n]
LEMMA WorthSums ==
    ASSUME NEW S, IsFiniteSet(S)
    PROVE  MapThenSumSet(LAMBDA e : e.n, S) = SumOver(Worth(S), S)
<1> DEFINE h == CHOOSE h : h = [A \in SUBSET S |-> IF A = {} THEN 0
                     ELSE (CHOOSE x \in A : TRUE).n + h[A \ {CHOOSE x \in A : TRUE}]]
           e(g, A) == IF A = {} THEN 0 ELSE First(A).n + g[Rest(A)]
           v(g, A) == IF A = {} THEN 0 ELSE Worth(S)[First(A)] + g[Rest(A)]
<1>1. MapThenSumSet(LAMBDA x : x.n, S) = h[S]
  BY DEF MapThenSumSet, MapThenFoldSet
<1>2. h = CHOOSE g : g = [A \in SUBSET S |-> e(g, A)]
  BY DEF First, Rest
<1>3. PICK g : Adds(Worth(S), S, g)
  BY AddsExists
<1>4. \A k : \A A \in SUBSET S : e(k, A) = v(k, A)
  BY FirstIn DEF Worth
<1>5. g = [A \in SUBSET S |-> e(g, A)]
  <2>1. g = [A \in SUBSET S |-> v(g, A)]
    BY <1>3 DEF Adds
  <2> HIDE DEF e, v
  <2>2. QED
    BY <1>4, <2>1
<1> HIDE DEF h, e, v
<1>6. h = [A \in SUBSET S |-> e(h, A)]
  BY <1>2, <1>5
<1>7. h = [A \in SUBSET S |-> v(h, A)]
  BY <1>4, <1>6
<1>8. Adds(Worth(S), S, h)
  BY <1>7 DEF v, Adds
<1>9. QED
  BY <1>1, <1>8, SumIs

(* What flowed into an account and out of it, over one worth of all        *)
(* entries counted. *)
Into(E, a) == {e \in E : e.to = a}
OutOf(E, a) == {e \in E : e.from = a}
LEMMA ListedIs ==
    ASSUME NEW book \in SUBSET DashEntries, NEW range, NEW a \in DashType,
           NEW E, E = Counted(book, range, a)
    PROVE  /\ SumOver(Worth(DashEntries), Into(E, a)) \in Int
           /\ SumOver(Worth(DashEntries), OutOf(E, a)) \in Int
           /\ ListedBalance(book, range, a) =
                SumOver(Worth(DashEntries), Into(E, a)) - SumOver(Worth(DashEntries), OutOf(E, a))
<1>1. PICK w, X, Y : /\ w = Worth(DashEntries) /\ X = Into(E, a) /\ Y = OutOf(E, a)
  OBVIOUS
<1>2. X \subseteq DashEntries /\ Y \subseteq DashEntries
  BY <1>1 DEF Counted, Into, OutOf
<1>3. IsFiniteSet(X) /\ IsFiniteSet(Y)
  BY <1>2, OverviewAssumption, FS_Subset
<1>4. \A e \in DashEntries : w[e] = e.n /\ w[e] \in Int
  BY <1>1, OverviewAssumption DEF Worth
<1>5. ListedBalance(book, range, a) = SumOver(Worth(X), X) - SumOver(Worth(Y), Y)
  <2>1. ListedBalance(book, range, a) =
          MapThenSumSet(LAMBDA e : e.n, Into(E, a)) - MapThenSumSet(LAMBDA e : e.n, OutOf(E, a))
    BY DEF ListedBalance, Into, OutOf
  <2>2. MapThenSumSet(LAMBDA e : e.n, Into(E, a)) = SumOver(Worth(Into(E, a)), Into(E, a))
    BY <1>1, <1>3, WorthSums
  <2>3. MapThenSumSet(LAMBDA e : e.n, OutOf(E, a)) = SumOver(Worth(OutOf(E, a)), OutOf(E, a))
    BY <1>1, <1>3, WorthSums
  <2>4. QED
    BY <1>1, <2>1, <2>2, <2>3
<1>6. SumOver(Worth(X), X) = SumOver(w, X) /\ SumOver(Worth(Y), Y) = SumOver(w, Y)
  <2>1. /\ \A e \in X : Worth(X)[e] = w[e]
        /\ \A e \in Y : Worth(Y)[e] = w[e]
    BY <1>2, <1>4 DEF Worth
  <2>2. QED
    BY <1>3, <2>1, SumSame
<1>7. SumOver(w, X) \in Int /\ SumOver(w, Y) \in Int
  BY <1>2, <1>3, <1>4, SumInt
<1>8. QED
  BY <1>1, <1>5, <1>6, <1>7

LEMMA ListedTyped ==
    ASSUME NEW book \in SUBSET DashEntries, NEW range
    PROVE  InRange(book, range) \in [DashType -> Int]
<1>1. ASSUME NEW a \in DashType PROVE ListedBalance(book, range, a) \in Int
  <2>1. PICK E : E = Counted(book, range, a)
    OBVIOUS
  <2>2. QED
    BY <2>1, ListedIs
<1>2. QED
  BY <1>1 DEF InRange

(* Every entry of the book is counted for both of its accounts, if the     *)
(* balances are those of all time. *)
LEMMA AllAddUp ==
    ASSUME NEW book \in SUBSET DashEntries
    PROVE  SumOver(InRange(book, "all"), DashType) = 0
<1>1. PICK E : E = {e \in book : e.month <= DateRange("all").end}
  OBVIOUS
<1>2. E \subseteq DashEntries /\ IsFiniteSet(E) /\ IsFiniteSet(DashType)
  <2>1. E \subseteq DashEntries
    BY <1>1
  <2>2. QED
    BY <2>1, OverviewAssumption, FS_Subset
<1>3. ASSUME NEW a \in DashType PROVE Counted(book, "all", a) = E
  <2>1. DateRange("all").start = 0
    BY DEF DateRange
  <2>2. \A e \in book : e.month >= 0
    BY OverviewAssumption
  <2>3. QED
    BY <1>1, <2>1, <2>2 DEF Counted
<1>4. PICK w : w = Worth(DashEntries)
  OBVIOUS
<1>5. \A e \in E : w[e] \in Int /\ e.to \in DashType /\ e.from \in DashType
  BY <1>2, <1>4, OverviewAssumption DEF Worth
<1>6. PICK to, from, X, Y :
        /\ to = [e \in E |-> e.to] /\ from = [e \in E |-> e.from]
        /\ X = [a \in DashType |-> Into(E, a)] /\ Y = [a \in DashType |-> OutOf(E, a)]
  OBVIOUS
<1>7. PICK in, out : /\ in = [a \in DashType |-> SumOver(w, X[a])]
                     /\ out = [a \in DashType |-> SumOver(w, Y[a])]
  OBVIOUS
<1>8. ASSUME NEW a \in DashType
      PROVE  in[a] \in Int /\ out[a] \in Int /\ InRange(book, "all")[a] = in[a] - out[a]
  <2>1. in[a] = SumOver(w, Into(E, a)) /\ out[a] = SumOver(w, OutOf(E, a))
    BY <1>6, <1>7
  <2>2. InRange(book, "all")[a] = ListedBalance(book, "all", a)
    BY DEF InRange
  <2>3. QED
    BY <1>3, <1>4, <2>1, <2>2, ListedIs
<1>9. SumOver(in, DashType) = SumOver(w, E)
  <2>1. \A e \in E : to[e] \in DashType
    BY <1>5, <1>6
  <2>2. \A a \in DashType : \A e : e \in X[a] <=> e \in E /\ to[e] = a
    BY <1>6 DEF Into
  <2>3. \A a \in DashType : in[a] = SumOver(w, X[a])
    BY <1>7
  <2>4. QED
    BY <1>2, <1>5, <2>1, <2>2, <2>3, SumClasses
<1>10. SumOver(out, DashType) = SumOver(w, E)
  <2>1. \A e \in E : from[e] \in DashType
    BY <1>5, <1>6
  <2>2. \A a \in DashType : \A e : e \in Y[a] <=> e \in E /\ from[e] = a
    BY <1>6 DEF OutOf
  <2>3. \A a \in DashType : out[a] = SumOver(w, Y[a])
    BY <1>7
  <2>4. QED
    BY <1>2, <1>5, <2>1, <2>2, <2>3, SumClasses
<1>11. SumOver(w, E) \in Int
  BY <1>2, <1>5, SumInt
<1>12. SumOver(InRange(book, "all"), DashType) = SumOver(in, DashType) - SumOver(out, DashType)
  BY <1>2, <1>8, SumLess
<1>13. QED
  BY <1>9, <1>10, <1>11, <1>12
DashStarting == \E book \in SUBSET DashEntries : dash = DashStart(book)
LEMMA DashStartKeeps == DashStarting => DashInv
BY DEF DashStarting, DashStart, DashInv, DashShape, DashRange, NoBalance

LEMMA DashStepKeeps == ASSUME DashInv, [DashNext]_dash PROVE DashInv'
<1>1. CASE DashAnswered
  <2>1. PICK bal : bal = InRange(dash.book, dash.range)
    OBVIOUS
  <2>2. bal \in [DashType -> Int]
    BY <2>1, ListedTyped DEF DashInv, DashShape
  <2>3. dash' = [dash EXCEPT !.loading = FALSE, !.of = dash.range, !.bal = bal]
    BY <1>1, <2>1 DEF DashAnswered, InRange
  <2>4. dash' \in DashShape
    BY <2>2, <2>3 DEF DashInv, DashShape
  <2>5. dash'.of = dash.range /\ dash'.book = dash.book /\ dash'.bal = bal
    BY <2>3 DEF DashInv, DashShape
  <2>6. QED
    BY <2>1, <2>4, <2>5 DEF DashInv
<1>2. CASE DashFailed \/ \E r \in DashRange : ChooseRange(r)
  <2>1. PICK r \in DashRange, l \in BOOLEAN : dash' = [dash EXCEPT !.range = r, !.loading = l]
    <3>1. CASE DashFailed
      <4>1. dash' = [dash EXCEPT !.range = dash.range, !.loading = FALSE]
        BY <3>1 DEF DashFailed, DashInv, DashShape
      <4>2. dash.range \in DashRange
        BY DEF DashInv, DashShape
      <4>3. QED
        BY <4>1, <4>2
    <3>2. CASE \E s \in DashRange : ChooseRange(s)
      BY <3>2 DEF ChooseRange
    <3>3. QED
      BY <1>2, <3>1, <3>2
  <2>2. dash' \in DashShape
    BY <2>1 DEF DashInv, DashShape
  <2>3. dash'.of = dash.of /\ dash'.book = dash.book /\ dash'.bal = dash.bal
    BY <2>1 DEF DashInv, DashShape
  <2>4. QED
    BY <2>2, <2>3 DEF DashInv
<1>3. CASE UNCHANGED dash
  BY <1>3 DEF DashInv
<1>4. QED
  BY <1>1, <1>2, <1>3 DEF DashNext

(* The account types fall into what the dashboard adds up separately and   *)
(* what it does not count. *)
LEMMA TypesApart ==
    ASSUME NEW bal \in [DashType -> Int]
    PROVE  /\ \A S : SumOf(bal, S) \in Int
           /\ SumOver(bal, DashType) =
                SumOf(bal, Holdings) + SumOf(bal, Debts)
                  + SumOf(bal, {"INCOME"}) + SumOf(bal, {"EXPENSE"}) + SumOf(bal, Uncounted)
<1>1. IsFiniteSet(DashType)
  BY OverviewAssumption
<1>2. \A S : SumOf(bal, S) = SumOver(bal, S \cap DashType)
  BY DEF SumOf, SumOver
<1>3. \A S \in SUBSET DashType : IsFiniteSet(S) /\ SumOver(bal, S) \in Int
  BY <1>1, FS_Subset, SumInt
<1>4. \A S : SumOf(bal, S) \in Int
  <2> SUFFICES ASSUME NEW S PROVE SumOf(bal, S) \in Int
    OBVIOUS
  <2>1. S \cap DashType \in SUBSET DashType
    OBVIOUS
  <2>2. QED
    BY <1>2, <1>3, <2>1
<1>5. ASSUME NEW S, NEW X, NEW Y, X \cup Y = S, X \cap Y = {}
      PROVE  SumOf(bal, S) = SumOf(bal, X) + SumOf(bal, Y)
  <2>1. PICK P, Q, R : P = S \cap DashType /\ Q = X \cap DashType /\ R = Y \cap DashType
    OBVIOUS
  <2>2. Q \cup R = P /\ Q \cap R = {} /\ P \in SUBSET DashType
    BY <1>5, <2>1
  <2>3. IsFiniteSet(P) /\ \A x \in P : bal[x] \in Int
    BY <1>3, <2>2
  <2>4. SumOver(bal, P) = SumOver(bal, Q) + SumOver(bal, R)
    BY <2>2, <2>3, SumUnion
  <2>5. SumOf(bal, S) = SumOver(bal, P) /\ SumOf(bal, X) = SumOver(bal, Q)
        /\ SumOf(bal, Y) = SumOver(bal, R)
    BY <1>2, <2>1
  <2>6. QED
    BY <2>4, <2>5
<1>5a. PICK have, other : have = Holdings /\ other = Uncounted
  OBVIOUS
<1>5b. /\ have \cap Debts = {} /\ have \cap {"INCOME"} = {} /\ have \cap {"EXPENSE"} = {}
       /\ Debts \cap {"INCOME"} = {} /\ Debts \cap {"EXPENSE"} = {}
       /\ other \cap have = {} /\ other \cap Debts = {} /\ other \cap {"INCOME"} = {}
       /\ other \cap {"EXPENSE"} = {}
       /\ DashType \subseteq have \cup Debts \cup {"INCOME"} \cup {"EXPENSE"} \cup other
  BY <1>5a DEF Uncounted, Holdings, Debts, Flow
<1> DEFINE last == {"EXPENSE"} \cup other
           flow == {"INCOME"} \cup last
           rest == Debts \cup flow
           all == have \cup rest
<1>6. SumOf(bal, last) = SumOf(bal, {"EXPENSE"}) + SumOf(bal, other)
  BY <1>5, <1>5b
<1>7. SumOf(bal, flow) = SumOf(bal, {"INCOME"}) + SumOf(bal, last)
  <2>1. {"INCOME"} \cap last = {}
    BY <1>5b
  <2> HIDE DEF last
  <2>2. QED
    BY <1>5, <2>1
<1>8. SumOf(bal, rest) = SumOf(bal, Debts) + SumOf(bal, flow)
  <2>1. Debts \cap flow = {}
    BY <1>5b
  <2> HIDE DEF flow
  <2>2. QED
    BY <1>5, <2>1
<1>9. SumOf(bal, all) = SumOf(bal, have) + SumOf(bal, rest)
  <2>1. have \cap rest = {}
    BY <1>5b
  <2> HIDE DEF rest
  <2>2. QED
    BY <1>5, <2>1
<1>10. SumOf(bal, all) = SumOver(bal, DashType)
  <2>1. PICK T : T = all \cap DashType
    OBVIOUS
  <2>2. T = DashType
    BY <1>5b, <2>1
  <2> HIDE DEF all
  <2>3. QED
    BY <1>2, <2>1, <2>2
<1>11. PICK h, d, i, x, q, l, f, r :
         /\ h = SumOf(bal, have) /\ d = SumOf(bal, Debts) /\ i = SumOf(bal, {"INCOME"})
         /\ x = SumOf(bal, {"EXPENSE"}) /\ q = SumOf(bal, other)
         /\ l = SumOf(bal, last) /\ f = SumOf(bal, flow) /\ r = SumOf(bal, rest)
  OBVIOUS
<1>12. h \in Int /\ d \in Int /\ i \in Int /\ x \in Int /\ q \in Int
  BY <1>4, <1>11
<1>13. SumOver(bal, DashType) = h + d + i + x + q
  BY <1>6, <1>7, <1>8, <1>9, <1>10, <1>11, <1>12
<1>14. QED
  BY <1>4, <1>5a, <1>11, <1>13

LEMMA WorthShown == DashInv => DashNetWorth
<1> SUFFICES ASSUME DashInv, dash.of = "all", SumOf(dash.bal, Debts) <= 0,
                    SumOf(dash.bal, {"INCOME"}) <= 0
             PROVE  NetWorth(dash.bal) = Income(dash.bal) - Expenses(dash.bal)
                                           - SumOf(dash.bal, Uncounted)
  BY DEF DashNetWorth
<1>1. PICK b : b = dash.bal
  OBVIOUS
<1>2. b \in [DashType -> Int] /\ b = InRange(dash.book, "all") /\ dash.book \in SUBSET DashEntries
  BY <1>1 DEF DashInv, DashShape, DashRange
<1>3. SumOver(b, DashType) = 0
  BY <1>2, AllAddUp
<1>4. PICK h, d, i, x, q :
         /\ h = SumOf(b, Holdings) /\ d = SumOf(b, Debts)
         /\ i = SumOf(b, {"INCOME"}) /\ x = SumOf(b, {"EXPENSE"}) /\ q = SumOf(b, Uncounted)
  OBVIOUS
<1>5. h \in Int /\ d \in Int /\ i \in Int /\ x \in Int /\ q \in Int
  BY <1>2, <1>4, TypesApart
<1>6. 0 = h + d + i + x + q
  BY <1>2, <1>3, <1>4, TypesApart
<1>7. d <= 0 /\ i <= 0
  BY <1>1, <1>4
<1>8. Magnitude(d) = -d /\ Magnitude(i) = -i
  BY <1>5, <1>7 DEF Magnitude
<1>9. h - Magnitude(d) = Magnitude(i) - x - q
  BY <1>5, <1>6, <1>8
<1>10. QED
  BY <1>1, <1>4, <1>9 DEF NetWorth, Assets, Liabilities, Income, Expenses

-----------------------------------------------------------------------------
(* The list of snapshots.  Two lists without repetition that have the same *)
(* members in the same order are equal. *)
LEMMA Increasing ==
    ASSUME NEW n \in Nat, NEW m \in Nat, NEW e \in [1..n -> 1..m],
           \A i, j \in 1..n : i < j => e[i] < e[j]
    PROVE  \A i \in 1..n : i <= e[i]
<1> DEFINE T == {i \in 1..n : e[i] < i}
<1>1. CASE T = {}
  BY <1>1
<1>2. CASE T # {}
  <2>0. T \subseteq Nat
    OBVIOUS
  <2>1. PICK i \in T : \A j \in T : i <= j
    <3> HIDE DEF T
    <3>1. QED
      BY <1>2, <2>0, LeastNatural
  <2>2. i \in 1..n /\ e[i] < i /\ e[i] \in 1..m
    BY <2>1
  <2>3. i - 1 \in 1..n
    BY <2>2
  <2>4. e[i - 1] < e[i] /\ e[i - 1] \in 1..m
    BY <2>2, <2>3
  <2>5. i - 1 \in T
    BY <2>2, <2>3, <2>4
  <2> HIDE DEF T
  <2>6. QED
    BY <2>1, <2>2, <2>5
<1>3. QED
  BY <1>1, <1>2

(* Of two members of m, the first comes first in l too. *)
InOrder(m, l) ==
    \A i, j \in DOMAIN m : i < j =>
        \E k, n \in DOMAIN l : k < n /\ m[i] = l[k] /\ m[j] = l[n]

LEMMA SameList ==
    ASSUME NEW S, NEW l \in Seq(S), NEW m \in Seq(S), IsInjective(l), IsInjective(m),
           \A x : x \in Range(l) <=> x \in Range(m), InOrder(m, l)
    PROVE  m = l
<1>1. PICK p, q \in Nat : DOMAIN l = 1..p /\ DOMAIN m = 1..q /\ p = Len(l) /\ q = Len(m)
  OBVIOUS
<1>2. \A i, j \in 1..p : l[i] = l[j] => i = j
  BY <1>1 DEF IsInjective
<1>3. \A i, j \in 1..q : m[i] = m[j] => i = j
  BY <1>1 DEF IsInjective
<1>4. \A x : (\E i \in 1..p : l[i] = x) <=> (\E i \in 1..q : m[i] = x)
  <2>1. \A x : x \in Range(l) <=> \E i \in 1..p : l[i] = x
    BY <1>1 DEF Range
  <2>2. \A x : x \in Range(m) <=> \E i \in 1..q : m[i] = x
    BY <1>1 DEF Range
  <2>3. QED
    BY <2>1, <2>2
<1>5. \A i, j \in 1..q : i < j => \E k, n \in 1..p : k < n /\ m[i] = l[k] /\ m[j] = l[n]
  <2> SUFFICES ASSUME NEW i \in 1..q, NEW j \in 1..q, i < j
               PROVE  \E k, n \in 1..p : k < n /\ m[i] = l[k] /\ m[j] = l[n]
    OBVIOUS
  <2>1. i \in DOMAIN m /\ j \in DOMAIN m
    BY <1>1
  <2>2. PICK k, n \in DOMAIN l : k < n /\ m[i] = l[k] /\ m[j] = l[n]
    BY <2>1 DEF InOrder
  <2>3. QED
    BY <1>1, <2>2
<1> DEFINE e == [i \in 1..q |-> CHOOSE k \in 1..p : l[k] = m[i]]
           f == [k \in 1..p |-> CHOOSE i \in 1..q : m[i] = l[k]]
<1>6. /\ \A i \in 1..q : e[i] \in 1..p /\ l[e[i]] = m[i]
      /\ \A k \in 1..p : f[k] \in 1..q /\ m[f[k]] = l[k]
  BY <1>4
<1>7. e \in [1..q -> 1..p] /\ f \in [1..p -> 1..q]
  BY <1>6
<1> HIDE DEF e, f
<1>8. \A i, j \in 1..q : i < j => e[i] < e[j]
  <2> SUFFICES ASSUME NEW i \in 1..q, NEW j \in 1..q, i < j PROVE e[i] < e[j]
    OBVIOUS
  <2>1. PICK k, n \in 1..p : k < n /\ m[i] = l[k] /\ m[j] = l[n]
    BY <1>5
  <2>2. e[i] = k
    <3>1. e[i] \in 1..p /\ l[e[i]] = l[k]
      BY <1>6, <2>1
    <3>2. QED
      BY <1>2, <3>1
  <2>3. e[j] = n
    <3>1. e[j] \in 1..p /\ l[e[j]] = l[n]
      BY <1>6, <2>1
    <3>2. QED
      BY <1>2, <3>1
  <2>4. QED
    BY <2>1, <2>2, <2>3
<1>9. ASSUME NEW i \in 1..q PROVE f[e[i]] = i
  <2>1. e[i] \in 1..p /\ f[e[i]] \in 1..q /\ m[f[e[i]]] = m[i]
    BY <1>6
  <2>2. QED
    BY <1>3, <2>1
<1>10. ASSUME NEW k \in 1..p PROVE e[f[k]] = k
  <2>1. f[k] \in 1..q /\ e[f[k]] \in 1..p /\ l[e[f[k]]] = l[k]
    BY <1>6
  <2>2. QED
    BY <1>2, <2>1
<1>11. \A k, n \in 1..p : k < n => f[k] < f[n]
  <2> SUFFICES ASSUME NEW k \in 1..p, NEW n \in 1..p, k < n PROVE f[k] < f[n]
    OBVIOUS
  <2>1. f[k] \in 1..q /\ f[n] \in 1..q /\ e[f[k]] = k /\ e[f[n]] = n
    BY <1>6, <1>10
  <2>2. f[n] < f[k] => n < k
    BY <1>8, <2>1
  <2>3. f[n] = f[k] => n = k
    BY <2>1
  <2>4. QED
    BY <2>1, <2>2, <2>3
<1>12. \A i \in 1..q : i <= e[i]
  BY <1>7, <1>8, Increasing
<1>13. \A k \in 1..p : k <= f[k]
  BY <1>7, <1>11, Increasing
<1>14. \A i \in 1..q : i \in 1..p /\ l[i] = m[i]
  <2> SUFFICES ASSUME NEW i \in 1..q PROVE i \in 1..p /\ l[i] = m[i]
    OBVIOUS
  <2>1. e[i] \in 1..p /\ i <= e[i] /\ e[i] <= f[e[i]] /\ f[e[i]] = i
    BY <1>6, <1>9, <1>12, <1>13
  <2>2. e[i] = i
    BY <2>1
  <2>3. QED
    BY <1>6, <2>1, <2>2
<1>15. \A k \in 1..p : k \in 1..q
  <2> SUFFICES ASSUME NEW k \in 1..p PROVE k \in 1..q
    OBVIOUS
  <2>1. f[k] \in 1..q /\ k <= f[k]
    BY <1>6, <1>13
  <2>2. QED
    BY <2>1
<1>16. p = q
  <2>1. p = 0 \/ p \in 1..p
    OBVIOUS
  <2>2. q = 0 \/ q \in 1..q
    OBVIOUS
  <2>3. QED
    BY <1>14, <1>15, <2>1, <2>2
<1>17. QED
  BY <1>1, <1>14, <1>16

(* What Dropped leaves: all the others, in their order. *)
LEMMA RankIn ==
    ASSUME NEW p \in Nat, NEW k \in Nat, NEW i \in 1..p, i # k
    PROVE  Cardinality({j \in (1..p) \ {k} : j <= i}) = IF k \in 1..i THEN i - 1 ELSE i
<1>1. {j \in (1..p) \ {k} : j <= i} = (1..i) \ {k}
  OBVIOUS
<1>2. IsFiniteSet(1..i) /\ Cardinality(1..i) = i
  BY FS_Interval
<1>3. Cardinality((1..i) \ {k}) = IF k \in 1..i THEN i - 1 ELSE i
  BY <1>2, FS_RemoveElement
<1>4. QED
  BY <1>1, <1>3

LEMMA DroppedIs ==
    ASSUME NEW l \in Seq(Snap), IsInjective(l), NEW s
    PROVE  \E k \in Nat :
             LET r == Dropped(l, s)
                 at(i) == IF k = 0 \/ i < k THEN i ELSE i + 1
             IN  /\ k \in 0..Len(l) /\ (k = 0 => s \notin Range(l)) /\ (k # 0 => l[k] = s)
                 /\ r = [i \in 1..(IF k = 0 THEN Len(l) ELSE Len(l) - 1) |-> l[at(i)]]
<1>1. PICK p \in Nat : p = Len(l) /\ DOMAIN l = 1..p
  OBVIOUS
<1>2. PICK k \in 0..p : (k = 0 => s \notin Range(l)) /\ (k # 0 => l[k] = s)
  BY <1>1 DEF Range
<1> DEFINE stay == {i \in DOMAIN l : l[i] # s}
           Nth(n) == CHOOSE i \in stay : Cardinality({j \in stay : j <= i}) = n
           at(i) == IF k = 0 \/ i < k THEN i ELSE i + 1
           len == IF k = 0 THEN p ELSE p - 1
<1>3. stay = (1..p) \ {k}
  BY <1>1, <1>2 DEF Range, IsInjective
<1>4. Cardinality(stay) = len
  <2>1. IsFiniteSet(1..p) /\ Cardinality(1..p) = p
    BY FS_Interval
  <2>2. Cardinality((1..p) \ {k}) = IF k \in 1..p THEN p - 1 ELSE p
    BY <2>1, FS_RemoveElement
  <2>3. k \in 1..p <=> k # 0
    BY <1>2
  <2>4. Cardinality(stay) = Cardinality((1..p) \ {k})
    <3> HIDE DEF stay
    <3>1. QED
      BY <1>3
  <2> HIDE DEF stay
  <2>5. QED
    BY <2>2, <2>3, <2>4
<1>5. \A n \in 1..len : Nth(n) = at(n)
  <2> SUFFICES ASSUME NEW n \in 1..len PROVE Nth(n) = at(n)
    OBVIOUS
  <2>1. len \in Nat /\ len <= p
    BY <1>2
  <2>2. \A i \in stay : Cardinality({j \in stay : j <= i}) = IF k \in 1..i THEN i - 1 ELSE i
    BY <1>3, RankIn
  <2>3. at(n) \in stay
    BY <1>2, <1>3, <2>1
  <2>4. \A i \in stay : (IF k \in 1..i THEN i - 1 ELSE i) = n <=> i = at(n)
    BY <1>2, <1>3, <2>1
  <2> HIDE DEF stay, at, len
  <2>5. \A i \in stay : Cardinality({j \in stay : j <= i}) = n <=> i = at(n)
    BY <2>2, <2>4
  <2>6. QED
    BY <2>3, <2>5
<1>6. Dropped(l, s) = [n \in 1..Cardinality(stay) |-> l[Nth(n)]]
  BY DEF Dropped
<1> HIDE DEF stay, Nth
<1>7. Dropped(l, s) = [n \in 1..len |-> l[at(n)]]
  BY <1>4, <1>5, <1>6
<1>8. QED
  BY <1>1, <1>2, <1>7

LEMMA DroppedKeeps ==
    ASSUME NEW l \in Seq(Snap), IsInjective(l), NEW s, NEW r, r = Dropped(l, s)
    PROVE  /\ r \in Seq(Snap) /\ IsInjective(r)
           /\ \A x : x \in Range(r) <=> x \in Range(l) /\ x # s
           /\ InOrder(r, l)
           /\ \A k, n \in DOMAIN l : k < n /\ l[k] # s /\ l[n] # s =>
                \E i, j \in DOMAIN r : i < j /\ r[i] = l[k] /\ r[j] = l[n]
<1>1. PICK p \in Nat : p = Len(l) /\ DOMAIN l = 1..p
  OBVIOUS
<1>2. \A i, j \in 1..p : l[i] = l[j] => i = j
  BY <1>1 DEF IsInjective
<1>3. \A i \in 1..p : l[i] \in Snap
  BY <1>1
<1> DEFINE at(k, i) == IF k = 0 \/ i < k THEN i ELSE i + 1
           len(k) == IF k = 0 THEN p ELSE p - 1
<1>4. PICK k \in Nat : /\ k \in 0..p /\ (k = 0 => s \notin Range(l)) /\ (k # 0 => l[k] = s)
                       /\ r = [i \in 1..len(k) |-> l[at(k, i)]]
  BY <1>1, DroppedIs
<1>5. len(k) \in Nat
  BY <1>4
<1>6. \A i \in 1..len(k) : at(k, i) \in 1..p /\ at(k, i) # k /\ r[i] = l[at(k, i)]
  BY <1>4
<1>7. \A i, j \in 1..len(k) : i < j => at(k, i) < at(k, j)
  BY <1>4
<1>8. DOMAIN r = 1..len(k)
  BY <1>4
<1>9. \A n \in 1..p : n # k => \E i \in 1..len(k) : at(k, i) = n
  <2> SUFFICES ASSUME NEW n \in 1..p, n # k PROVE \E i \in 1..len(k) : at(k, i) = n
    OBVIOUS
  <2>1. PICK i : i = IF k = 0 \/ n < k THEN n ELSE n - 1
    OBVIOUS
  <2>2. i \in 1..len(k) /\ at(k, i) = n
    BY <1>4, <2>1
  <2>3. QED
    BY <2>2
<1>10. \A n \in 1..p : l[n] = s <=> n = k
  BY <1>1, <1>2, <1>4 DEF Range
<1>11. \A i, j \in 1..len(k) : at(k, i) < at(k, j) => i < j
  BY <1>4
<1> HIDE DEF at, len
<1>12. r \in Seq(Snap)
  <2>1. r = [i \in 1..len(k) |-> l[at(k, i)]] /\ \A i \in 1..len(k) : l[at(k, i)] \in Snap
    BY <1>3, <1>4, <1>6
  <2>2. QED
    BY <1>5, <2>1
<1>13. IsInjective(r)
  <2> SUFFICES ASSUME NEW i \in 1..len(k), NEW j \in 1..len(k), r[i] = r[j] PROVE i = j
    BY <1>8 DEF IsInjective
  <2>1. at(k, i) = at(k, j) /\ at(k, i) \in Nat
    BY <1>2, <1>6
  <2>2. ~(at(k, i) < at(k, j)) /\ ~(at(k, j) < at(k, i))
    BY <2>1
  <2>3. QED
    BY <1>5, <1>7, <2>2
<1>14. ASSUME NEW x PROVE x \in Range(r) <=> x \in Range(l) /\ x # s
  <2>1. ASSUME x \in Range(r) PROVE x \in Range(l) /\ x # s
    <3>1. PICK i \in 1..len(k) : x = r[i]
      BY <1>8, <2>1 DEF Range
    <3>2. QED
      BY <1>1, <1>6, <1>10, <3>1 DEF Range
  <2>2. ASSUME x \in Range(l), x # s PROVE x \in Range(r)
    <3>1. PICK n \in 1..p : x = l[n]
      BY <1>1, <2>2 DEF Range
    <3>2. PICK i \in 1..len(k) : at(k, i) = n
      BY <1>9, <1>10, <2>2, <3>1
    <3>3. r[i] = x
      BY <1>6, <3>1, <3>2
    <3>4. QED
      BY <1>8, <3>3 DEF Range
  <2>3. QED
    BY <2>1, <2>2
<1>15. InOrder(r, l)
  <2> SUFFICES ASSUME NEW i \in 1..len(k), NEW j \in 1..len(k), i < j
               PROVE  \E a, b \in DOMAIN l : a < b /\ r[i] = l[a] /\ r[j] = l[b]
    BY <1>8 DEF InOrder
  <2>1. at(k, i) \in DOMAIN l /\ at(k, j) \in DOMAIN l /\ at(k, i) < at(k, j)
    BY <1>1, <1>6, <1>7
  <2>2. QED
    BY <1>6, <2>1
<1>16. ASSUME NEW a \in DOMAIN l, NEW b \in DOMAIN l, a < b, l[a] # s, l[b] # s
       PROVE  \E i, j \in DOMAIN r : i < j /\ r[i] = l[a] /\ r[j] = l[b]
  <2>1. a \in 1..p /\ b \in 1..p /\ a # k /\ b # k
    BY <1>1, <1>10, <1>16
  <2>2. PICK i \in 1..len(k) : at(k, i) = a
    BY <1>9, <2>1
  <2>3. PICK j \in 1..len(k) : at(k, j) = b
    BY <1>9, <2>1
  <2>4. i < j
    BY <1>11, <1>16, <2>2, <2>3
  <2>5. QED
    BY <1>6, <1>8, <2>2, <2>3, <2>4
<1>17. QED
  BY <1>12, <1>13, <1>14, <1>15, <1>16

(* A new row in front of the others. *)
Pushed(t, l) == <<t>> \o l
InFront(r, t, l) ==
    /\ r \in Seq(Snap) /\ IsInjective(r)
    /\ \A x : x \in Range(r) <=> x \in Range(l) \/ x = t
    /\ 1 \in DOMAIN r /\ r[1] = t
    /\ \A i \in DOMAIN l : i \in Nat /\ i > 0 /\ i + 1 \in DOMAIN r /\ r[i + 1] = l[i]
    /\ \A i \in DOMAIN r : i \in Nat /\ (i # 1 => i - 1 \in DOMAIN l /\ r[i] = l[i - 1])
LEMMA PushedKeeps ==
    ASSUME NEW l \in Seq(Snap), IsInjective(l), NEW t \in Snap, t \notin Range(l)
    PROVE  InFront(Pushed(t, l), t, l)
<1>0. PICK r : r = Pushed(t, l) /\ r = <<t>> \o l
  BY DEF Pushed
<1>1. PICK p \in Nat : p = Len(l) /\ DOMAIN l = 1..p
  OBVIOUS
<1>2. r \in Seq(Snap) /\ Len(r) = p + 1 /\ DOMAIN r = 1..(p + 1)
  BY <1>0, <1>1
<1>3. r[1] = t /\ \A i \in 2..(p + 1) : r[i] = l[i - 1]
  BY <1>0, <1>1
<1>4. \A i \in 1..p : r[i + 1] = l[i] /\ l[i] # t
  BY <1>1, <1>3 DEF Range
<1>5. \A i, j \in 1..p : l[i] = l[j] => i = j
  BY <1>1 DEF IsInjective
<1>6. IsInjective(r)
  <2> SUFFICES ASSUME NEW i \in 1..(p + 1), NEW j \in 1..(p + 1), r[i] = r[j] PROVE i = j
    BY <1>2 DEF IsInjective
  <2>1. \A n \in 1..(p + 1) : n = 1 \/ (n - 1 \in 1..p /\ r[n] = l[n - 1] /\ r[n] # t)
    BY <1>1, <1>3, <1>4
  <2>2. CASE i = 1 \/ j = 1
    BY <1>3, <2>1, <2>2
  <2>3. CASE i # 1 /\ j # 1
    <3>1. i - 1 = j - 1
      BY <1>5, <2>1, <2>3
    <3>2. QED
      BY <3>1
  <2>4. QED
    BY <2>2, <2>3
<1>7. ASSUME NEW x PROVE x \in Range(r) <=> x \in Range(l) \/ x = t
  <2>1. x \in Range(r) <=> \E i \in 1..(p + 1) : r[i] = x
    BY <1>2 DEF Range
  <2>2. x \in Range(l) <=> \E i \in 1..p : l[i] = x
    BY <1>1 DEF Range
  <2>3. ASSUME NEW i \in 1..(p + 1), r[i] = x PROVE x = t \/ \E j \in 1..p : l[j] = x
    <3>1. i = 1 \/ (i - 1 \in 1..p /\ r[i] = l[i - 1])
      BY <1>1, <1>3
    <3>2. QED
      BY <1>3, <2>3, <3>1
  <2>4. ASSUME NEW i \in 1..p, l[i] = x PROVE \E j \in 1..(p + 1) : r[j] = x
    <3>1. i + 1 \in 1..(p + 1) /\ r[i + 1] = x
      BY <1>1, <1>4, <2>4
    <3>2. QED
      BY <3>1
  <2>5. 1 \in 1..(p + 1) /\ r[1] = t
    BY <1>3
  <2>6. QED
    BY <2>1, <2>2, <2>3, <2>4, <2>5
<1>8. /\ 1 \in DOMAIN r
      /\ \A i \in DOMAIN l : i \in Nat /\ i > 0 /\ i + 1 \in DOMAIN r
      /\ \A i \in DOMAIN r : i \in Nat /\ (i # 1 => i - 1 \in DOMAIN l)
  BY <1>1, <1>2
<1>9. \A i \in DOMAIN r : i # 1 => r[i] = l[i - 1]
  BY <1>2, <1>3
<1>10. \A i \in DOMAIN l : r[i + 1] = l[i]
  BY <1>1, <1>4
<1>11. QED
  BY <1>0, <1>2, <1>3, <1>6, <1>7, <1>8, <1>9, <1>10 DEF InFront

(* The page: while nothing failed and nothing was restored, the server's   *)
(* list is the page's, with the snapshot that was just taken in front of   *)
(* it and without those that were just deleted, in the order of the page.  *)
SnapState(list) ==
    [list : {list}, taking : BOOLEAN, restoring : Snap \cup {NoSnap},
     deleting : Snap \cup {NoSnap}, calm : BOOLEAN, load : {"sent", "run", "done"},
     got : Seq(Snap), take : Snap \cup {NoSnap}, restore : [Snap -> {"no", "sent", "run"}],
     delete : [Snap -> {"no", "sent", "run", "refused"}], reload : BOOLEAN,
     server : Seq(Snap), used : SUBSET Snap]
SnapShape(m) ==
    /\ \E list : m \in SnapState(list)
    /\ IsInjective(m.server) /\ \A x \in Range(m.server) : x \in m.used
SnapUnasked(m) ==
    /\ m.list = <<>> /\ ~m.taking /\ \A s \in Snap : m.delete[s] = "no"
    /\ m.load = "run" => m.got = m.server
SnapFollows(m) ==
    /\ m.list \in Seq(Snap) /\ IsInjective(m.list) /\ m.take \notin Range(m.list)
    /\ \A x \in Range(m.list) : x \in m.used
    /\ \A s \in Snap : m.delete[s] # "no" => s \in m.used /\ s # m.take
    /\ \A x \in Snap : x \in Range(m.server) <=>
           (x \in Range(m.list) \/ x = m.take) /\ m.delete[x] # "run"
    /\ \A i, j \in DOMAIN m.server : i < j =>
           \/ m.server[i] = m.take
           \/ \E k, n \in DOMAIN m.list :
                k < n /\ m.server[i] = m.list[k] /\ m.server[j] = m.list[n]
SnapTrue(m) ==
    /\ m.take # NoSnap => m.taking
    /\ \A s \in Snap : m.restore[s] = "no"
    /\ ~m.reload
    /\ IF m.load = "done" THEN SnapFollows(m) ELSE SnapUnasked(m)
SnapGood(m) == SnapShape(m) /\ (m.calm => SnapTrue(m))
SnapInv == SnapGood(snap)

LEMMA ListTyped ==
    /\ <<>> \in Seq(Snap) /\ IsInjective(<<>>) /\ \A x : x \notin Range(<<>>)
    /\ \A l \in Seq(Snap) : \A x \in Range(l) : x \in Snap
<1>1. <<>> \in Seq(Snap) /\ DOMAIN <<>> = {}
  OBVIOUS
<1>2. QED
  BY <1>1 DEF IsInjective, Range

(* The page that was loaded anew. *)
SnapAnew(server, used) ==
    [list |-> <<>>, taking |-> FALSE, restoring |-> NoSnap, deleting |-> NoSnap,
     calm |-> TRUE, load |-> "sent", got |-> <<>>, take |-> NoSnap,
     restore |-> [s \in Snap |-> "no"], delete |-> [s \in Snap |-> "no"],
     reload |-> FALSE, server |-> server, used |-> used]
LEMMA SnapAnewGood ==
    ASSUME NEW server \in Seq(Snap), NEW used \in SUBSET Snap, IsInjective(server),
           \A x \in Range(server) : x \in used
    PROVE  SnapGood(SnapAnew(server, used))
<1>1. PICK m : m = SnapAnew(server, used)
  OBVIOUS
<1>2. m \in SnapState(<<>>)
  BY <1>1, ListTyped DEF SnapState, SnapAnew
<1>3. SnapShape(m)
  BY <1>1, <1>2 DEF SnapShape, SnapAnew
<1>4. SnapTrue(m)
  BY <1>1 DEF SnapTrue, SnapUnasked, SnapAnew
<1>5. QED
  BY <1>1, <1>3, <1>4 DEF SnapGood

LEMMA SnapStartKeeps == snap = SnapStart => SnapInv
<1>1. SnapStart = SnapAnew(FirstSnaps, Range(FirstSnaps))
  BY DEF SnapStart, SnapAnew
<1>2. FirstSnaps \in Seq(Snap) /\ IsInjective(FirstSnaps)
  BY OverviewAssumption
<1>3. Range(FirstSnaps) \in SUBSET Snap
  BY <1>2, ListTyped
<1>4. QED
  BY <1>1, <1>2, <1>3, SnapAnewGood DEF SnapInv

LEMMA ListsAgree == SnapInv => SnapListTrue
<1> SUFFICES ASSUME SnapInv, snap.calm, ~SnapAsked(snap) PROVE snap.list = snap.server
  BY DEF SnapListTrue
<1>1. /\ snap.load = "done" /\ ~snap.taking /\ \A s \in Snap : snap.delete[s] = "no"
  BY DEF SnapAsked
<1>2. PICK l, m : l = snap.list /\ m = snap.server
  OBVIOUS
<1>3. SnapFollows(snap) /\ snap.take = NoSnap
  BY <1>1 DEF SnapInv, SnapGood, SnapTrue
<1>4. l \in Seq(Snap) /\ m \in Seq(Snap) /\ IsInjective(l) /\ IsInjective(m)
  BY <1>2, <1>3 DEF SnapFollows, SnapInv, SnapGood, SnapShape, SnapState
<1>5. \A x \in Snap : x \in Range(m) <=> x \in Range(l)
  BY <1>1, <1>2, <1>3, OverviewAssumption DEF SnapFollows
<1>6. \A x : x \in Range(l) <=> x \in Range(m)
  BY <1>4, <1>5, ListTyped
<1>7. \A i \in DOMAIN m : m[i] # NoSnap
  BY <1>4, OverviewAssumption
<1>8. InOrder(m, l)
  BY <1>2, <1>3, <1>7 DEF SnapFollows, InOrder
<1>9. QED
  BY <1>2, <1>4, <1>6, <1>8, SameList

(* Loading the list. *)
LEMMA SnapLoadKeeps ==
    ASSUME SnapInv, SnapRun \/ SnapAnswered \/ SnapFailed
    PROVE  SnapInv'
<1>1. PICK m, n, list : m = snap /\ n = snap' /\ m \in SnapState(list)
  BY DEF SnapInv, SnapGood, SnapShape
<1>2. /\ IsInjective(m.server) /\ \A x \in Range(m.server) : x \in m.used
      /\ m.calm => SnapTrue(m)
  BY <1>1 DEF SnapInv, SnapGood, SnapShape
<1>3. CASE SnapRun
  <2>1. m.load = "sent" /\ n = [m EXCEPT !.load = "run", !.got = m.server]
    BY <1>1, <1>3 DEF SnapRun
  <2>2. n \in SnapState(list)
    BY <1>1, <2>1 DEF SnapState
  <2>3. /\ n.server = m.server /\ n.used = m.used /\ n.calm = m.calm /\ n.list = m.list
        /\ n.taking = m.taking /\ n.delete = m.delete /\ n.restore = m.restore
        /\ n.reload = m.reload /\ n.take = m.take /\ n.load = "run" /\ n.got = m.server
    BY <1>1, <2>1 DEF SnapState
  <2>4. n.calm => SnapTrue(n)
    BY <1>2, <2>1, <2>3 DEF SnapTrue, SnapUnasked
  <2>5. SnapShape(n)
    BY <1>2, <2>2, <2>3 DEF SnapShape
  <2>6. QED
    BY <1>1, <2>4, <2>5 DEF SnapInv, SnapGood
<1>4. CASE SnapAnswered
  <2>1. m.load = "run" /\ n = [m EXCEPT !.load = "done", !.list = m.got, !.got = <<>>]
    BY <1>1, <1>4 DEF SnapAnswered
  <2>2. n \in SnapState(m.got)
    BY <1>1, <2>1, ListTyped DEF SnapState
  <2>3. /\ n.server = m.server /\ n.used = m.used /\ n.calm = m.calm /\ n.list = m.got
        /\ n.taking = m.taking /\ n.delete = m.delete /\ n.restore = m.restore
        /\ n.reload = m.reload /\ n.take = m.take /\ n.load = "done"
    BY <1>1, <2>1 DEF SnapState
  <2>4. ASSUME n.calm PROVE SnapFollows(n)
    <3>1. /\ m.got = m.server /\ ~m.taking /\ m.take = NoSnap
          /\ \A s \in Snap : m.delete[s] = "no"
      BY <1>2, <2>1, <2>3, <2>4 DEF SnapTrue, SnapUnasked
    <3>2. PICK l : l = m.server
      OBVIOUS
    <3>3. l \in Seq(Snap) /\ IsInjective(l) /\ NoSnap \notin Range(l)
          /\ \A x \in Range(l) : x \in m.used
      BY <1>1, <1>2, <3>2, ListTyped, OverviewAssumption DEF SnapState
    <3>4. n.list = l /\ n.server = l /\ n.take = NoSnap
      BY <2>3, <3>1, <3>2
    <3>5. \A s \in Snap : s # NoSnap /\ n.delete[s] = "no"
      BY <2>3, <3>1, OverviewAssumption
    <3>6. QED
      BY <2>3, <3>3, <3>4, <3>5 DEF SnapFollows
  <2>5. n.calm => SnapTrue(n)
    BY <1>2, <2>1, <2>3, <2>4 DEF SnapTrue, SnapUnasked
  <2>6. SnapShape(n)
    BY <1>2, <2>2, <2>3 DEF SnapShape
  <2>7. QED
    BY <1>1, <2>5, <2>6 DEF SnapInv, SnapGood
<1>5. CASE SnapFailed
  <2>1. n = [m EXCEPT !.load = "done", !.list = <<>>, !.got = <<>>, !.calm = FALSE]
    BY <1>1, <1>5 DEF SnapFailed
  <2>2. PICK none : none = <<>> /\ none \in Seq(Snap)
    BY ListTyped
  <2>3. n = [m EXCEPT !.load = "done", !.list = none, !.got = none, !.calm = FALSE]
    BY <2>1, <2>2
  <2>4. n \in SnapState(none) /\ n.server = m.server /\ n.used = m.used /\ ~n.calm
    <3>1. PICK d : d = [m EXCEPT !.load = "done", !.got = none]
      OBVIOUS
    <3>2. d \in SnapState(list) /\ d.server = m.server /\ d.used = m.used
      BY <1>1, <2>2, <3>1 DEF SnapState
    <3>3. n = [d EXCEPT !.list = none, !.calm = FALSE]
      BY <1>1, <2>3, <3>1 DEF SnapState
    <3>4. QED
      BY <3>2, <3>3 DEF SnapState
  <2>5. QED
    BY <1>1, <1>2, <2>4 DEF SnapInv, SnapGood, SnapShape
<1>6. QED
  BY <1>3, <1>4, <1>5

(* Taking a snapshot: it comes in front of both lists. *)
LEMMA SnapTakeKeeps ==
    ASSUME SnapInv, HandleTake \/ RunTake \/ TakeAnswered \/ TakeFailed
    PROVE  SnapInv'
<1>1. PICK m, n, list : m = snap /\ n = snap' /\ m \in SnapState(list)
  BY DEF SnapInv, SnapGood, SnapShape
<1>2. /\ IsInjective(m.server) /\ \A x \in Range(m.server) : x \in m.used
      /\ m.calm => SnapTrue(m)
  BY <1>1 DEF SnapInv, SnapGood, SnapShape
<1>3. CASE HandleTake
  <2>1. /\ n.server = m.server /\ n.used = m.used /\ n.list = m.list /\ n \in SnapState(list)
        /\ n.taking /\ n.delete = m.delete /\ n.restore = m.restore
        /\ n.reload = m.reload /\ n.take = m.take /\ n.load = m.load
        /\ n.calm <=> m.calm /\ m.load = "done"
    <3>1. PICK c \in BOOLEAN : c <=> m.calm /\ m.load = "done"
      OBVIOUS
    <3>2. n = [m EXCEPT !.taking = TRUE, !.calm = c]
      BY <1>1, <1>3, <3>1 DEF HandleTake, SnapState
    <3>3. QED
      BY <1>1, <3>1, <3>2 DEF SnapState
  <2>2. n.calm => SnapTrue(n)
    BY <1>2, <2>1 DEF SnapTrue, SnapFollows
  <2>3. QED
    BY <1>1, <1>2, <2>1, <2>2 DEF SnapInv, SnapGood, SnapShape
<1>4. CASE RunTake
  <2>1. PICK t \in Snap : /\ t \notin m.used /\ m.taking /\ m.take = NoSnap
                          /\ n = [m EXCEPT !.take = t, !.server = <<t>> \o m.server,
                                           !.used = m.used \cup {t}]
    BY <1>1, <1>4 DEF RunTake
  <2>2. PICK v, r : v = m.server /\ r = <<t>> \o v
    OBVIOUS
  <2>3. v \in Seq(Snap) /\ IsInjective(v) /\ t \notin Range(v)
    BY <1>1, <1>2, <2>1, <2>2 DEF SnapState
  <2>4. /\ r \in Seq(Snap) /\ IsInjective(r)
        /\ \A x : x \in Range(r) <=> x \in Range(v) \/ x = t
        /\ r[1] = t
        /\ \A i \in DOMAIN r : i \in Nat /\ (i # 1 => i - 1 \in DOMAIN v /\ r[i] = v[i - 1])
    <3>1. t \in Snap /\ r = Pushed(t, v)
      BY <2>1, <2>2 DEF Pushed
    <3>2. InFront(r, t, v)
      BY <2>3, <3>1, PushedKeeps
    <3>3. QED
      BY <3>2 DEF InFront
  <2>5. /\ n.server = r /\ n.used = m.used \cup {t} /\ n.list = m.list /\ n \in SnapState(list)
        /\ n.taking /\ n.delete = m.delete /\ n.restore = m.restore
        /\ n.reload = m.reload /\ n.take = t /\ n.load = m.load /\ n.calm = m.calm
    <3>1. PICK u : u = m.used \cup {t} /\ u \in SUBSET Snap
      <4>1. m.used \in SUBSET Snap
        BY <1>1 DEF SnapState
      <4>2. QED
        BY <2>1, <4>1
    <3>2. n = [m EXCEPT !.take = t, !.server = r, !.used = u]
      BY <2>1, <2>2, <3>1
    <3>3. QED
      BY <1>1, <2>1, <2>4, <3>1, <3>2 DEF SnapState
  <2>6. ASSUME n.calm PROVE SnapTrue(n)
    <3>1. m.load = "done" /\ SnapFollows(m) /\ SnapTrue(m)
      BY <1>1, <1>2, <2>1, <2>5, <2>6 DEF SnapTrue, SnapUnasked, SnapState
    <3>2. /\ m.list \in Seq(Snap) /\ IsInjective(m.list) /\ t \notin Range(m.list)
          /\ \A x \in Range(m.list) : x \in n.used
          /\ \A s \in Snap : m.delete[s] # "no" => s \in n.used /\ s # t
      BY <2>1, <2>5, <3>1 DEF SnapFollows
    <3>3. \A x \in Snap : x \in Range(r) <=>
              (x \in Range(m.list) \/ x = t) /\ m.delete[x] # "run"
      <4>1. m.delete[t] # "run"
        BY <3>2
      <4>2. \A x \in Snap : x # NoSnap
        BY OverviewAssumption
      <4>3. QED
        BY <2>1, <2>2, <2>4, <3>1, <4>1, <4>2 DEF SnapFollows
    <3>4. ASSUME NEW i \in DOMAIN r, NEW j \in DOMAIN r, i < j
          PROVE  \/ r[i] = t
                 \/ \E k, o \in DOMAIN m.list : k < o /\ r[i] = m.list[k] /\ r[j] = m.list[o]
      <4>1. CASE i = 1
        BY <2>4, <4>1
      <4>2. CASE i # 1
        <5>1. j # 1 /\ i - 1 < j - 1
          <6>1. i \in 1..Len(r) /\ j \in 1..Len(r) /\ Len(r) \in Nat
            BY <2>4
          <6>2. QED
            BY <3>4, <4>2, <6>1
        <5>2. /\ i - 1 \in DOMAIN v /\ j - 1 \in DOMAIN v
              /\ r[i] = v[i - 1] /\ r[j] = v[j - 1]
          BY <2>4, <4>2, <5>1
        <5>3. v[i - 1] # NoSnap
          BY <2>3, <5>2, OverviewAssumption
        <5>4. \A a, b \in DOMAIN v : a < b =>
                 \/ v[a] = NoSnap
                 \/ \E k, o \in DOMAIN m.list :
                      k < o /\ v[a] = m.list[k] /\ v[b] = m.list[o]
          BY <2>1, <2>2, <3>1 DEF SnapFollows
        <5>5. \E k, o \in DOMAIN m.list :
                 k < o /\ v[i - 1] = m.list[k] /\ v[j - 1] = m.list[o]
          BY <5>1, <5>2, <5>3, <5>4
        <5>6. QED
          BY <5>2, <5>5
      <4>3. QED
        BY <4>1, <4>2
    <3>5. SnapFollows(n)
      BY <2>5, <3>2, <3>3, <3>4 DEF SnapFollows
    <3>6. QED
      BY <2>5, <3>1, <3>5 DEF SnapTrue
  <2>7. SnapShape(n)
    BY <1>2, <2>2, <2>4, <2>5 DEF SnapShape
  <2>8. QED
    BY <1>1, <2>6, <2>7 DEF SnapInv, SnapGood
<1>5. CASE TakeAnswered
  <2>1. /\ m.take # NoSnap
        /\ n = [[m EXCEPT !.list = <<m.take>> \o m.list] EXCEPT !.taking = FALSE, !.take = NoSnap]
    BY <1>1, <1>5 DEF TakeAnswered, Taken
  <2>2. PICK t, l, r : t = m.take /\ l = m.list /\ r = <<t>> \o l
    OBVIOUS
  <2>3. /\ n.server = m.server /\ n.used = m.used /\ n.list = r /\ n \in SnapState(r)
        /\ ~n.taking /\ n.delete = m.delete /\ n.restore = m.restore
        /\ n.reload = m.reload /\ n.take = NoSnap /\ n.load = m.load /\ n.calm = m.calm
    BY <1>1, <2>1, <2>2 DEF SnapState
  <2>4. ASSUME n.calm PROVE SnapTrue(n)
    <3>1. m.load = "done" /\ SnapFollows(m) /\ SnapTrue(m) /\ t \in Snap /\ t # NoSnap
      BY <1>1, <1>2, <2>1, <2>2, <2>3, <2>4 DEF SnapTrue, SnapUnasked, SnapState
    <3>2. l \in Seq(Snap) /\ IsInjective(l) /\ t \notin Range(l)
      BY <2>2, <3>1 DEF SnapFollows
    <3>3. /\ r \in Seq(Snap) /\ IsInjective(r)
          /\ \A x : x \in Range(r) <=> x \in Range(l) \/ x = t
          /\ 1 \in DOMAIN r /\ r[1] = t
          /\ \A i \in DOMAIN l : i \in Nat /\ i > 0 /\ i + 1 \in DOMAIN r /\ r[i + 1] = l[i]
      <4>1. t \in Snap /\ r = Pushed(t, l)
        BY <2>2, <3>1 DEF Pushed
      <4>2. InFront(r, t, l)
        BY <3>2, <4>1, PushedKeeps
      <4>3. QED
        BY <4>2 DEF InFront
    <3>4. \A x \in Snap : x \in Range(m.server) <=>
              (x \in Range(l) \/ x = t) /\ m.delete[x] # "run"
      BY <2>2, <3>1 DEF SnapFollows
    <3>5. t \in m.used
      <4>1. PICK x : x = m.delete[t]
        OBVIOUS
      <4>2. x # "no" => t # t
        BY <2>2, <3>1, <4>1 DEF SnapFollows
      <4>3. t \in Range(m.server)
        BY <3>1, <3>4, <4>1, <4>2
      <4>4. QED
        BY <1>2, <4>3
    <3>6. ASSUME NEW i \in DOMAIN m.server, NEW j \in DOMAIN m.server, i < j
          PROVE  \E k, o \in DOMAIN r : k < o /\ m.server[i] = r[k] /\ m.server[j] = r[o]
      <4>1. CASE m.server[i] = t
        <5>1. m.server[j] # t /\ m.server[j] \in Range(m.server) /\ m.server[j] \in Snap
          <6>1. i # j /\ m.server \in Seq(Snap)
            <7>1. i \in 1..Len(m.server) /\ Len(m.server) \in Nat /\ m.server \in Seq(Snap)
              BY <1>1 DEF SnapState
            <7>2. QED
              BY <3>6, <7>1
          <6>2. QED
            BY <1>2, <4>1, <6>1 DEF IsInjective, Range
        <5>2. m.server[j] \in Range(l)
          BY <3>4, <5>1
        <5>3. PICK o \in DOMAIN l : m.server[j] = l[o]
          BY <5>2 DEF Range
        <5>4. o + 1 \in DOMAIN r /\ 1 < o + 1 /\ r[o + 1] = m.server[j]
          BY <3>3, <5>3
        <5>5. QED
          BY <3>3, <4>1, <5>4
      <4>2. CASE m.server[i] # t
        <5>1. PICK k, o \in DOMAIN l : k < o /\ m.server[i] = l[k] /\ m.server[j] = l[o]
          BY <2>2, <3>1, <3>6, <4>2 DEF SnapFollows
        <5>2. k + 1 < o + 1
          BY <3>3, <5>1
        <5>3. QED
          BY <3>3, <5>1, <5>2
      <4>3. QED
        BY <4>1, <4>2
    <3>7. SnapFollows(n)
      <4>1. NoSnap \notin Range(r) /\ \A s \in Snap : s # NoSnap
        BY <3>3, ListTyped, OverviewAssumption
      <4>2. /\ \A x \in Range(r) : x \in m.used
            /\ \A s \in Snap : m.delete[s] # "no" => s \in m.used
        BY <2>2, <3>1, <3>3, <3>5 DEF SnapFollows
      <4>3. QED
        BY <2>3, <3>3, <3>4, <3>6, <4>1, <4>2 DEF SnapFollows
    <3>8. QED
      BY <2>3, <3>1, <3>7 DEF SnapTrue
  <2>5. QED
    BY <1>1, <1>2, <2>3, <2>4 DEF SnapInv, SnapGood, SnapShape
<1>6. CASE TakeFailed
  <2>1. n = [m EXCEPT !.taking = FALSE, !.take = NoSnap, !.calm = FALSE]
    BY <1>1, <1>6 DEF TakeFailed
  <2>2. n \in SnapState(list) /\ n.server = m.server /\ n.used = m.used /\ ~n.calm
    BY <1>1, <2>1 DEF SnapState
  <2>3. QED
    BY <1>1, <1>2, <2>2 DEF SnapInv, SnapGood, SnapShape
<1>7. QED
  BY <1>3, <1>4, <1>5, <1>6
(* Deleting a snapshot: the server drops it first, the page afterwards. *)
LEMMA SnapDeleteKeeps ==
    ASSUME SnapInv, NEW s \in Snap,
           \/ HandleSnapDelete(s) \/ RunSnapDelete(s)
           \/ SnapDeleteAnswered(s) \/ SnapDeleteFailed(s)
    PROVE  SnapInv'
<1>1. PICK m, n, list : m = snap /\ n = snap' /\ m \in SnapState(list)
  BY DEF SnapInv, SnapGood, SnapShape
<1>2. /\ IsInjective(m.server) /\ \A x \in Range(m.server) : x \in m.used
      /\ m.calm => SnapTrue(m)
  BY <1>1 DEF SnapInv, SnapGood, SnapShape
<1>3. CASE HandleSnapDelete(s)
  <2>1. /\ s \in Range(m.list) /\ m.delete[s] = "no"
        /\ n = [m EXCEPT !.deleting = s, !.delete[s] = "sent"]
    BY <1>1, <1>3 DEF HandleSnapDelete, RowFree
  <2>2. /\ n.server = m.server /\ n.used = m.used /\ n.list = m.list /\ n \in SnapState(list)
        /\ n.taking = m.taking /\ n.restore = m.restore /\ n.reload = m.reload
        /\ n.take = m.take /\ n.load = m.load /\ n.calm = m.calm
        /\ \A x \in Snap : n.delete[x] = IF x = s THEN "sent" ELSE m.delete[x]
    <3>1. PICK f : f = [m.delete EXCEPT ![s] = "sent"]
      OBVIOUS
    <3>2. m.delete \in [Snap -> {"no", "sent", "run", "refused"}]
      BY <1>1 DEF SnapState
    <3>3. /\ f \in [Snap -> {"no", "sent", "run", "refused"}]
         /\ \A x \in Snap : f[x] = IF x = s THEN "sent" ELSE m.delete[x]
      BY <3>1, <3>2
    <3>4. n = [m EXCEPT !.deleting = s, !.delete = f]
      BY <2>1, <3>1
    <3>5. n \in SnapState(list) /\ n.delete = f
      <4>1. PICK o : o = [m EXCEPT !.delete = f]
        OBVIOUS
      <4>2. o \in SnapState(list) /\ o.delete = f
        BY <1>1, <3>3, <4>1 DEF SnapState
      <4>3. n = [o EXCEPT !.deleting = s]
        BY <1>1, <3>4, <4>1 DEF SnapState
      <4>4. QED
        BY <4>2, <4>3 DEF SnapState
    <3>6. /\ n.server = m.server /\ n.used = m.used /\ n.list = m.list
          /\ n.taking = m.taking /\ n.restore = m.restore /\ n.reload = m.reload
          /\ n.take = m.take /\ n.load = m.load /\ n.calm = m.calm
      BY <1>1, <3>4 DEF SnapState
    <3>7. QED
      BY <3>3, <3>5, <3>6
  <2>3. ASSUME n.calm PROVE SnapTrue(n)
    <3>1. SnapTrue(m) /\ m.load = "done" /\ SnapFollows(m)
      BY <1>2, <2>1, <2>2, <2>3, ListTyped DEF SnapTrue, SnapUnasked
    <3>2. s \in m.used /\ s # m.take
      BY <2>1, <3>1 DEF SnapFollows
    <3>3. \A x \in Snap : n.delete[x] # "no" => x \in n.used /\ x # n.take
      BY <2>2, <3>1, <3>2 DEF SnapFollows
    <3>4. \A x \in Snap : n.delete[x] = "run" <=> m.delete[x] = "run"
      BY <2>1, <2>2
    <3>5. SnapFollows(n)
      BY <2>2, <3>1, <3>3, <3>4 DEF SnapFollows
    <3>6. QED
      BY <2>2, <3>1, <3>5 DEF SnapTrue
  <2>4. QED
    BY <1>1, <1>2, <2>2, <2>3 DEF SnapInv, SnapGood, SnapShape
<1>4. CASE RunSnapDelete(s)
  <2>1. PICK l, r, d : /\ l = m.server /\ r = Dropped(l, s)
                       /\ d = IF s \in Range(l) THEN "run" ELSE "refused"
    OBVIOUS
  <2>2. m.delete[s] = "sent" /\ n = [m EXCEPT !.server = r, !.delete[s] = d]
    BY <1>1, <1>4, <2>1 DEF RunSnapDelete
  <2>3. l \in Seq(Snap) /\ IsInjective(l)
    BY <1>1, <1>2, <2>1 DEF SnapState
  <2>4. /\ r \in Seq(Snap) /\ IsInjective(r)
        /\ \A x : x \in Range(r) <=> x \in Range(l) /\ x # s
        /\ InOrder(r, l)
    BY <2>1, <2>3, DroppedKeeps
  <2>5. /\ n.server = r /\ n.used = m.used /\ n.list = m.list /\ n \in SnapState(list)
        /\ n.taking = m.taking /\ n.restore = m.restore /\ n.reload = m.reload
        /\ n.take = m.take /\ n.load = m.load /\ n.calm = m.calm
        /\ \A x \in Snap : n.delete[x] = IF x = s THEN d ELSE m.delete[x]
    <3>1. PICK f : f = [m.delete EXCEPT ![s] = d]
      OBVIOUS
    <3>2. m.delete \in [Snap -> {"no", "sent", "run", "refused"}]
      BY <1>1 DEF SnapState
    <3>3. /\ f \in [Snap -> {"no", "sent", "run", "refused"}]
         /\ \A x \in Snap : f[x] = IF x = s THEN d ELSE m.delete[x]
      BY <2>1, <3>1, <3>2
    <3>4. n = [m EXCEPT !.server = r, !.delete = f]
      BY <2>2, <3>1
    <3>5. n \in SnapState(list) /\ n.delete = f
      <4>1. PICK o : o = [m EXCEPT !.delete = f]
        OBVIOUS
      <4>2. o \in SnapState(list) /\ o.delete = f
        BY <1>1, <3>3, <4>1 DEF SnapState
      <4>3. n = [o EXCEPT !.server = r]
        BY <1>1, <3>4, <4>1 DEF SnapState
      <4>4. QED
        BY <2>4, <4>2, <4>3 DEF SnapState
    <3>6. /\ n.server = r /\ n.used = m.used /\ n.list = m.list
          /\ n.taking = m.taking /\ n.restore = m.restore /\ n.reload = m.reload
          /\ n.take = m.take /\ n.load = m.load /\ n.calm = m.calm
      BY <1>1, <3>4 DEF SnapState
    <3>7. QED
      BY <3>3, <3>5, <3>6
  <2>6. ASSUME n.calm PROVE SnapTrue(n)
    <3>1. SnapTrue(m) /\ m.load = "done" /\ SnapFollows(m)
      BY <1>2, <2>2, <2>5, <2>6 DEF SnapTrue, SnapUnasked
    <3>2. \A x \in Snap : n.delete[x] # "no" => x \in n.used /\ x # n.take
      BY <2>2, <2>5, <3>1 DEF SnapFollows
    <3>3. \A x \in Snap : x \in Range(l) <=>
              (x \in Range(m.list) \/ x = m.take) /\ m.delete[x] # "run"
      BY <2>1, <3>1 DEF SnapFollows
    <3>4. \A x \in Snap : x \in Range(r) <=>
              (x \in Range(m.list) \/ x = m.take) /\ n.delete[x] # "run"
      <4>1. ASSUME NEW x \in Snap, x # s
            PROVE  x \in Range(r) <=>
                     (x \in Range(m.list) \/ x = m.take) /\ n.delete[x] # "run"
        BY <2>4, <2>5, <3>3, <4>1
      <4>2. s \notin Range(r)
        BY <2>4
      <4>3. CASE s \in Range(l)
        BY <2>1, <2>5, <4>1, <4>2, <4>3
      <4>4. CASE s \notin Range(l)
        <5>1. s \notin Range(m.list) /\ s # m.take
          BY <2>2, <3>3, <4>4
        <5>2. QED
          BY <4>1, <4>2, <5>1
      <4>5. QED
        BY <4>3, <4>4
    <3>5. ASSUME NEW i \in DOMAIN r, NEW j \in DOMAIN r, i < j
          PROVE  \/ r[i] = m.take
                 \/ \E k, o \in DOMAIN m.list : k < o /\ r[i] = m.list[k] /\ r[j] = m.list[o]
      <4>1. PICK a, b \in DOMAIN l : a < b /\ r[i] = l[a] /\ r[j] = l[b]
        BY <2>4, <3>5 DEF InOrder
      <4>2. \/ l[a] = m.take
            \/ \E k, o \in DOMAIN m.list : k < o /\ l[a] = m.list[k] /\ l[b] = m.list[o]
        BY <2>1, <3>1, <4>1 DEF SnapFollows
      <4>3. QED
        BY <4>1, <4>2
    <3>6. /\ m.list \in Seq(Snap) /\ IsInjective(m.list) /\ m.take \notin Range(m.list)
          /\ \A x \in Range(m.list) : x \in m.used
      BY <3>1 DEF SnapFollows
    <3>7. SnapFollows(n)
      BY <2>5, <3>2, <3>4, <3>5, <3>6 DEF SnapFollows
    <3>8. QED
      BY <2>5, <3>1, <3>7 DEF SnapTrue
  <2>7. SnapShape(n)
    BY <1>2, <2>1, <2>4, <2>5 DEF SnapShape
  <2>8. QED
    BY <1>1, <2>6, <2>7 DEF SnapInv, SnapGood
<1>5. CASE SnapDeleteAnswered(s)
  <2>1. PICK l, r : l = m.list /\ r = Dropped(l, s)
    OBVIOUS
  <2>2. /\ m.delete[s] = "run"
        /\ n = [m EXCEPT !.delete[s] = "no", !.list = r, !.deleting = NoSnap]
    BY <1>1, <1>5, <2>1 DEF SnapDeleteAnswered
  <2>3. /\ n.server = m.server /\ n.used = m.used /\ n.list = r /\ n \in SnapState(r)
        /\ n.taking = m.taking /\ n.restore = m.restore /\ n.reload = m.reload
        /\ n.take = m.take /\ n.load = m.load /\ n.calm = m.calm
        /\ \A x \in Snap : n.delete[x] = IF x = s THEN "no" ELSE m.delete[x]
    <3>1. PICK f : f = [m.delete EXCEPT ![s] = "no"]
      OBVIOUS
    <3>2. m.delete \in [Snap -> {"no", "sent", "run", "refused"}]
      BY <1>1 DEF SnapState
    <3>3. /\ f \in [Snap -> {"no", "sent", "run", "refused"}]
         /\ \A x \in Snap : f[x] = IF x = s THEN "no" ELSE m.delete[x]
      BY <3>1, <3>2
    <3>4. n = [m EXCEPT !.delete = f, !.list = r, !.deleting = NoSnap]
      BY <2>2, <3>1
    <3>5. n \in SnapState(r) /\ n.delete = f
      <4>1. PICK o : o = [m EXCEPT !.delete = f]
        OBVIOUS
      <4>2. o \in SnapState(list) /\ o.delete = f
        BY <1>1, <3>3, <4>1 DEF SnapState
      <4>3. n = [o EXCEPT !.list = r, !.deleting = NoSnap]
        BY <1>1, <3>4, <4>1 DEF SnapState
      <4>4. QED
        BY <4>2, <4>3 DEF SnapState
    <3>6. /\ n.server = m.server /\ n.used = m.used /\ n.list = r
          /\ n.taking = m.taking /\ n.restore = m.restore /\ n.reload = m.reload
          /\ n.take = m.take /\ n.load = m.load /\ n.calm = m.calm
      BY <1>1, <3>4 DEF SnapState
    <3>7. QED
      BY <3>3, <3>5, <3>6
  <2>4. ASSUME n.calm PROVE SnapTrue(n)
    <3>1. SnapTrue(m) /\ m.load = "done" /\ SnapFollows(m)
      BY <1>2, <2>2, <2>3, <2>4 DEF SnapTrue, SnapUnasked
    <3>2. l \in Seq(Snap) /\ IsInjective(l)
      BY <2>1, <3>1 DEF SnapFollows
    <3>3. /\ r \in Seq(Snap) /\ IsInjective(r)
          /\ \A x : x \in Range(r) <=> x \in Range(l) /\ x # s
          /\ \A k, o \in DOMAIN l : k < o /\ l[k] # s /\ l[o] # s =>
               \E i, j \in DOMAIN r : i < j /\ r[i] = l[k] /\ r[j] = l[o]
      BY <2>1, <3>2, DroppedKeeps
    <3>4. /\ m.take \notin Range(r) /\ \A x \in Range(r) : x \in m.used
          /\ \A x \in Snap : n.delete[x] # "no" => x \in m.used /\ x # m.take
      BY <2>1, <2>2, <2>3, <3>1, <3>3 DEF SnapFollows
    <3>5. \A x \in Snap : x \in Range(m.server) <=>
              (x \in Range(l) \/ x = m.take) /\ m.delete[x] # "run"
      BY <2>1, <3>1 DEF SnapFollows
    <3>6. s # m.take /\ s \notin Range(m.server)
      BY <2>2, <3>1, <3>5 DEF SnapFollows
    <3>7. \A x \in Snap : x \in Range(m.server) <=>
              (x \in Range(r) \/ x = m.take) /\ n.delete[x] # "run"
      BY <2>3, <3>3, <3>5, <3>6
    <3>8. ASSUME NEW i \in DOMAIN m.server, NEW j \in DOMAIN m.server, i < j
          PROVE  \/ m.server[i] = m.take
                 \/ \E k, o \in DOMAIN r : k < o /\ m.server[i] = r[k] /\ m.server[j] = r[o]
      <4>1. \/ m.server[i] = m.take
            \/ \E k, o \in DOMAIN l : k < o /\ m.server[i] = l[k] /\ m.server[j] = l[o]
        BY <2>1, <3>1, <3>8 DEF SnapFollows
      <4>2. m.server[i] # s /\ m.server[j] # s
        BY <3>6 DEF Range
      <4>3. QED
        BY <3>3, <4>1, <4>2
    <3>9. SnapFollows(n)
      BY <2>3, <3>3, <3>4, <3>7, <3>8 DEF SnapFollows
    <3>10. QED
      BY <2>3, <3>1, <3>9 DEF SnapTrue
  <2>5. QED
    BY <1>1, <1>2, <2>3, <2>4 DEF SnapInv, SnapGood, SnapShape
<1>6. CASE SnapDeleteFailed(s)
  <2>1. n = [m EXCEPT !.delete[s] = "no", !.deleting = NoSnap, !.calm = FALSE]
    BY <1>1, <1>6 DEF SnapDeleteFailed
  <2>2. n \in SnapState(list) /\ n.server = m.server /\ n.used = m.used /\ ~n.calm
    <3>1. PICK f : f = [m.delete EXCEPT ![s] = "no"]
      OBVIOUS
    <3>2. m.delete \in [Snap -> {"no", "sent", "run", "refused"}]
      BY <1>1 DEF SnapState
    <3>3. /\ f \in [Snap -> {"no", "sent", "run", "refused"}]
         /\ \A x \in Snap : f[x] = IF x = s THEN "no" ELSE m.delete[x]
      BY <3>1, <3>2
    <3>4. n = [m EXCEPT !.delete = f, !.deleting = NoSnap, !.calm = FALSE]
      BY <2>1, <3>1
    <3>5. QED
      BY <1>1, <2>1, <3>3, <3>4 DEF SnapState
  <2>3. QED
    BY <1>1, <1>2, <2>2 DEF SnapInv, SnapGood, SnapShape
<1>7. QED
  BY <1>3, <1>4, <1>5, <1>6

(* Restoring one ends the calm until the page is loaded anew. *)
LEMMA SnapRestoreKeeps ==
    ASSUME SnapInv, NEW s \in Snap,
           \/ HandleRestore(s) \/ RunRestore(s) \/ RestoreAnswered(s) \/ RestoreFailed(s)
    PROVE  SnapInv'
<1>1. PICK m, n, list : m = snap /\ n = snap' /\ m \in SnapState(list)
  BY DEF SnapInv, SnapGood, SnapShape
<1>2. /\ IsInjective(m.server) /\ \A x \in Range(m.server) : x \in m.used
      /\ m.calm => SnapTrue(m)
  BY <1>1 DEF SnapInv, SnapGood, SnapShape
<1>3. m.restore[s] # "no" => ~m.calm
  BY <1>2 DEF SnapTrue
<1>4. CASE HandleRestore(s)
  <2>1. n = [m EXCEPT !.restoring = s, !.restore[s] = "sent", !.calm = FALSE]
    BY <1>1, <1>4 DEF HandleRestore
  <2>2. n \in SnapState(list) /\ n.server = m.server /\ n.used = m.used /\ ~n.calm
    <3>1. PICK f : f = [m.restore EXCEPT ![s] = "sent"]
      OBVIOUS
    <3>2. m.restore \in [Snap -> {"no", "sent", "run"}]
      BY <1>1 DEF SnapState
    <3>3. /\ f \in [Snap -> {"no", "sent", "run"}]
         /\ \A x \in Snap : f[x] = IF x = s THEN "sent" ELSE m.restore[x]
      BY <3>1, <3>2
    <3>4. n = [m EXCEPT !.restoring = s, !.restore = f, !.calm = FALSE]
      BY <2>1, <3>1
    <3>5. QED
      BY <1>1, <2>1, <3>3, <3>4 DEF SnapState
  <2>3. QED
    BY <1>1, <1>2, <2>2 DEF SnapInv, SnapGood, SnapShape
<1>5. CASE RunRestore(s)
  <2>1. m.restore[s] = "sent" /\ ~m.calm
    BY <1>1, <1>3, <1>5 DEF RunRestore
  <2>2. CASE n = [m EXCEPT !.restore[s] = "run"]
    <3>1. n \in SnapState(list) /\ n.server = m.server /\ n.used = m.used /\ ~n.calm
      <4>1. PICK f : f = [m.restore EXCEPT ![s] = "run"]
        OBVIOUS
      <4>2. m.restore \in [Snap -> {"no", "sent", "run"}]
        BY <1>1 DEF SnapState
      <4>3. /\ f \in [Snap -> {"no", "sent", "run"}]
           /\ \A x \in Snap : f[x] = IF x = s THEN "run" ELSE m.restore[x]
        BY <4>1, <4>2
      <4>4. n = [m EXCEPT !.restore = f]
        BY <2>2, <4>1
      <4>5. QED
        BY <1>1, <2>1, <4>3, <4>4 DEF SnapState
    <3>2. QED
      BY <1>1, <1>2, <3>1 DEF SnapInv, SnapGood, SnapShape
  <2>3. CASE \E b \in Snap \ m.used :
               n = [m EXCEPT !.restore[s] = "run", !.server = <<b>> \o m.server,
                             !.used = m.used \cup {b}]
    <3>1. PICK b \in Snap \ m.used :
               n = [m EXCEPT !.restore[s] = "run", !.server = <<b>> \o m.server,
                             !.used = m.used \cup {b}]
      BY <2>3
    <3>2. PICK v, r, u : v = m.server /\ r = Pushed(b, v) /\ u = m.used \cup {b}
      OBVIOUS
    <3>3. v \in Seq(Snap) /\ IsInjective(v) /\ b \notin Range(v) /\ u \in SUBSET Snap
      <4>1. m.server \in Seq(Snap) /\ m.used \in SUBSET Snap
        BY <1>1 DEF SnapState
      <4>2. QED
        BY <1>2, <3>2, <4>1
    <3>4. InFront(r, b, v)
      BY <3>2, <3>3, PushedKeeps
    <3>5. r \in Seq(Snap) /\ IsInjective(r) /\ \A x \in Range(r) : x \in u
      BY <1>2, <3>2, <3>4 DEF InFront
    <3>6. n = [m EXCEPT !.restore[s] = "run", !.server = r, !.used = u]
      BY <3>1, <3>2 DEF Pushed
    <3>7. n \in SnapState(list) /\ n.server = r /\ n.used = u /\ ~n.calm
      <4>1. PICK f : f = [m.restore EXCEPT ![s] = "run"]
        OBVIOUS
      <4>2. m.restore \in [Snap -> {"no", "sent", "run"}]
        BY <1>1 DEF SnapState
      <4>3. /\ f \in [Snap -> {"no", "sent", "run"}]
           /\ \A x \in Snap : f[x] = IF x = s THEN "run" ELSE m.restore[x]
        BY <4>1, <4>2
      <4>4. n = [m EXCEPT !.restore = f, !.server = r, !.used = u]
        BY <3>6, <4>1
      <4>5. QED
        BY <1>1, <2>1, <3>3, <3>5, <4>3, <4>4 DEF SnapState
    <3>8. QED
      BY <1>1, <3>5, <3>7 DEF SnapInv, SnapGood, SnapShape
  <2>4. QED
    BY <1>1, <1>5, <2>2, <2>3 DEF RunRestore
<1>6. CASE RestoreAnswered(s)
  <2>1. ~m.calm /\ n = [m EXCEPT !.restore[s] = "no", !.reload = TRUE]
    BY <1>1, <1>3, <1>6 DEF RestoreAnswered
  <2>2. n \in SnapState(list) /\ n.server = m.server /\ n.used = m.used /\ ~n.calm
    <3>1. PICK f : f = [m.restore EXCEPT ![s] = "no"]
      OBVIOUS
    <3>2. m.restore \in [Snap -> {"no", "sent", "run"}]
      BY <1>1 DEF SnapState
    <3>3. /\ f \in [Snap -> {"no", "sent", "run"}]
         /\ \A x \in Snap : f[x] = IF x = s THEN "no" ELSE m.restore[x]
      BY <3>1, <3>2
    <3>4. n = [m EXCEPT !.restore = f, !.reload = TRUE]
      BY <2>1, <3>1
    <3>5. QED
      BY <1>1, <2>1, <3>3, <3>4 DEF SnapState
  <2>3. QED
    BY <1>1, <1>2, <2>2 DEF SnapInv, SnapGood, SnapShape
<1>7. CASE RestoreFailed(s)
  <2>1. ~m.calm /\ n = [m EXCEPT !.restore[s] = "no", !.restoring = NoSnap]
    BY <1>1, <1>3, <1>7 DEF RestoreFailed
  <2>2. n \in SnapState(list) /\ n.server = m.server /\ n.used = m.used /\ ~n.calm
    <3>1. PICK f : f = [m.restore EXCEPT ![s] = "no"]
      OBVIOUS
    <3>2. m.restore \in [Snap -> {"no", "sent", "run"}]
      BY <1>1 DEF SnapState
    <3>3. /\ f \in [Snap -> {"no", "sent", "run"}]
         /\ \A x \in Snap : f[x] = IF x = s THEN "no" ELSE m.restore[x]
      BY <3>1, <3>2
    <3>4. n = [m EXCEPT !.restore = f, !.restoring = NoSnap]
      BY <2>1, <3>1
    <3>5. QED
      BY <1>1, <2>1, <3>3, <3>4 DEF SnapState
  <2>3. QED
    BY <1>1, <1>2, <2>2 DEF SnapInv, SnapGood, SnapShape
<1>8. QED
  BY <1>4, <1>5, <1>6, <1>7

LEMMA SnapReloadKeeps == SnapInv /\ SnapReload => SnapInv'
<1> SUFFICES ASSUME SnapInv, SnapReload PROVE SnapInv'
  OBVIOUS
<1>1. PICK v, u : v = snap.server /\ u = snap.used
  OBVIOUS
<1>2. v \in Seq(Snap) /\ u \in SUBSET Snap /\ IsInjective(v) /\ \A x \in Range(v) : x \in u
  BY <1>1 DEF SnapInv, SnapGood, SnapShape, SnapState
<1>3. snap' = SnapAnew(v, u)
  BY <1>1 DEF SnapReload, SnapStart, SnapAnew
<1>4. SnapGood(SnapAnew(v, u))
  BY <1>2, SnapAnewGood
<1>5. QED
  BY <1>3, <1>4 DEF SnapInv

LEMMA SnapStepKeeps == SnapInv /\ [SnapNext]_snap => SnapInv'
<1> SUFFICES ASSUME SnapInv, [SnapNext]_snap PROVE SnapInv'
  OBVIOUS
<1>1. CASE UNCHANGED snap
  BY <1>1 DEF SnapInv
<1>2. CASE SnapRun \/ SnapAnswered \/ SnapFailed
  BY <1>2, SnapLoadKeeps
<1>3. CASE HandleTake \/ RunTake \/ TakeAnswered \/ TakeFailed
  BY <1>3, SnapTakeKeeps
<1>4. CASE SnapReload
  BY <1>4, SnapReloadKeeps
<1>5. ASSUME NEW s \in Snap,
             \/ HandleSnapDelete(s) \/ RunSnapDelete(s)
             \/ SnapDeleteAnswered(s) \/ SnapDeleteFailed(s)
      PROVE  SnapInv'
  BY <1>5, SnapDeleteKeeps
<1>6. ASSUME NEW s \in Snap,
             \/ HandleRestore(s) \/ RunRestore(s) \/ RestoreAnswered(s) \/ RestoreFailed(s)
      PROVE  SnapInv'
  BY <1>6, SnapRestoreKeeps
<1>7. QED
  BY <1>1, <1>2, <1>3, <1>4, <1>5, <1>6 DEF SnapNext
=============================================================================
