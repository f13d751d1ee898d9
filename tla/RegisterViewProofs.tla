------------------------ MODULE RegisterViewProofs -------------------------
(***************************************************************************)
(* Invariance proofs for RegisterView, for every register, page size and   *)
(* number of requests under way.                                           *)
(***************************************************************************)
EXTENDS RegisterView, FiniteSetTheorems, WellFoundedInduction, TLAPS

-----------------------------------------------------------------------------
(* The types of all fields. *)
Component ==
    [id : Account, account : Account \cup {NoAccount}, copies : [Split -> Nat],
     marks : [Split -> Mark], loading : BOOLEAN, more : BOOLEAN, hasBefore : BOOLEAN,
     hasAfter : BOOLEAN, first : Offset, last : Offset, cursor : Nat, searching : BOOLEAN,
     loaded : BOOLEAN, all : SUBSET Split, allMarks : [Split -> Mark],
     searchLoading : BOOLEAN, searchError : BOOLEAN, calm : BOOLEAN, ver : Nat, allVer : Nat]
Request ==
    [kind : {"free", "load", "more", "all", "toggle", "save"},
     acct : Account \cup {NoAccount},
     how : {"around", "before", "after", "n", "c", "remove", "insert"},
     cur : Nat, split : Split \cup {0}, done : BOOLEAN, page : PageType,
     marks : [Split -> Mark], ver : Nat]
Book == [splits : SUBSET Split, ver : Nat, marks : [Split -> Mark]]

(* What a request carries by its kind; the search asks for the account     *)
(* that is shown. *)
Meant(q) ==
    /\ q.kind = "toggle" => q.how \in Mark
    /\ q.kind \in Writes => q.split \in Split /\ q.acct \in Account
    /\ q.kind = "all" => q.acct \in Account /\ \A s \in q.page.splits : Home[s] = q.acct
-----------------------------------------------------------------------------
(* The server's pages. *)
LEMMA CountIsNat ==
    ASSUME NEW S \in SUBSET Split, NEW n
    PROVE  CountBefore(S, n) \in Nat /\ CountBefore(S, n) <= Cardinality(S)
<1>1. IsFiniteSet(S) /\ {r \in S : Place[r] < n} \in SUBSET S
  BY RegAssumption, FS_Subset
<1>2. QED
  BY <1>1, FS_Subset, FS_CardinalityType DEF CountBefore

LEMMA EmptyPage ==
    ASSUME NEW before \in BOOLEAN, NEW after \in BOOLEAN
    PROVE  /\ [NoPage EXCEPT !.before = before, !.after = after] \in PageType
           /\ [NoPage EXCEPT !.before = before, !.after = after].splits = {}
<1>1. CASE before = TRUE /\ after = TRUE
  BY <1>1 DEF NoPage, PageType
<1>2. CASE before = TRUE /\ after = FALSE
  BY <1>2 DEF NoPage, PageType
<1>3. CASE before = FALSE /\ after = TRUE
  BY <1>3 DEF NoPage, PageType
<1>4. CASE before = FALSE /\ after = FALSE
  BY <1>4 DEF NoPage, PageType
<1>5. QED
  BY <1>1, <1>2, <1>3, <1>4

LEMMA PageTyped ==
    ASSUME NEW S \in SUBSET Split, NEW off \in Nat, NEW lim \in Nat,
           NEW p \in PagesAt(S, off, lim)
    PROVE  p \in PageType /\ p.splits \subseteq S
<1>1. CASE lim <= 0
  <2> DEFINE before == off > 0
             after == off < Cardinality(S)
  <2>1. p = [NoPage EXCEPT !.before = before, !.after = after]
    BY <1>1 DEF PagesAt
  <2>2. before \in BOOLEAN /\ after \in BOOLEAN
    OBVIOUS
  <2> HIDE DEF before, after
  <2>3. QED
    BY <2>1, <2>2, EmptyPage
<1>2. CASE ~(lim <= 0)
  <2>1. PICK rows \in Stretches(S, off, lim) : p = PageOf(S, off, rows)
    BY <1>2 DEF PagesAt
  <2>2. rows \in SUBSET S /\ IsFiniteSet(S) /\ IsFiniteSet(rows)
    BY RegAssumption, FS_Subset DEF Stretches
  <2>3. /\ Cardinality(S) \in Nat /\ Cardinality(rows) \in Nat
        /\ rows # {} => Cardinality(rows) # 0
    BY <2>2, FS_CardinalityType, FS_EmptySet
  <2> DEFINE end == IF rows = {} THEN off ELSE off + Cardinality(rows) - 1
  <2>4. end \in Nat
    BY <2>3
  <2>5. p = [splits |-> rows, before |-> off > 0, after |-> end < Cardinality(S) - 1,
             first |-> off, last |-> end]
    BY <2>1 DEF PageOf
  <2>6. (off > 0) \in BOOLEAN /\ (end < Cardinality(S) - 1) \in BOOLEAN
    BY <2>3, <2>4
  <2> HIDE DEF end
  <2>7. QED
    BY <2>2, <2>4, <2>5, <2>6 DEF PageType
<1>3. QED
  BY <1>1, <1>2

LEMMA NoPageTyped == NoPage \in PageType /\ NoPage.splits = {}
BY DEF NoPage, PageType

LEMMA ServeTyped ==
    ASSUME NEW q \in Request, NEW b \in Book, NEW page \in Serve(b, q)
    PROVE  /\ page \in PageType
           /\ q.kind = "all" => \A s \in page.splits : Home[s] = q.acct
           /\ Seen(page, b) \in [Split -> Mark]
<1> DEFINE S == Register(b, q.acct)
<1>1. S \in SUBSET Split /\ \A s \in S : Home[s] = q.acct
  BY DEF Register, Book
<1>2. q.cur \in Nat /\ PageSize \in Nat
  BY RegAssumption DEF Request
<1> HIDE DEF S
<1>3. Around(S, q.cur) \subseteq PageType
  <2>1. CountBefore(S, q.cur) - (PageSize * 3) \div 4 \in Int
    <3>1. CountBefore(S, q.cur) \in Nat
      BY <1>1, CountIsNat
    <3>2. (PageSize * 3) \div 4 \in Nat
      BY <1>2
    <3>3. QED
      BY <3>1, <3>2
  <2>2. NonNeg(CountBefore(S, q.cur) - (PageSize * 3) \div 4) \in Nat
    BY <2>1 DEF NonNeg
  <2>3. QED
    BY <1>1, <1>2, <2>2, PageTyped DEF Around
<1>4. Before(S, q.cur) \subseteq PageType
  <2>1. CASE q.cur < PageSize
    BY <1>1, <1>2, <2>1, PageTyped DEF Before
  <2>2. CASE ~(q.cur < PageSize)
    <3>1. q.cur - PageSize \in Nat
      BY <1>2, <2>2
    <3>2. QED
      BY <1>1, <1>2, <2>2, <3>1, PageTyped DEF Before
  <2>3. QED
    BY <2>1, <2>2
<1>5. After(S, q.cur) \subseteq PageType
  <2>1. q.cur + 1 \in Nat
    BY <1>2
  <2>2. QED
    BY <1>1, <1>2, <2>1, PageTyped DEF After
<1>6. [NoPage EXCEPT !.splits = S] \in PageType
      /\ [NoPage EXCEPT !.splits = S].splits = S
  BY <1>1 DEF NoPage, PageType
<1>7. page \in PageType
  BY <1>3, <1>4, <1>5, <1>6, NoPageTyped DEF Serve, S
<1>8. q.kind = "all" => page.splits = S
  BY <1>6 DEF Serve, S
<1>9. Seen(page, b) \in [Split -> Mark]
  BY DEF Seen, Mark, Book
<1>10. QED
  BY <1>1, <1>7, <1>8, <1>9

(* What a request is when the server has run it. *)
LEMMA RunServes ==
    ASSUME NEW i, Run(i)
    PROVE  \E page \in Serve(regBook, regNet[i]) :
               regNet' = [regNet EXCEPT ![i] = Served(regNet[i], page, regBook)]
BY DEF Run

-----------------------------------------------------------------------------
(* Requests: those that are built are well formed, and the set of slots    *)
(* stays well formed when one is taken or given up. *)
Sound(net) == net \in [Slot -> Request] /\ \A i \in Slot : Meant(net[i])

LEMMA NoMarksTyped == NoMarks \in [Split -> Mark] /\ NoRows \in [Split -> Nat]
BY DEF NoMarks, NoRows, Mark

LEMMA FreeSound == Free \in Request /\ Meant(Free)
BY NoMarksTyped, NoPageTyped DEF Free, Request, Meant, Writes

LEMMA LoadReqSound ==
    ASSUME NEW a \in Account, NEW date \in Nat
    PROVE  LoadReq(a, date) \in Request /\ Meant(LoadReq(a, date))
BY FreeSound DEF LoadReq, Free, Request, Meant, Writes

LEMMA MoreReqSound ==
    ASSUME NEW a \in Account, NEW d \in {"before", "after"}, NEW cur \in Nat
    PROVE  MoreReq(a, d, cur) \in Request /\ Meant(MoreReq(a, d, cur))
BY FreeSound DEF MoreReq, Free, Request, Meant, Writes

LEMMA AllReqSound ==
    ASSUME NEW a \in Account
    PROVE  AllReq(a) \in Request /\ Meant(AllReq(a)) /\ AllReq(a).acct = a
BY FreeSound, NoPageTyped DEF AllReq, Free, Request, Meant, Writes

LEMMA WriteReqSound ==
    ASSUME NEW a \in Account, NEW s \in Split, NEW kind \in Writes,
           NEW how \in {"n", "c", "remove", "insert"},
           kind = "toggle" => how \in Mark
    PROVE  WriteReq(kind, a, s, how) \in Request /\ Meant(WriteReq(kind, a, s, how))
           /\ WriteReq(kind, a, s, how).kind # "all"
BY FreeSound DEF WriteReq, Free, Request, Meant, Writes

LEMMA SendSound ==
    ASSUME NEW net, Sound(net), NEW r \in Request, Meant(r)
    PROVE  /\ Sound(Send(net, r))
           /\ \A i \in Slot : Send(net, r)[i] \in {net[i], r}
BY DEF Send, Sound

LEMMA CancelledSound ==
    ASSUME NEW net, Sound(net)
    PROVE  /\ Sound(Cancelled(net))
           /\ \A i \in Slot : Cancelled(net)[i].kind # "all"
BY FreeSound DEF Cancelled, Sound, Free

LEMMA SettledSound ==
    ASSUME Sound(regNet), NEW i \in Slot
    PROVE  Sound(Settled(i)) /\ \A j \in Slot : Settled(i)[j] \in {regNet[j], Free}
BY FreeSound DEF Settled, Sound

-----------------------------------------------------------------------------
(* The inductive invariant: the types; no row twice; the fetches of the    *)
(* search under way ask for the account that is shown, and the search      *)
(* cache is of that account. *)
Own(r, net) ==
    /\ r \in Component /\ Sound(net)
    /\ \A i \in Slot : net[i].kind = "all" => net[i].acct = r.id
    /\ \A s \in Split : r.copies[s] <= 1
    /\ \A s \in r.all : Home[s] = r.id
RegInv == Own(reg, regNet) /\ regBook \in Book

LEMMA StartOwn ==
    ASSUME NEW a \in Account, NEW d \in Dates
    PROVE  Own(RegStart(a, d), RegNetStart(a, d)) /\ RegBooks \in Book
<1>1. d \in Nat
  BY RegAssumption
<1>2. RegStart(a, d) \in Component
  BY <1>1, NoMarksTyped DEF RegStart, Component, Offset, Unset
<1>3. RegBooks \in Book
  BY DEF RegBooks, Book, Mark
<1> DEFINE none == [i \in Slot |-> Free]
<1>4. Sound(none) /\ \A i \in Slot : none[i].kind # "all"
  BY FreeSound DEF Sound, Free
<1>5. LoadReq(a, d) \in Request /\ Meant(LoadReq(a, d)) /\ LoadReq(a, d).kind # "all"
  BY <1>1, LoadReqSound DEF LoadReq, Free
<1> HIDE DEF none
<1>6. Sound(Send(none, LoadReq(a, d)))
      /\ \A i \in Slot : Send(none, LoadReq(a, d))[i].kind # "all"
  BY <1>4, <1>5, SendSound
<1>7. RegNetStart(a, d) = Send(none, LoadReq(a, d))
  BY DEF RegNetStart, none
<1>8. RegStart(a, d).all = {} /\ \A s \in Split : RegStart(a, d).copies[s] = 0
  BY DEF RegStart, NoRows
<1>9. QED
  BY <1>2, <1>3, <1>6, <1>7, <1>8 DEF Own

LEMMA InitKeeps == RegInit => RegInv
BY StartOwn DEF RegInit, RegInv

-----------------------------------------------------------------------------
(* The component: an update of fields by values of their types. *)
LEMMA LoadingKeeps ==
    ASSUME NEW r \in Component, NEW net, NEW date \in Nat
    PROVE  /\ Loading(r, net, date) \in Component
           /\ Loading(r, net, date).id = r.id
           /\ Loading(r, net, date).copies = r.copies
           /\ Loading(r, net, date).all = r.all
BY DEF Loading, Component

LEMMA SearchEffectKeeps ==
    ASSUME NEW r, NEW net, Own(r, net), SearchEffect(r, net)
    PROVE  Own(reg', regNet')
<1>1. Sound(Cancelled(net)) /\ \A i \in Slot : Cancelled(net)[i].kind # "all"
  BY CancelledSound DEF Own
<1>2. CASE r.searching /\ ~r.loaded
  <2> DEFINE c == r.calm /\ ~Busy(net, Writes)
  <2>1. reg' = [r EXCEPT !.searchLoading = TRUE, !.searchError = FALSE, !.calm = c]
    BY <1>2 DEF SearchEffect
  <2>2. regNet' = Send(Cancelled(net), AllReq(r.id))
    BY <1>2 DEF SearchEffect
  <2>3. c \in BOOLEAN
    OBVIOUS
  <2> HIDE DEF c
  <2>4. r \in Component
    BY DEF Own
  <2>5. /\ reg' \in Component
        /\ reg'.id = r.id /\ reg'.copies = r.copies /\ reg'.all = r.all
    BY <2>1, <2>3, <2>4 DEF Component
  <2>6. r.id \in Account
    BY <2>4 DEF Component
  <2>7. AllReq(r.id) \in Request /\ Meant(AllReq(r.id)) /\ AllReq(r.id).acct = r.id
    BY <2>6, AllReqSound
  <2>8. /\ Sound(regNet')
        /\ \A i \in Slot : regNet'[i] \in {Cancelled(net)[i], AllReq(r.id)}
    BY <1>1, <2>2, <2>7, SendSound
  <2>9. QED
    BY <1>1, <2>5, <2>7, <2>8 DEF Own
<1>3. CASE ~(r.searching /\ ~r.loaded)
  BY <1>1, <1>3 DEF SearchEffect, Own
<1>4. QED
  BY <1>2, <1>3

-----------------------------------------------------------------------------
(* The user's steps. *)
LEMMA GoToKeeps ==
    ASSUME RegInv, NEW a \in Account, NEW d \in Dates, GoTo(a, d)
    PROVE  RegInv'
<1>1. d \in Nat /\ reg \in Component /\ Sound(regNet) /\ regBook \in Book
  BY RegAssumption DEF RegInv, Own
<1> DEFINE l == Loading(reg, regNet, d)
           e == l.searchLoading \/ (reg.searching /\ ~reg.loaded)
<1>2. l \in Component /\ l.copies = reg.copies
  BY <1>1, LoadingKeeps
<1>3. reg' = [l EXCEPT !.id = a, !.searching = FALSE, !.loaded = FALSE,
                !.all = {}, !.allMarks = NoMarks, !.searchError = FALSE,
                !.searchLoading = e]
  BY DEF GoTo
<1>4. e \in BOOLEAN
  OBVIOUS
<1> HIDE DEF l, e
<1>5. reg' \in Component /\ reg'.copies = reg.copies /\ reg'.all = {}
  BY <1>2, <1>3, <1>4, NoMarksTyped DEF Component
<1>6. Sound(Cancelled(regNet)) /\ \A i \in Slot : Cancelled(regNet)[i].kind # "all"
  BY <1>1, CancelledSound
<1>7. LoadReq(a, d) \in Request /\ Meant(LoadReq(a, d)) /\ LoadReq(a, d).kind # "all"
  BY <1>1, LoadReqSound DEF LoadReq, Free
<1>8. regNet' = Send(Cancelled(regNet), LoadReq(a, d))
  BY DEF GoTo
<1>9. Sound(regNet') /\ \A i \in Slot : regNet'[i].kind # "all"
  BY <1>6, <1>7, <1>8, SendSound
<1>10. QED
  BY <1>1, <1>5, <1>9 DEF RegInv, Own, GoTo

LEMMA SearchKeeps == ASSUME RegInv, Search PROVE RegInv'
<1>1. PICK clear \in BOOLEAN :
        SearchEffect([reg EXCEPT !.searching = ~@, !.searchError = @ /\ ~clear], regNet)
  BY DEF Search
<1> DEFINE r == [reg EXCEPT !.searching = ~@, !.searchError = @ /\ ~clear]
           s == ~reg.searching
           e == reg.searchError /\ ~clear
<1>2. r = [reg EXCEPT !.searching = s, !.searchError = e]
  BY DEF RegInv, Own, Component
<1>3. s \in BOOLEAN /\ e \in BOOLEAN
  OBVIOUS
<1> HIDE DEF s, e
<1>4. r \in Component /\ r.id = reg.id /\ r.copies = reg.copies /\ r.all = reg.all
  BY <1>2, <1>3 DEF RegInv, Own, Component
<1> HIDE DEF r
<1>5. Own(r, regNet)
  BY <1>4 DEF RegInv, Own
<1>6. SearchEffect(r, regNet)
  BY <1>1 DEF r
<1>7. QED
  BY <1>5, <1>6, SearchEffectKeeps DEF RegInv, Search

(* A step that only touches flags of the component keeps it. *)
Alike(r) == r \in Component /\ r.id = reg.id /\ r.copies = reg.copies /\ r.all = reg.all

LEMMA CalmKeeps ==
    ASSUME RegInv, NEW c \in BOOLEAN
    PROVE  Alike([reg EXCEPT !.calm = c])
BY DEF RegInv, Own, Component, Alike

LEMMA SendKeeps ==
    ASSUME RegInv, NEW r, Alike(r), NEW net, Sound(net),
           \A i \in Slot : net[i] = regNet[i] \/ net[i].kind # "all",
           reg' = r, regNet' = net, regBook' \in Book
    PROVE  RegInv'
BY DEF RegInv, Own, Alike

LEMMA LoadMoreKeeps ==
    ASSUME RegInv, NEW dirs \in SUBSET {"before", "after"} \ {{}}, LoadMore(dirs)
    PROVE  RegInv'
<1> DEFINE c == reg.calm /\ ~Busy(regNet, {"load"} \cup Writes)
<1>1. reg' = [reg EXCEPT !.more = TRUE, !.calm = c]
  BY DEF LoadMore
<1>2. c \in BOOLEAN
  OBVIOUS
<1> HIDE DEF c
<1>3. Alike(reg')
  BY <1>1, <1>2 DEF RegInv, Own, Component, Alike
<1>4. \A d \in dirs : MoreNow(d) \in Request /\ Meant(MoreNow(d)) /\ MoreNow(d).kind # "all"
  <2> SUFFICES ASSUME NEW d \in dirs
               PROVE  MoreNow(d) \in Request /\ Meant(MoreNow(d)) /\ MoreNow(d).kind # "all"
    OBVIOUS
  <2> DEFINE cur == IF d = "before" THEN reg.first ELSE reg.last
  <2>1. Wanted(d) /\ d \in {"before", "after"}
    BY DEF LoadMore
  <2>2. cur \in Nat /\ reg.id \in Account
    BY <2>1 DEF Wanted, RegInv, Own, Component, Offset
  <2>3. MoreNow(d) = MoreReq(reg.id, d, cur)
    BY DEF MoreNow
  <2> HIDE DEF cur
  <2>4. MoreReq(reg.id, d, cur) \in Request /\ Meant(MoreReq(reg.id, d, cur))
    BY <2>1, <2>2, MoreReqSound
  <2>5. MoreReq(reg.id, d, cur).kind # "all"
    BY DEF MoreReq, Free
  <2>6. QED
    BY <2>3, <2>4, <2>5
<1>5. Sound(regNet)
  BY DEF RegInv, Own
<1>6. CASE dirs = {"before", "after"}
  <2>1. regNet' = Send(Send(regNet, MoreNow("before")), MoreNow("after"))
    BY <1>6 DEF LoadMore
  <2> DEFINE half == Send(regNet, MoreNow("before"))
  <2>2. Sound(half) /\ \A i \in Slot : half[i] \in {regNet[i], MoreNow("before")}
    BY <1>4, <1>5, <1>6, SendSound
  <2> HIDE DEF half
  <2>3. /\ Sound(Send(half, MoreNow("after")))
        /\ \A i \in Slot : Send(half, MoreNow("after"))[i] \in {half[i], MoreNow("after")}
    BY <1>4, <1>6, <2>2, SendSound
  <2>4. regNet' = Send(half, MoreNow("after"))
    BY <2>1 DEF half
  <2>5. \A i \in Slot : regNet'[i] = regNet[i] \/ regNet'[i].kind # "all"
    BY <1>4, <1>6, <2>2, <2>3, <2>4
  <2>6. QED
    BY <1>3, <2>3, <2>4, <2>5, SendKeeps DEF LoadMore, RegInv
<1>7. CASE dirs # {"before", "after"}
  <2>1. PICK d \in dirs : regNet' = Send(regNet, MoreNow(d))
    BY <1>7 DEF LoadMore
  <2>2. /\ Sound(Send(regNet, MoreNow(d)))
        /\ \A i \in Slot : Send(regNet, MoreNow(d))[i] \in {regNet[i], MoreNow(d)}
    BY <1>4, <1>5, SendSound
  <2>3. \A i \in Slot : regNet'[i] = regNet[i] \/ regNet'[i].kind # "all"
    BY <1>4, <2>1, <2>2
  <2>4. QED
    BY <1>3, <2>1, <2>2, <2>3, SendKeeps DEF LoadMore, RegInv
<1>8. QED
  BY <1>6, <1>7

LEMMA WriteKeeps ==
    ASSUME RegInv, NEW s \in Split, NEW kind \in Writes,
           NEW how \in {"n", "c", "remove", "insert"},
           kind = "toggle" => how \in Mark,
           regNet' = Send(regNet, WriteReq(kind, reg.id, s, how)),
           reg' = [reg EXCEPT !.calm = @ /\ FreeSlots(regNet) = Slot],
           UNCHANGED regBook
    PROVE  RegInv'
<1> DEFINE c == reg.calm /\ FreeSlots(regNet) = Slot
           q == WriteReq(kind, reg.id, s, how)
<1>1. c \in BOOLEAN /\ reg' = [reg EXCEPT !.calm = c]
  OBVIOUS
<1>2. q \in Request /\ Meant(q) /\ q.kind # "all"
  <2>1. reg.id \in Account
    BY DEF RegInv, Own, Component
  <2>2. QED
    BY <2>1, WriteReqSound
<1> HIDE DEF c, q
<1>3. Alike(reg')
  BY <1>1, CalmKeeps
<1>4. regNet' = Send(regNet, q) /\ Sound(regNet)
  BY DEF q, RegInv, Own
<1>5. Sound(regNet') /\ \A i \in Slot : regNet'[i] \in {regNet[i], q}
  BY <1>2, <1>4, SendSound
<1>6. QED
  BY <1>2, <1>3, <1>5, SendKeeps DEF RegInv

LEMMA ToggleClickKeeps ==
    ASSUME RegInv, NEW s \in Touched, ToggleClick(s)
    PROVE  RegInv'
<1>1. s \in Split /\ Toggled(ShownMark(s)) \in {"n", "c"}
  BY RegAssumption DEF Toggled
<1>2. QED
  BY <1>1, WriteKeeps DEF ToggleClick, Writes, Mark

LEMMA SaveKeeps ==
    ASSUME RegInv, NEW s \in Touched, NEW how \in {"remove", "insert"}, Save(s, how)
    PROVE  RegInv'
<1>1. s \in Split
  BY RegAssumption
<1>2. QED
  BY <1>1, WriteKeeps DEF Save, Writes

-----------------------------------------------------------------------------
(* The server's steps. *)
LEMMA ChangedTyped ==
    ASSUME NEW b \in Book, NEW s \in Split, NEW how
    PROVE  Changed(b, s, how) \in Book
<1> DEFINE S == IF how = "remove" THEN b.splits \ {s} ELSE b.splits \cup {s}
           v == b.ver + 1
<1>1. S \in SUBSET Split /\ v \in Nat
  BY DEF Book
<1>2. Changed(b, s, how) = [b EXCEPT !.ver = v, !.splits = S]
  BY DEF Changed
<1> HIDE DEF S, v
<1>3. QED
  BY <1>1, <1>2 DEF Book

LEMMA RunKeeps == ASSUME RegInv, NEW i \in Slot, Run(i) PROVE RegInv'
<1> DEFINE q == regNet[i]
<1>0. PICK page \in Serve(regBook, q) :
        regNet' = [regNet EXCEPT ![i] = Served(q, page, regBook)]
  BY RunServes
<1> DEFINE marks == Seen(page, regBook)
           ver == IF q.kind \in Writes THEN 0 ELSE regBook.ver
           served == [q EXCEPT !.done = TRUE, !.page = page, !.marks = marks, !.ver = ver]
<1>1. /\ reg \in Component /\ Sound(regNet) /\ regBook \in Book
      /\ q \in Request /\ Meant(q)
  BY DEF RegInv, Own, Sound
<1>2. /\ page \in PageType /\ marks \in [Split -> Mark] /\ ver \in Nat
      /\ q.kind = "all" => \A s \in page.splits : Home[s] = q.acct
  BY <1>1, ServeTyped DEF Book
<1>3. regNet' = [regNet EXCEPT ![i] = served]
  BY <1>0 DEF Served
<1> HIDE DEF marks, ver
<1>4. served \in Request /\ Meant(served) /\ served.kind = q.kind /\ served.acct = q.acct
  BY <1>1, <1>2 DEF Request, Meant
<1>5. Sound(regNet')
  BY <1>1, <1>3, <1>4 DEF Sound
<1>6. \A j \in Slot : regNet'[j].kind = regNet[j].kind /\ regNet'[j].acct = regNet[j].acct
  BY <1>1, <1>3, <1>4 DEF Sound
<1>7. regBook' \in Book
  <2>1. CASE q.kind = "toggle"
    <3>1. regBook' = [regBook EXCEPT !.marks[q.split] = q.how]
      BY <2>1 DEF Run
    <3>2. q.split \in Split /\ q.how \in Mark
      BY <1>1, <2>1 DEF Meant, Writes
    <3>3. QED
      BY <1>1, <3>1, <3>2 DEF Book
  <2>2. CASE q.kind = "save" /\ regBook.ver < MaxChange
    <3>1. regBook' = Changed(regBook, q.split, q.how)
      BY <2>2 DEF Run
    <3>2. q.split \in Split
      BY <1>1, <2>2 DEF Meant, Writes
    <3>3. QED
      BY <1>1, <3>1, <3>2, ChangedTyped
  <2>3. CASE q.kind # "toggle" /\ ~(q.kind = "save" /\ regBook.ver < MaxChange)
    BY <1>1, <2>3 DEF Run
  <2>4. QED
    BY <2>1, <2>2, <2>3
<1>8. reg' = reg
  BY DEF Run
<1>9. QED
  BY <1>5, <1>6, <1>7, <1>8 DEF RegInv, Own

LEMMA ElsewhereKeeps ==
    ASSUME RegInv, NEW s \in Touched, NEW how \in {"remove", "insert"},
           ChangedElsewhere(s, how)
    PROVE  RegInv'
<1>1. s \in Split /\ regBook' = Changed(regBook, s, how) /\ reg' = reg /\ regNet' = regNet
  BY RegAssumption DEF ChangedElsewhere
<1>2. QED
  BY <1>1, ChangedTyped DEF RegInv

-----------------------------------------------------------------------------
(* The answers. *)
LEMMA SettledKeeps ==
    ASSUME RegInv, NEW i \in Slot
    PROVE  /\ Sound(Settled(i))
           /\ \A j \in Slot : Settled(i)[j] = regNet[j] \/ Settled(i)[j].kind # "all"
           /\ regNet[i] \in Request /\ Meant(regNet[i])
           /\ reg \in Component /\ regBook \in Book
<1>1. Sound(regNet) /\ reg \in Component /\ regBook \in Book
  BY DEF RegInv, Own
<1>2. Free.kind # "all"
  BY DEF Free
<1>3. QED
  BY <1>1, <1>2, SettledSound DEF Sound

LEMMA LoadAnsweredKeeps ==
    ASSUME RegInv, NEW i \in Slot, LoadAnswered(i)
    PROVE  RegInv'
<1> DEFINE q == regNet[i]
           copies == [s \in Split |-> IF s \in q.page.splits THEN 1 ELSE 0]
<1>1. q \in Request /\ reg \in Component /\ regBook' \in Book
  BY SettledKeeps DEF LoadAnswered
<1>2. q.page \in PageType /\ q.marks \in [Split -> Mark] /\ q.ver \in Nat
      /\ q.acct \in Account \cup {NoAccount}
  BY <1>1 DEF Request
<1>3. reg' = [reg EXCEPT !.account = q.acct, !.loading = FALSE, !.copies = copies,
                !.marks = q.marks, !.hasBefore = q.page.before, !.hasAfter = q.page.after,
                !.first = q.page.first, !.last = q.page.last, !.ver = q.ver]
  BY DEF LoadAnswered
<1>4. copies \in [Split -> Nat] /\ \A s \in Split : copies[s] <= 1
  OBVIOUS
<1> HIDE DEF q, copies
<1>5. /\ q.page.before \in BOOLEAN /\ q.page.after \in BOOLEAN
      /\ q.page.first \in Offset /\ q.page.last \in Offset
  BY <1>2 DEF PageType, Offset
<1>6. reg' \in Component /\ reg'.id = reg.id /\ reg'.all = reg.all /\ reg'.copies = copies
  BY <1>1, <1>2, <1>3, <1>4, <1>5 DEF Component
<1>7. regNet' = Settled(i)
  BY DEF LoadAnswered
<1>8. QED
  BY <1>1, <1>4, <1>6, <1>7, SettledKeeps DEF RegInv, Own

LEMMA MoreAnsweredKeeps ==
    ASSUME RegInv, NEW i \in Slot, MoreAnswered(i)
    PROVE  RegInv'
<1> DEFINE q == regNet[i]
           p == q.page
           copies == [s \in Split |-> reg.copies[s] + (IF s \in NewRows(p) THEN 1 ELSE 0)]
           marks == [s \in Split |-> IF s \in NewRows(p) THEN q.marks[s] ELSE reg.marks[s]]
           shown == [reg EXCEPT !.copies = copies, !.marks = marks, !.more = FALSE]
<1>1. q \in Request /\ reg \in Component /\ regBook' \in Book /\ regNet' = Settled(i)
  BY SettledKeeps DEF MoreAnswered
<1>2. p \in PageType /\ q.marks \in [Split -> Mark]
  BY <1>1 DEF Request
<1>3. copies \in [Split -> Nat] /\ \A s \in Split : copies[s] <= 1
  <2>1. reg.copies \in [Split -> Nat] /\ \A s \in Split : reg.copies[s] <= 1
    BY DEF RegInv, Own, Component
  <2>2. \A s \in NewRows(p) : reg.copies[s] = 0
    BY DEF NewRows
  <2>3. QED
    BY <2>1, <2>2
<1>4. marks \in [Split -> Mark]
  BY <1>1, <1>2 DEF Component
<1>5. reg' = CASE p.splits = {} /\ q.how = "before" ->
                    [reg EXCEPT !.hasBefore = FALSE, !.more = FALSE]
               [] p.splits = {} /\ q.how = "after" ->
                    [reg EXCEPT !.hasAfter = FALSE, !.more = FALSE]
               [] p.splits # {} /\ q.how = "before" ->
                    [shown EXCEPT !.hasBefore = p.before, !.first = p.first]
               [] OTHER -> [shown EXCEPT !.hasAfter = p.after, !.last = p.last]
  BY DEF MoreAnswered
<1> HIDE DEF q, copies, marks
<1>6. /\ p.before \in BOOLEAN /\ p.after \in BOOLEAN
      /\ p.first \in Offset /\ p.last \in Offset
  BY <1>2 DEF PageType, Offset
<1>7. shown \in Component /\ shown.id = reg.id /\ shown.all = reg.all
      /\ shown.copies = copies
  BY <1>1, <1>3, <1>4 DEF Component
<1> HIDE DEF shown
<1>8. /\ reg' \in Component /\ reg'.id = reg.id /\ reg'.all = reg.all
      /\ reg'.copies = reg.copies \/ reg'.copies = copies
  <2>1. CASE p.splits = {} /\ q.how = "before"
    <3>1. reg' = [reg EXCEPT !.hasBefore = FALSE, !.more = FALSE]
      BY <1>5, <2>1
    <3>2. QED
      BY <1>1, <3>1 DEF Component
  <2>2. CASE p.splits = {} /\ q.how = "after"
    <3>1. reg' = [reg EXCEPT !.hasAfter = FALSE, !.more = FALSE]
      BY <1>5, <2>2
    <3>2. QED
      BY <1>1, <3>1 DEF Component
  <2>3. CASE p.splits # {} /\ q.how = "before"
    <3>1. reg' = [shown EXCEPT !.hasBefore = p.before, !.first = p.first]
      BY <1>5, <2>3
    <3>2. QED
      BY <1>6, <1>7, <3>1 DEF Component
  <2>4. CASE ~(p.splits = {} /\ q.how = "before") /\ ~(p.splits = {} /\ q.how = "after")
             /\ ~(p.splits # {} /\ q.how = "before")
    <3>1. reg' = [shown EXCEPT !.hasAfter = p.after, !.last = p.last]
      BY <1>5, <2>4
    <3>2. QED
      BY <1>6, <1>7, <3>1 DEF Component
  <2>5. QED
    BY <2>1, <2>2, <2>3, <2>4
<1>9. QED
  BY <1>1, <1>3, <1>8, SettledKeeps DEF RegInv, Own

LEMMA AllAnsweredKeeps ==
    ASSUME RegInv, NEW i \in Slot, AllAnswered(i)
    PROVE  RegInv'
<1> DEFINE q == regNet[i]
<1>1. /\ q \in Request /\ Meant(q) /\ q.kind = "all" /\ q.acct = reg.id
      /\ reg \in Component /\ regBook' \in Book /\ regNet' = Settled(i)
  BY SettledKeeps DEF AllAnswered, Done, RegInv, Own
<1>2. reg' = [reg EXCEPT !.loaded = TRUE, !.all = q.page.splits, !.allMarks = q.marks,
                         !.allVer = q.ver, !.searchLoading = FALSE]
  BY DEF AllAnswered
<1> HIDE DEF q
<1>3. /\ q.page.splits \in SUBSET Split /\ q.marks \in [Split -> Mark] /\ q.ver \in Nat
      /\ \A s \in q.page.splits : Home[s] = reg.id
  BY <1>1 DEF Request, PageType, Meant
<1>4. /\ reg' \in Component /\ reg'.id = reg.id /\ reg'.copies = reg.copies
      /\ reg'.all = q.page.splits
  BY <1>1, <1>2, <1>3 DEF Component
<1>5. QED
  BY <1>1, <1>3, <1>4, SettledKeeps DEF RegInv, Own

LEMMA ToggleAnsweredKeeps ==
    ASSUME RegInv, NEW i \in Slot, ToggleAnswered(i)
    PROVE  RegInv'
<1> DEFINE s == regNet[i].split
           m == regNet[i].how
           other == IF reg.loaded THEN m ELSE reg.allMarks[s]
<1>1. reg' = [reg EXCEPT !.marks[s] = m, !.allMarks[s] = other]
  BY DEF ToggleAnswered, Patched
<1>2. /\ s \in Split /\ m \in Mark
      /\ reg \in Component /\ regBook' \in Book /\ regNet' = Settled(i)
  BY SettledKeeps DEF ToggleAnswered, Done, Meant, Writes
<1>3. other \in Mark
  BY <1>2 DEF Component
<1> HIDE DEF s, m, other
<1>4. Alike(reg')
  BY <1>1, <1>2, <1>3 DEF Component, Alike
<1>5. QED
  BY <1>2, <1>4, SettledKeeps, SendKeeps

LEMMA DataChangedKeeps ==
    ASSUME RegInv, NEW i \in Slot, DataChanged(i)
    PROVE  RegInv'
<1> DEFINE l == Loading(reg, Settled(i), reg.cursor)
           r == [l EXCEPT !.loaded = FALSE, !.all = {}, !.allMarks = NoMarks]
           q == LoadReq(regNet[i].acct, reg.cursor)
           net == Send(Settled(i), q)
<1>1. reg \in Component /\ Sound(Settled(i)) /\ regBook' \in Book
      /\ \A j \in Slot : Settled(i)[j] = regNet[j] \/ Settled(i)[j].kind # "all"
  BY SettledKeeps DEF DataChanged
<1>2. regNet[i].acct \in Account /\ reg.cursor \in Nat
  BY <1>1 DEF Component, DataChanged, Done, RegInv, Own, Sound, Meant, Writes
<1>3. q \in Request /\ Meant(q) /\ q.kind # "all"
  BY <1>2, LoadReqSound DEF LoadReq, Free
<1>4. IF reg.loaded THEN SearchEffect(r, net) ELSE reg' = r /\ regNet' = net
  BY DEF DataChanged
<1>5. l \in Component /\ l.id = reg.id /\ l.copies = reg.copies
  BY <1>1, <1>2, LoadingKeeps
<1> HIDE DEF l, q
<1>6. r \in Component /\ r.id = reg.id /\ r.copies = reg.copies /\ r.all = {}
  BY <1>5, NoMarksTyped DEF Component
<1>7. Sound(net) /\ \A j \in Slot : net[j] \in {Settled(i)[j], q}
  BY <1>1, <1>3, SendSound
<1> HIDE DEF r, net
<1>8. Own(r, net)
  BY <1>1, <1>3, <1>6, <1>7 DEF RegInv, Own
<1>9. QED
  BY <1>1, <1>4, <1>8, SearchEffectKeeps DEF RegInv

LEMMA FailedKeeps == ASSUME RegInv, NEW i \in Slot, Failed(i) PROVE RegInv'
<1>1. reg \in Component /\ regBook' \in Book /\ regNet' = Settled(i)
  BY SettledKeeps DEF Failed
<1>2. reg' \in {[reg EXCEPT !.loading = FALSE, !.calm = FALSE], [reg EXCEPT !.more = FALSE],
                [reg EXCEPT !.searchLoading = FALSE, !.searchError = TRUE],
                [reg EXCEPT !.calm = FALSE]}
  BY DEF Failed
<1>3. /\ Alike([reg EXCEPT !.loading = FALSE, !.calm = FALSE])
      /\ Alike([reg EXCEPT !.more = FALSE])
      /\ Alike([reg EXCEPT !.searchLoading = FALSE, !.searchError = TRUE])
      /\ Alike([reg EXCEPT !.calm = FALSE])
  BY <1>1 DEF Component, Alike
<1>4. Alike(reg')
  BY <1>2, <1>3
<1>5. QED
  BY <1>1, <1>4, SettledKeeps, SendKeeps

-----------------------------------------------------------------------------
LEMMA StepKeeps == RegInv /\ [RegNext]_regVars => RegInv'
<1> SUFFICES ASSUME RegInv, [RegNext]_regVars PROVE RegInv'
  OBVIOUS
<1>1. CASE RegUser
  BY <1>1, GoToKeeps, SearchKeeps, LoadMoreKeeps, ToggleClickKeeps, SaveKeeps DEF RegUser
<1>2. CASE RegServer
  BY <1>2, RunKeeps, ElsewhereKeeps DEF RegServer
<1>3. CASE RegAnswer
  BY <1>3, LoadAnsweredKeeps, MoreAnsweredKeeps, AllAnsweredKeeps, ToggleAnsweredKeeps,
     DataChangedKeeps, FailedKeeps DEF RegAnswer
<1>4. CASE UNCHANGED regVars
  BY <1>4 DEF regVars, RegInv
<1>5. QED
  BY <1>1, <1>2, <1>3, <1>4 DEF RegNext

(* The invariant that carries the three results below. *)
THEOREM RegAlways == RegSpec => []RegInv
BY InitKeeps, StepKeeps, PTL DEF RegSpec

(* The page's fields, its requests and the books always have their types,  *)
(* for every register, page size and number of requests under way: in      *)
(* particular no page request ever gets an offset below zero, whatever the *)
(* rank of the date or the cursor (getRegisterPage, loadMore). *)
THEOREM RegisterTypes == RegSpec => []RegTypeOK
<1>1. RegInv => RegTypeOK
  BY DEF RegInv, Own, Sound, Component, Request, Book, RegTypeOK
<1>2. QED
  BY <1>1, RegAlways, PTL

(* No split is shown twice, however pages and loads overlap and in         *)
(* whatever order they are answered (the dedupe of loadMore). *)
THEOREM RowsDistinct == RegSpec => []RegRowsDistinct
<1>1. RegInv => RegRowsDistinct
  BY DEF RegInv, Own, RegRowsDistinct
<1>2. QED
  BY <1>1, RegAlways, PTL

(* The search lists no other account's entries: every fetch under way asks *)
(* for the account that is shown, because the effect cancels the fetch of  *)
(* the account that was (the cleanup of the search effect). *)
THEOREM SearchOfAccount == RegSpec => []RegSearchOfAccount
<1>1. RegInv => RegSearchOfAccount
  BY DEF RegInv, Own, RegSearchOfAccount
<1>2. QED
  BY <1>1, RegAlways, PTL
-----------------------------------------------------------------------------
(* Reconcile marks.  While nothing raced, a write under way is alone; the  *)
(* window, the search cache and the pages under way have the marks of the  *)
(* books but for the split of a toggle that has run and is not answered.   *)
AloneAt(net) == \A i, j \in Slot : net[i].kind \in Writes /\ net[j].kind # "free" => i = j
RegReads == Paging \cup {"all"}
Coming(s) == \E i \in Slot : Done(i, "toggle") /\ regNet[i].split = s
Right(s, m) == m = regBook.marks[s] \/ Coming(s)
Marked ==
    /\ AloneAt(regNet)
    /\ \A s \in Window : Right(s, reg.marks[s])
    /\ reg.loaded => \A s \in reg.all : Right(s, reg.allMarks[s])
    /\ \A i \in Slot : regNet[i].kind \in RegReads /\ regNet[i].done =>
           \A s \in regNet[i].page.splits : regNet[i].marks[s] = regBook.marks[s]
    /\ \A i \in Slot : Done(i, "toggle") => regBook.marks[regNet[i].split] = regNet[i].how
MarksInv == reg.calm => Marked

(* What a slot holds when a request is sent. *)
LEMMA SendAt ==
    ASSUME NEW net, Sound(net), NEW r, NEW i \in Slot
    PROVE  Send(net, r)[i] = r \/ Send(net, r)[i] = net[i]
BY DEF Send, Sound

(* A read sent while no write is under way, or a write sent into the void. *)
LEMMA SendAlone ==
    ASSUME NEW net, Sound(net), NEW r,
           \/ r.kind \notin Writes /\ ~Busy(net, Writes)
           \/ FreeSlots(net) = Slot
    PROVE  AloneAt(Send(net, r))
<1> DEFINE f == FirstFree(net)
           new == Send(net, r)
<1>1. \A i \in Slot : new[i] = IF i = f THEN r ELSE net[i]
  BY DEF Send, Sound
<1> HIDE DEF f, new
<1>2. CASE r.kind \notin Writes /\ ~Busy(net, Writes)
  <2>1. \A i \in Slot : new[i].kind \notin Writes
    BY <1>1, <1>2 DEF Busy
  <2>2. QED
    BY <2>1 DEF AloneAt, new
<1>3. CASE FreeSlots(net) = Slot
  <2>1. \A i \in Slot : net[i].kind = "free"
    BY <1>3 DEF FreeSlots
  <2>2. \A i \in Slot : new[i].kind # "free" => i = f
    BY <1>1, <2>1
  <2>3. \A i \in Slot : new[i].kind \in Writes => new[i].kind # "free"
    BY DEF Writes
  <2>4. QED
    BY <2>2, <2>3 DEF AloneAt, new
<1>4. QED
  BY <1>2, <1>3

LEMMA CancelledAlone ==
    ASSUME NEW net, Sound(net)
    PROVE  /\ AloneAt(net) => AloneAt(Cancelled(net))
           /\ ~Busy(net, Writes) => ~Busy(Cancelled(net), Writes)
           /\ \A i \in Slot : Cancelled(net)[i] = Free \/ Cancelled(net)[i] = net[i]
           /\ \A i \in Slot : net[i].kind # "all" => Cancelled(net)[i] = net[i]
<1>1. \A i \in Slot : Cancelled(net)[i] = IF net[i].kind = "all" THEN Free ELSE net[i]
  BY DEF Cancelled
<1>2. Free.kind = "free"
  BY DEF Free
<1> HIDE DEF Cancelled
<1>3. \A i \in Slot : Cancelled(net)[i].kind \in {"free", net[i].kind}
  BY <1>1, <1>2
<1>4. AloneAt(net) => AloneAt(Cancelled(net))
  BY <1>3 DEF AloneAt, Writes
<1>5. ~Busy(net, Writes) => ~Busy(Cancelled(net), Writes)
  BY <1>3 DEF Busy, Writes
<1>6. QED
  BY <1>1, <1>4, <1>5

LEMMA SettledAlone ==
    ASSUME Sound(regNet), NEW i \in Slot
    PROVE  /\ AloneAt(regNet) => AloneAt(Settled(i))
           /\ \A j \in Slot : Settled(i)[j] = IF j = i THEN Free ELSE regNet[j]
           /\ Free.kind = "free" /\ ~Free.done
<1>1. \A j \in Slot : Settled(i)[j] = IF j = i THEN Free ELSE regNet[j]
  BY DEF Settled, Sound
<1>2. Free.kind = "free" /\ ~Free.done
  BY DEF Free
<1> HIDE DEF Settled
<1>3. \A j \in Slot : Settled(i)[j].kind \in {"free", regNet[j].kind}
  BY <1>1, <1>2
<1>4. AloneAt(regNet) => AloneAt(Settled(i))
  BY <1>3 DEF AloneAt, Writes
<1>5. QED
  BY <1>1, <1>2, <1>4

(* A step that brings no mark: what it sends has not run, what has run and *)
(* stays is as it was, and the lists keep their rows or are dropped. *)
LEMMA NoMarkBrought ==
    ASSUME MarksInv,
           reg'.calm => reg.calm /\ AloneAt(regNet)',
           reg'.copies = reg.copies, reg'.marks = reg.marks,
           reg'.loaded => reg.loaded /\ reg'.all = reg.all /\ reg'.allMarks = reg.allMarks,
           regBook'.marks = regBook.marks,
           \A i \in Slot : regNet'[i].done => regNet'[i] = regNet[i],
           reg'.calm => \A i \in Slot : Done(i, "toggle") => regNet'[i] = regNet[i]
    PROVE  MarksInv'
<1> SUFFICES ASSUME reg'.calm PROVE Marked'
  BY DEF MarksInv
<1>1. Marked /\ AloneAt(regNet)'
  BY DEF MarksInv
<1>2. \A s : Coming(s) => Coming(s)'
  BY DEF Coming, Done
<1>3. \A s, m : Right(s, m) => Right(s, m)'
  BY <1>2 DEF Right
<1>4. Window' = Window
  BY DEF Window
<1>5. \A s \in Window' : Right(s, reg.marks[s])'
  BY <1>1, <1>3, <1>4 DEF Marked
<1>6. reg'.loaded => \A s \in reg'.all : Right(s, reg.allMarks[s])'
  BY <1>1, <1>3 DEF Marked
<1>7. \A i \in Slot : regNet'[i].kind \in RegReads /\ regNet'[i].done =>
          \A s \in regNet'[i].page.splits : regNet'[i].marks[s] = regBook'.marks[s]
  BY <1>1 DEF Marked
<1>8. \A i \in Slot : Done(i, "toggle")' => regBook'.marks[regNet'[i].split] = regNet'[i].how
  BY <1>1 DEF Marked, Done
<1>9. QED
  BY <1>1, <1>5, <1>6, <1>7, <1>8 DEF Marked
LEMMA SentDone ==
    ASSUME NEW net, Sound(net), NEW r, ~r.done
    PROVE  \A i \in Slot : Send(net, r)[i].done => Send(net, r)[i] = net[i]
BY DEF Send, Sound

LEMMA NewUndone ==
    ASSUME NEW a, NEW d, NEW n, NEW s, NEW how
    PROVE  /\ ~LoadReq(a, n).done /\ LoadReq(a, n).kind = "load"
           /\ ~AllReq(a).done /\ AllReq(a).kind = "all"
           /\ ~MoreReq(a, d, n).done /\ MoreReq(a, d, n).kind = "more"
           /\ ~WriteReq("toggle", a, s, how).done /\ ~WriteReq("save", a, s, how).done
BY DEF LoadReq, AllReq, MoreReq, WriteReq, Free

(* The fields of the component that tell marks, through a load that is     *)
(* started and a search effect. *)
LEMMA LoadingMarks ==
    ASSUME NEW r \in Component, NEW net, NEW date \in Nat
    PROVE  LET l == Loading(r, net, date)
           IN  /\ l.marks = r.marks /\ l.loaded = r.loaded /\ l.searching = r.searching
               /\ l.account = r.account /\ l.ver = r.ver
               /\ l.hasBefore = r.hasBefore /\ l.hasAfter = r.hasAfter
               /\ l.first = r.first /\ l.last = r.last
               /\ l.loading /\ l.calm = (r.calm /\ ~Busy(net, Paging \cup Writes))
BY DEF Loading, Component

LEMMA SearchEffectMarks ==
    ASSUME NEW r \in Component, NEW net, Sound(net), SearchEffect(r, net)
    PROVE  /\ reg'.calm => r.calm /\ (AloneAt(net) => AloneAt(regNet)')
           /\ reg'.copies = r.copies /\ reg'.marks = r.marks
           /\ reg'.loaded = r.loaded /\ reg'.all = r.all /\ reg'.allMarks = r.allMarks
           /\ \A i \in Slot : regNet'[i].done => regNet'[i] = net[i]
           /\ reg'.calm => \A i \in Slot : net[i].kind = "toggle" => regNet'[i] = net[i]
<1>0. Sound(Cancelled(net)) /\ ~Free.done
  BY CancelledSound DEF Free
<1>1. CASE r.searching /\ ~r.loaded
  <2> DEFINE c == r.calm /\ ~Busy(net, Writes)
             q == AllReq(r.id)
  <2>1. reg' = [r EXCEPT !.searchLoading = TRUE, !.searchError = FALSE, !.calm = c]
    BY <1>1 DEF SearchEffect
  <2>2. regNet' = Send(Cancelled(net), q)
    BY <1>1 DEF SearchEffect
  <2>3. ~q.done /\ q.kind \notin Writes
    BY NewUndone DEF Writes
  <2>4. c \in BOOLEAN /\ (c => r.calm /\ ~Busy(net, Writes))
    OBVIOUS
  <2> HIDE DEF c, q
  <2>5. /\ reg'.calm = c /\ reg'.copies = r.copies /\ reg'.marks = r.marks
        /\ reg'.loaded = r.loaded /\ reg'.all = r.all /\ reg'.allMarks = r.allMarks
    BY <2>1, <2>4 DEF Component
  <2>6. \A i \in Slot : regNet'[i].done => regNet'[i] = Cancelled(net)[i]
    BY <1>0, <2>2, <2>3, SentDone
  <2>7. \A i \in Slot : regNet'[i].done => regNet'[i] = net[i]
    BY <1>0, <2>6, CancelledAlone
  <2>8. reg'.calm => AloneAt(regNet') /\ \A i \in Slot : net[i].kind # "toggle"
    <3> SUFFICES ASSUME reg'.calm
                 PROVE  AloneAt(regNet') /\ \A i \in Slot : net[i].kind # "toggle"
      OBVIOUS
    <3>1. ~Busy(net, Writes)
      BY <2>4, <2>5
    <3>2. ~Busy(Cancelled(net), Writes)
      BY <3>1, CancelledAlone
    <3>3. QED
      BY <1>0, <2>2, <2>3, <3>1, <3>2, SendAlone DEF Busy, Writes
  <2>9. QED
    BY <2>4, <2>5, <2>7, <2>8 DEF AloneAt
<1>2. CASE ~(r.searching /\ ~r.loaded)
  <2>1. reg' = r /\ regNet' = Cancelled(net)
    BY <1>2 DEF SearchEffect
  <2>2. \A i \in Slot : regNet'[i].done => regNet'[i] = net[i]
    BY <1>0, <2>1, CancelledAlone
  <2>3. AloneAt(net) => AloneAt(regNet')
    BY <2>1, CancelledAlone
  <2>4. \A i \in Slot : net[i].kind = "toggle" => regNet'[i] = net[i]
    BY <2>1, CancelledAlone
  <2>5. QED
    BY <2>1, <2>2, <2>3, <2>4 DEF AloneAt
<1>3. QED
  BY <1>1, <1>2

LEMMA StartMarks ==
    ASSUME NEW a, NEW d, reg = RegStart(a, d), regNet = RegNetStart(a, d)
    PROVE  MarksInv
<1> DEFINE none == [i \in Slot |-> Free]
<1>1. \A i \in Slot : regNet[i] = Free \/ regNet[i] = LoadReq(a, d)
  BY DEF RegNetStart, Send
<1>2. \A i \in Slot : regNet[i].kind \in {"free", "load"} /\ ~regNet[i].done
  BY <1>1, NewUndone DEF Free
<1>3. Window = {} /\ ~reg.loaded
  BY DEF Window, RegStart, NoRows
<1>4. AloneAt(regNet)
  BY <1>2 DEF AloneAt, Writes
<1>5. QED
  BY <1>2, <1>3, <1>4 DEF MarksInv, Marked, Done

LEMMA GoToMarks ==
    ASSUME RegInv, MarksInv, NEW a \in Account, NEW d \in Dates, GoTo(a, d)
    PROVE  MarksInv'
<1>1. d \in Nat /\ reg \in Component /\ Sound(regNet)
  BY RegAssumption DEF RegInv, Own
<1> DEFINE l == Loading(reg, regNet, d)
           e == l.searchLoading \/ (reg.searching /\ ~reg.loaded)
           q == LoadReq(a, d)
<1>2. /\ l \in Component /\ l.copies = reg.copies /\ l.marks = reg.marks
      /\ l.calm => reg.calm /\ ~Busy(regNet, Writes)
  BY <1>1, LoadingKeeps, LoadingMarks DEF Busy
<1>3. /\ reg' = [l EXCEPT !.id = a, !.searching = FALSE, !.loaded = FALSE,
                   !.all = {}, !.allMarks = NoMarks, !.searchError = FALSE,
                   !.searchLoading = e]
      /\ regNet' = Send(Cancelled(regNet), q) /\ regBook' = regBook
  BY DEF GoTo
<1>4. ~q.done /\ q.kind \notin Writes
  BY NewUndone DEF Writes
<1> HIDE DEF l, e, q
<1>5. reg'.copies = reg.copies /\ reg'.marks = reg.marks /\ ~reg'.loaded /\ reg'.calm = l.calm
  BY <1>2, <1>3 DEF Component
<1>6. Sound(Cancelled(regNet)) /\ ~Free.done
  BY <1>1, CancelledSound DEF Free
<1>7. \A i \in Slot : regNet'[i].done => regNet'[i] = regNet[i]
  <2>1. \A i \in Slot : regNet'[i].done => regNet'[i] = Cancelled(regNet)[i]
    BY <1>3, <1>4, <1>6, SentDone
  <2>2. QED
    BY <1>1, <1>6, <2>1, CancelledAlone
<1>8. reg'.calm => AloneAt(regNet') /\ \A i \in Slot : ~Done(i, "toggle")
  <2> SUFFICES ASSUME reg'.calm PROVE AloneAt(regNet') /\ \A i \in Slot : ~Done(i, "toggle")
    OBVIOUS
  <2>1. ~Busy(regNet, Writes)
    BY <1>2, <1>5
  <2>2. ~Busy(Cancelled(regNet), Writes)
    BY <1>1, <2>1, CancelledAlone
  <2>3. QED
    BY <1>3, <1>4, <1>6, <2>1, <2>2, SendAlone DEF Busy, Writes, Done
<1>9. AloneAt(regNet') => AloneAt(regNet)'
  BY DEF AloneAt
<1>10. QED
  BY <1>2, <1>3, <1>5, <1>7, <1>8, <1>9, NoMarkBrought

LEMMA SearchMarks == ASSUME RegInv, MarksInv, Search PROVE MarksInv'
<1>1. PICK clear \in BOOLEAN :
        SearchEffect([reg EXCEPT !.searching = ~@, !.searchError = @ /\ ~clear], regNet)
  BY DEF Search
<1> DEFINE r == [reg EXCEPT !.searching = ~@, !.searchError = @ /\ ~clear]
           s == ~reg.searching
           e == reg.searchError /\ ~clear
<1>2. r = [reg EXCEPT !.searching = s, !.searchError = e]
  BY DEF RegInv, Own, Component
<1>3. s \in BOOLEAN /\ e \in BOOLEAN
  OBVIOUS
<1> HIDE DEF s, e
<1>4. /\ r \in Component /\ r.calm = reg.calm /\ r.copies = reg.copies /\ r.marks = reg.marks
      /\ r.loaded = reg.loaded /\ r.all = reg.all /\ r.allMarks = reg.allMarks
  BY <1>2, <1>3 DEF RegInv, Own, Component
<1>5. SearchEffect(r, regNet) /\ regBook' = regBook /\ Sound(regNet)
  BY <1>1 DEF Search, RegInv, Own
<1> HIDE DEF r
<1>6. /\ reg'.calm => r.calm /\ (AloneAt(regNet) => AloneAt(regNet)')
      /\ reg'.copies = r.copies /\ reg'.marks = r.marks
      /\ reg'.loaded = r.loaded /\ reg'.all = r.all /\ reg'.allMarks = r.allMarks
      /\ \A i \in Slot : regNet'[i].done => regNet'[i] = regNet[i]
      /\ reg'.calm => \A i \in Slot : regNet[i].kind = "toggle" => regNet'[i] = regNet[i]
  BY <1>4, <1>5, SearchEffectMarks
<1>7. reg.calm => AloneAt(regNet)
  BY DEF MarksInv, Marked
<1>8. \A i \in Slot : Done(i, "toggle") => regNet[i].kind = "toggle"
  BY DEF Done
<1>9. QED
  BY <1>4, <1>5, <1>6, <1>7, <1>8, NoMarkBrought
LEMMA LoadMoreMarks ==
    ASSUME RegInv, MarksInv, NEW dirs \in SUBSET {"before", "after"} \ {{}}, LoadMore(dirs)
    PROVE  MarksInv'
<1> DEFINE c == reg.calm /\ ~Busy(regNet, {"load"} \cup Writes)
<1>1. reg' = [reg EXCEPT !.more = TRUE, !.calm = c] /\ regBook' = regBook
  BY DEF LoadMore
<1>2. c \in BOOLEAN /\ (c => reg.calm /\ ~Busy(regNet, Writes))
  BY DEF Busy
<1> HIDE DEF c
<1>3. /\ reg'.calm = c /\ reg'.copies = reg.copies /\ reg'.marks = reg.marks
      /\ reg'.loaded = reg.loaded /\ reg'.all = reg.all /\ reg'.allMarks = reg.allMarks
  BY <1>1, <1>2 DEF RegInv, Own, Component
<1>4. \A d \in dirs : ~MoreNow(d).done /\ MoreNow(d).kind \notin Writes
  BY NewUndone DEF MoreNow, Writes
<1>5. Sound(regNet)
  BY DEF RegInv, Own
<1>6. /\ \A i \in Slot : regNet'[i].done => regNet'[i] = regNet[i]
      /\ ~Busy(regNet, Writes) => AloneAt(regNet')
  <2>1. CASE dirs = {"before", "after"}
    <3> DEFINE half == Send(regNet, MoreNow("before"))
    <3>1. regNet' = Send(half, MoreNow("after"))
      BY <2>1 DEF LoadMore
    <3>2. \A i \in Slot : half[i].done => half[i] = regNet[i]
      BY <1>4, <1>5, <2>1, SentDone
    <3>3. \A i \in Slot : half[i] = MoreNow("before") \/ half[i] = regNet[i]
      BY <1>5, SendAt
    <3>4. half \in [Slot -> {regNet[i] : i \in Slot} \cup {MoreNow("before")}]
      BY <1>5 DEF Send, Sound
    <3> DEFINE new == Send(half, MoreNow("after"))
    <3>5. \A i \in Slot : new[i] = MoreNow("after") \/ new[i] = half[i]
      BY <3>4 DEF Send
    <3> HIDE DEF half, new
    <3>6. \A i \in Slot : new[i].done => new[i] = regNet[i]
      BY <1>4, <2>1, <3>2, <3>5
    <3>7. ~Busy(regNet, Writes) => \A i \in Slot : new[i].kind \notin Writes
      BY <1>4, <2>1, <3>3, <3>5 DEF Busy
    <3>8. QED
      BY <3>1, <3>6, <3>7 DEF AloneAt, new
  <2>2. CASE dirs # {"before", "after"}
    <3>1. PICK d \in dirs : regNet' = Send(regNet, MoreNow(d))
      BY <2>2 DEF LoadMore
    <3>2. QED
      BY <1>4, <1>5, <3>1, SentDone, SendAlone
  <2>3. QED
    BY <2>1, <2>2
<1>7. reg'.calm => reg.calm /\ AloneAt(regNet)' /\ \A i \in Slot : ~Done(i, "toggle")
  <2>1. AloneAt(regNet') => AloneAt(regNet)'
    BY DEF AloneAt
  <2>2. ~Busy(regNet, Writes) => \A i \in Slot : ~Done(i, "toggle")
    BY DEF Busy, Done, Writes
  <2>3. QED
    BY <1>2, <1>3, <1>6, <2>1, <2>2
<1>8. QED
  BY <1>1, <1>3, <1>6, <1>7, NoMarkBrought

LEMMA WriteMarks ==
    ASSUME RegInv, MarksInv, NEW q, ~q.done,
           regNet' = Send(regNet, q),
           reg' = [reg EXCEPT !.calm = @ /\ FreeSlots(regNet) = Slot],
           UNCHANGED regBook
    PROVE  MarksInv'
<1> DEFINE c == reg.calm /\ FreeSlots(regNet) = Slot
<1>1. c \in BOOLEAN /\ reg' = [reg EXCEPT !.calm = c] /\ (c => reg.calm)
  OBVIOUS
<1>2. Sound(regNet)
  BY DEF RegInv, Own
<1>3. c => AloneAt(regNet') /\ \A i \in Slot : ~Done(i, "toggle")
  BY <1>2, SendAlone DEF FreeSlots, Done
<1> HIDE DEF c
<1>4. /\ reg'.calm = c /\ reg'.copies = reg.copies /\ reg'.marks = reg.marks
      /\ reg'.loaded = reg.loaded /\ reg'.all = reg.all /\ reg'.allMarks = reg.allMarks
  BY <1>1 DEF RegInv, Own, Component
<1>5. \A i \in Slot : regNet'[i].done => regNet'[i] = regNet[i]
  BY <1>2, SentDone
<1>6. AloneAt(regNet') => AloneAt(regNet)'
  BY DEF AloneAt
<1>7. QED
  BY <1>1, <1>3, <1>4, <1>5, <1>6, NoMarkBrought

LEMMA ToggleClickMarks ==
    ASSUME RegInv, MarksInv, NEW s \in Touched, ToggleClick(s)
    PROVE  MarksInv'
BY WriteMarks, NewUndone DEF ToggleClick

LEMMA SaveMarks ==
    ASSUME RegInv, MarksInv, NEW s \in Touched, NEW how \in {"remove", "insert"}, Save(s, how)
    PROVE  MarksInv'
BY WriteMarks, NewUndone DEF Save

LEMMA ElsewhereMarks ==
    ASSUME RegInv, MarksInv, NEW s \in Touched, NEW how \in {"remove", "insert"},
           ChangedElsewhere(s, how)
    PROVE  MarksInv'
<1>1. regBook' = Changed(regBook, s, how) /\ reg' = reg /\ regNet' = regNet
  BY DEF ChangedElsewhere
<1>2. regBook'.marks = regBook.marks
  BY <1>1 DEF Changed, RegInv, Book
<1>3. reg.calm => AloneAt(regNet)'
  BY <1>1 DEF MarksInv, Marked, AloneAt
<1>4. QED
  BY <1>1, <1>2, <1>3, NoMarkBrought

(* The server reads marks as they are, and a toggle writes one alone. *)
LEMMA RunMarks == ASSUME RegInv, MarksInv, NEW i \in Slot, Run(i) PROVE MarksInv'
<1> SUFFICES ASSUME reg'.calm PROVE Marked'
  BY DEF MarksInv
<1> DEFINE q == regNet[i]
<1>0. PICK page \in Serve(regBook, q) :
        regNet' = [regNet EXCEPT ![i] = Served(q, page, regBook)]
  BY RunServes
<1> DEFINE marks == Seen(page, regBook)
           ver == IF q.kind \in Writes THEN 0 ELSE regBook.ver
           served == [q EXCEPT !.done = TRUE, !.page = page, !.marks = marks, !.ver = ver]
<1>1. /\ Sound(regNet) /\ regBook \in Book /\ q \in Request /\ Meant(q)
      /\ reg' = reg /\ ~q.done /\ q.kind # "free"
  BY DEF RegInv, Own, Sound, Run
<1>2. Marked
  BY <1>1 DEF MarksInv
<1>3. regNet' = [regNet EXCEPT ![i] = served]
  BY <1>0 DEF Served
<1>4. page \in PageType /\ \A s \in page.splits : marks[s] = regBook.marks[s]
  <2>1. page \in PageType
    BY <1>1, ServeTyped
  <2>2. page.splits \subseteq Split
    BY <2>1 DEF PageType
  <2>3. QED
    BY <2>1, <2>2 DEF Seen
<1> HIDE DEF marks, ver
<1>5. /\ served.kind = q.kind /\ served.done /\ served.page = page /\ served.marks = marks
      /\ served.split = q.split /\ served.how = q.how
  BY <1>1 DEF Request
<1> HIDE DEF served
<1>6. \A j \in Slot : regNet'[j] = IF j = i THEN served ELSE regNet[j]
  BY <1>1, <1>3 DEF Sound
<1>7. \A j \in Slot : regNet'[j].kind = regNet[j].kind
  BY <1>5, <1>6
<1>8. AloneAt(regNet)'
  BY <1>2, <1>7 DEF Marked, AloneAt
<1>9. Window' = Window
  BY <1>1 DEF Window
<1>10. CASE q.kind = "toggle"
  <2>1. regBook' = [regBook EXCEPT !.marks[q.split] = q.how]
    BY <1>10 DEF Run
  <2>2. q.split \in Split /\ q.how \in Mark
    BY <1>1, <1>10 DEF Meant, Writes
  <2>3. \A s \in Split : regBook'.marks[s] = IF s = q.split THEN q.how ELSE regBook.marks[s]
    BY <1>1, <2>1, <2>2 DEF Book
  <2>4. \A j \in Slot : j # i => regNet[j].kind = "free"
    BY <1>2, <1>10 DEF Marked, AloneAt, Writes
  <2> DEFINE z == served.split
  <2>5. \A s : s = z => Coming(s)'
    BY <1>5, <1>6, <1>10 DEF Coming, Done
  <2>6. \A s : ~Coming(s)
    BY <1>1, <2>4 DEF Coming, Done
  <2> HIDE DEF z
  <2>7. \A s \in Split : \A m : Right(s, m) => Right(s, m)'
    <3>1. z = q.split
      BY <1>5 DEF z
    <3>2. \A s \in Split : s = z \/ regBook'.marks[s] = regBook.marks[s]
      BY <2>3, <3>1
    <3>3. QED
      BY <2>5, <2>6, <3>2 DEF Right
  <2>8. Window \subseteq Split /\ reg.all \subseteq Split
    BY DEF Window, RegInv, Own, Component
  <2>9. \A s \in Window' : Right(s, reg.marks[s])'
    BY <1>1, <1>2, <1>9, <2>7, <2>8 DEF Marked
  <2>10. reg'.loaded => \A s \in reg'.all : Right(s, reg.allMarks[s])'
    BY <1>1, <1>2, <2>7, <2>8 DEF Marked
  <2>11. \A j \in Slot : regNet'[j].kind \notin RegReads
    BY <1>7, <1>10, <2>4 DEF RegReads, Paging
  <2>12. \A j \in Slot : Done(j, "toggle")' => regBook'.marks[regNet'[j].split] = regNet'[j].how
    BY <1>5, <1>6, <1>7, <2>2, <2>3, <2>4 DEF Done
  <2>13. QED
    BY <1>8, <2>9, <2>10, <2>11, <2>12 DEF Marked
<1>11. CASE q.kind # "toggle"
  <2>1. regBook' = Changed(regBook, q.split, q.how) \/ regBook' = regBook
    BY <1>11 DEF Run
  <2>2. regBook'.marks = regBook.marks
    BY <1>1, <2>1 DEF Changed, Book
  <2>3. \A s : Coming(s) => Coming(s)'
    BY <1>1, <1>6 DEF Coming, Done
  <2>4. \A s, m : Right(s, m) => Right(s, m)'
    BY <2>2, <2>3 DEF Right
  <2>5. \A s \in Window' : Right(s, reg.marks[s])'
    BY <1>1, <1>2, <1>9, <2>4 DEF Marked
  <2>6. reg'.loaded => \A s \in reg'.all : Right(s, reg.allMarks[s])'
    BY <1>1, <1>2, <2>4 DEF Marked
  <2>7. \A j \in Slot : regNet'[j].kind \in RegReads /\ regNet'[j].done =>
            \A s \in regNet'[j].page.splits : regNet'[j].marks[s] = regBook'.marks[s]
    BY <1>2, <1>4, <1>5, <1>6, <2>2 DEF Marked
  <2>8. \A j \in Slot : Done(j, "toggle")' => regBook'.marks[regNet'[j].split] = regNet'[j].how
    BY <1>2, <1>5, <1>6, <1>11, <2>2 DEF Marked, Done
  <2>9. QED
    BY <1>8, <2>5, <2>6, <2>7, <2>8 DEF Marked
<1>12. QED
  BY <1>10, <1>11
(* A request is answered: those that stay are as they were, and no toggle  *)
(* has run that is not among them. *)
LEMMA AnswerMarks ==
    ASSUME RegInv, Marked, NEW i \in Slot, regNet' = Settled(i), regBook' = regBook
    PROVE  /\ AloneAt(regNet)'
           /\ \A j \in Slot : regNet'[j].kind \in RegReads /\ regNet'[j].done =>
                  \A s \in regNet'[j].page.splits : regNet'[j].marks[s] = regBook'.marks[s]
           /\ \A j \in Slot : Done(j, "toggle")' =>
                  regBook'.marks[regNet'[j].split] = regNet'[j].how
           /\ regNet[i].kind # "toggle" => \A s, m : Right(s, m) => Right(s, m)'
           /\ regNet[i].kind \in RegReads =>
                \A s : ~Coming(s)
<1>1. Sound(regNet)
  BY DEF RegInv, Own
<1>2. /\ \A j \in Slot : regNet'[j] = IF j = i THEN Free ELSE regNet[j]
      /\ Free.kind = "free" /\ ~Free.done
      /\ AloneAt(regNet')
  BY <1>1, SettledAlone DEF Marked
<1>3. AloneAt(regNet)'
  BY <1>2 DEF AloneAt
<1>4. \A j \in Slot : regNet'[j].done => regNet'[j] = regNet[j]
  BY <1>2
<1>5. \A j \in Slot : regNet'[j].kind \in RegReads /\ regNet'[j].done =>
          \A s \in regNet'[j].page.splits : regNet'[j].marks[s] = regBook'.marks[s]
  BY <1>4 DEF Marked
<1>6. \A j \in Slot : Done(j, "toggle")' =>
          regBook'.marks[regNet'[j].split] = regNet'[j].how
  BY <1>4 DEF Marked, Done
<1>7. regNet[i].kind # "toggle" => \A s, m : Right(s, m) => Right(s, m)'
  BY <1>2 DEF Right, Coming, Done
<1>8. regNet[i].kind \in RegReads => \A s : ~Coming(s)
  <2> SUFFICES ASSUME regNet[i].kind \in RegReads, NEW j \in Slot, Done(j, "toggle") PROVE FALSE
    BY DEF Coming
  <2>1. regNet[j].kind = "toggle" /\ regNet[i].kind # "free" /\ regNet[i].kind # "toggle"
    BY DEF Done, RegReads, Paging
  <2>2. QED
    BY <2>1 DEF Marked, AloneAt, Writes
<1>9. QED
  BY <1>3, <1>5, <1>6, <1>7, <1>8

LEMMA LoadAnsweredMarks ==
    ASSUME RegInv, MarksInv, NEW i \in Slot, LoadAnswered(i)
    PROVE  MarksInv'
<1> DEFINE q == regNet[i]
           copies == [s \in Split |-> IF s \in q.page.splits THEN 1 ELSE 0]
<1>1. /\ q \in Request /\ reg \in Component /\ q.kind \in RegReads /\ q.done
      /\ regNet' = Settled(i) /\ regBook' = regBook
  BY SettledKeeps DEF LoadAnswered, Done, RegReads, Paging
<1>2. reg' = [reg EXCEPT !.account = q.acct, !.loading = FALSE, !.copies = copies,
                !.marks = q.marks, !.hasBefore = q.page.before, !.hasAfter = q.page.after,
                !.first = q.page.first, !.last = q.page.last, !.ver = q.ver]
  BY DEF LoadAnswered
<1>3. \A s \in Split : copies[s] > 0 => s \in q.page.splits
  OBVIOUS
<1> HIDE DEF copies
<1>4. /\ reg'.calm = reg.calm /\ reg'.copies = copies /\ reg'.marks = q.marks
      /\ reg'.loaded = reg.loaded /\ reg'.all = reg.all /\ reg'.allMarks = reg.allMarks
  BY <1>1, <1>2 DEF Component
<1> SUFFICES ASSUME reg'.calm PROVE Marked'
  BY DEF MarksInv
<1>5. Marked
  BY <1>4 DEF MarksInv
<1>6. \A s \in Window' : Right(s, reg.marks[s])'
  <2>1. \A s \in Window' : s \in q.page.splits
    BY <1>3, <1>4 DEF Window
  <2>2. \A s \in q.page.splits : q.marks[s] = regBook.marks[s]
    BY <1>1, <1>5 DEF Marked
  <2>3. QED
    BY <1>1, <1>4, <2>1, <2>2 DEF Right
<1>7. reg'.loaded => \A s \in reg'.all : Right(s, reg.allMarks[s])'
  <2>1. q.kind # "toggle"
    BY <1>1 DEF RegReads, Paging
  <2>2. \A s, m : Right(s, m) => Right(s, m)'
    BY <1>1, <1>5, <2>1, AnswerMarks
  <2>3. QED
    BY <1>4, <1>5, <2>2 DEF Marked
<1>8. QED
  BY <1>1, <1>5, <1>6, <1>7, AnswerMarks DEF Marked

LEMMA MoreAnsweredMarks ==
    ASSUME RegInv, MarksInv, NEW i \in Slot, MoreAnswered(i)
    PROVE  MarksInv'
<1> DEFINE q == regNet[i]
           p == q.page
           copies == [s \in Split |-> reg.copies[s] + (IF s \in NewRows(p) THEN 1 ELSE 0)]
           marks == [s \in Split |-> IF s \in NewRows(p) THEN q.marks[s] ELSE reg.marks[s]]
           shown == [reg EXCEPT !.copies = copies, !.marks = marks, !.more = FALSE]
<1>1. /\ q \in Request /\ reg \in Component /\ q.kind \in RegReads /\ q.done
      /\ regNet' = Settled(i) /\ regBook' = regBook
  BY SettledKeeps DEF MoreAnswered, Done, RegReads, Paging
<1>2. reg' = CASE p.splits = {} /\ q.how = "before" ->
                    [reg EXCEPT !.hasBefore = FALSE, !.more = FALSE]
               [] p.splits = {} /\ q.how = "after" ->
                    [reg EXCEPT !.hasAfter = FALSE, !.more = FALSE]
               [] p.splits # {} /\ q.how = "before" ->
                    [shown EXCEPT !.hasBefore = p.before, !.first = p.first]
               [] OTHER -> [shown EXCEPT !.hasAfter = p.after, !.last = p.last]
  BY DEF MoreAnswered
<1>3. \A s \in Split : copies[s] > 0 =>
          \/ s \in Window /\ marks[s] = reg.marks[s]
          \/ s \in p.splits /\ marks[s] = q.marks[s]
  BY <1>1 DEF Window, NewRows, Component
<1> HIDE DEF copies, marks
<1>4. /\ shown.calm = reg.calm /\ shown.copies = copies /\ shown.marks = marks
      /\ shown.loaded = reg.loaded /\ shown.all = reg.all /\ shown.allMarks = reg.allMarks
  BY <1>1 DEF Component
<1>5. /\ reg'.calm = reg.calm
      /\ \/ reg'.copies = reg.copies /\ reg'.marks = reg.marks
         \/ reg'.copies = copies /\ reg'.marks = marks
      /\ reg'.loaded = reg.loaded /\ reg'.all = reg.all /\ reg'.allMarks = reg.allMarks
  <2>1. \/ reg' = [reg EXCEPT !.hasBefore = FALSE, !.more = FALSE]
        \/ reg' = [reg EXCEPT !.hasAfter = FALSE, !.more = FALSE]
        \/ reg' = [shown EXCEPT !.hasBefore = p.before, !.first = p.first]
        \/ reg' = [shown EXCEPT !.hasAfter = p.after, !.last = p.last]
    BY <1>2
  <2>2. shown \in [DOMAIN reg -> UNION {{shown[f]} : f \in DOMAIN reg}]
    OBVIOUS
  <2>3. DOMAIN reg = {"id", "account", "copies", "marks", "loading", "more", "hasBefore",
                      "hasAfter", "first", "last", "cursor", "searching", "loaded", "all",
                      "allMarks", "searchLoading", "searchError", "calm", "ver", "allVer"}
    BY <1>1 DEF Component
  <2> HIDE DEF shown
  <2>4. CASE reg' = [reg EXCEPT !.hasBefore = FALSE, !.more = FALSE]
    BY <1>1, <2>4 DEF Component
  <2>5. CASE reg' = [reg EXCEPT !.hasAfter = FALSE, !.more = FALSE]
    BY <1>1, <2>5 DEF Component
  <2>6. CASE reg' = [shown EXCEPT !.hasBefore = p.before, !.first = p.first]
    BY <1>4, <2>2, <2>3, <2>6
  <2>7. CASE reg' = [shown EXCEPT !.hasAfter = p.after, !.last = p.last]
    BY <1>4, <2>2, <2>3, <2>7
  <2>8. QED
    BY <2>1, <2>4, <2>5, <2>6, <2>7
<1> HIDE DEF shown
<1> SUFFICES ASSUME reg'.calm PROVE Marked'
  BY DEF MarksInv
<1>6. Marked
  BY <1>5 DEF MarksInv
<1>7. \A s, m : Right(s, m) => Right(s, m)'
  <2>1. q.kind # "toggle"
    BY <1>1 DEF RegReads, Paging
  <2>2. QED
    BY <1>1, <1>6, <2>1, AnswerMarks
<1>8. \A s \in Window' : Right(s, reg.marks[s])'
  <2>1. \A s \in Window' : \/ s \in Window /\ reg'.marks[s] = reg.marks[s]
                           \/ s \in p.splits /\ reg'.marks[s] = q.marks[s]
    BY <1>3, <1>5 DEF Window
  <2>2. \A s \in p.splits : q.marks[s] = regBook.marks[s]
    BY <1>1, <1>6 DEF Marked
  <2>3. \A s \in Window : Right(s, reg.marks[s])
    BY <1>6 DEF Marked
  <2>4. \A s, m : m = regBook.marks[s] => Right(s, m)
    BY DEF Right
  <2>5. \A s \in Window' : Right(s, reg'.marks[s])
    BY <2>1, <2>2, <2>3, <2>4
  <2>6. QED
    BY <1>7, <2>5
<1>9. reg'.loaded => \A s \in reg'.all : Right(s, reg.allMarks[s])'
  BY <1>5, <1>6, <1>7 DEF Marked
<1>10. QED
  BY <1>1, <1>6, <1>8, <1>9, AnswerMarks DEF Marked
LEMMA AllAnsweredMarks ==
    ASSUME RegInv, MarksInv, NEW i \in Slot, AllAnswered(i)
    PROVE  MarksInv'
<1> DEFINE q == regNet[i]
<1>1. /\ q \in Request /\ reg \in Component /\ q.kind \in RegReads /\ q.done
      /\ regNet' = Settled(i) /\ regBook' = regBook
  BY SettledKeeps DEF AllAnswered, Done, RegReads
<1>2. reg' = [reg EXCEPT !.loaded = TRUE, !.all = q.page.splits, !.allMarks = q.marks,
                         !.allVer = q.ver, !.searchLoading = FALSE]
  BY DEF AllAnswered
<1>3. /\ reg'.calm = reg.calm /\ reg'.copies = reg.copies /\ reg'.marks = reg.marks
      /\ reg'.all = q.page.splits /\ reg'.allMarks = q.marks
  BY <1>1, <1>2 DEF Component
<1> SUFFICES ASSUME reg'.calm PROVE Marked'
  BY DEF MarksInv
<1>4. Marked
  BY <1>3 DEF MarksInv
<1>5. \A s, m : Right(s, m) => Right(s, m)'
  <2>1. q.kind # "toggle"
    BY <1>1 DEF RegReads, Paging
  <2>2. QED
    BY <1>1, <1>4, <2>1, AnswerMarks
<1>6. \A s \in Window' : Right(s, reg.marks[s])'
  BY <1>3, <1>4, <1>5 DEF Marked, Window
<1>7. \A s \in reg'.all : Right(s, reg.allMarks[s])'
  <2>1. \A s \in q.page.splits : q.marks[s] = regBook.marks[s]
    BY <1>1, <1>4 DEF Marked
  <2>2. QED
    BY <1>1, <1>3, <2>1 DEF Right
<1>8. QED
  BY <1>1, <1>4, <1>6, <1>7, AnswerMarks DEF Marked

(* The toggle that is answered was the only one, and both lists get what   *)
(* the books have. *)
LEMMA ToggleAnsweredMarks ==
    ASSUME RegInv, MarksInv, NEW i \in Slot, ToggleAnswered(i)
    PROVE  MarksInv'
<1> DEFINE s == regNet[i].split
           m == regNet[i].how
           other == IF reg.loaded THEN m ELSE reg.allMarks[s]
<1>1. reg' = [reg EXCEPT !.marks[s] = m, !.allMarks[s] = other]
  BY DEF ToggleAnswered, Patched
<1>2. /\ s \in Split /\ m \in Mark /\ Done(i, "toggle")
      /\ reg \in Component /\ regNet' = Settled(i) /\ regBook' = regBook
  BY SettledKeeps DEF ToggleAnswered, Done, Meant, Writes
<1>3. other \in Mark /\ (reg.loaded => other = m)
  BY <1>2 DEF Component
<1> HIDE DEF other
<1>4. /\ reg'.calm = reg.calm /\ reg'.copies = reg.copies
      /\ reg'.loaded = reg.loaded /\ reg'.all = reg.all
      /\ \A t \in Split : reg'.marks[t] = IF t = s THEN m ELSE reg.marks[t]
      /\ \A t \in Split : reg'.allMarks[t] = IF t = s THEN other ELSE reg.allMarks[t]
      /\ reg.all \subseteq Split
  BY <1>1, <1>2, <1>3 DEF Component
<1> SUFFICES ASSUME reg'.calm PROVE Marked'
  BY DEF MarksInv
<1>5. Marked
  BY <1>4 DEF MarksInv
<1>6. regBook.marks[s] = m
  BY <1>2, <1>5 DEF Marked
<1>7. \A t : Coming(t) => t = s
  BY <1>2, <1>5 DEF Marked, AloneAt, Coming, Done, Writes
<1> HIDE DEF s, m
<1>8. \A t, n : t = s /\ n = m => Right(t, n)'
  BY <1>2, <1>6 DEF Right
<1>9. \A t, n : t # s /\ Right(t, n) => Right(t, n)'
  BY <1>2, <1>7 DEF Right
<1>10. Window' = Window /\ Window \subseteq Split
  BY <1>4 DEF Window
<1>11. \A t \in Window' : Right(t, reg.marks[t])'
  <2>1. \A t \in Window : Right(t, reg.marks[t])
    BY <1>5 DEF Marked
  <2>2. \A t \in Window : t # s => reg'.marks[t] = reg.marks[t]
    BY <1>4, <1>10
  <2>3. \A t \in Window : t = s => reg'.marks[t] = m
    BY <1>4, <1>10
  <2>4. \A t \in Window : \A n : n = reg'.marks[t] => Right(t, n)'
    BY <1>8, <1>9, <2>1, <2>2, <2>3
  <2>5. QED
    BY <1>10, <2>4 DEF Right
<1>12. reg'.loaded => \A t \in reg'.all : Right(t, reg.allMarks[t])'
  <2> SUFFICES ASSUME reg.loaded PROVE \A t \in reg.all : Right(t, reg.allMarks[t])'
    BY <1>4
  <2>1. \A t \in reg.all : Right(t, reg.allMarks[t])
    BY <1>5 DEF Marked
  <2>2. \A t \in reg.all : t # s => reg'.allMarks[t] = reg.allMarks[t]
    BY <1>4
  <2>3. \A t \in reg.all : t = s => reg'.allMarks[t] = m
    BY <1>3, <1>4
  <2>4. \A t \in reg.all : \A n : n = reg'.allMarks[t] => Right(t, n)'
    BY <1>8, <1>9, <2>1, <2>2, <2>3
  <2>5. QED
    BY <2>4 DEF Right
<1>13. QED
  BY <1>2, <1>5, <1>11, <1>12, AnswerMarks DEF Marked

LEMMA DataChangedMarks ==
    ASSUME RegInv, MarksInv, NEW i \in Slot, DataChanged(i)
    PROVE  MarksInv'
<1> DEFINE l == Loading(reg, Settled(i), reg.cursor)
           r == [l EXCEPT !.loaded = FALSE, !.all = {}, !.allMarks = NoMarks]
           q == LoadReq(regNet[i].acct, reg.cursor)
           net == Send(Settled(i), q)
<1>1. /\ reg \in Component /\ Sound(regNet) /\ Sound(Settled(i))
      /\ regNet[i].kind = "save" /\ regBook' = regBook
  BY SettledKeeps DEF DataChanged, Done, RegInv, Own
<1>2. regNet[i].acct \in Account /\ reg.cursor \in Nat
  BY <1>1 DEF Component, Sound, Meant, Writes
<1>3. q \in Request /\ Meant(q) /\ ~q.done /\ q.kind = "load"
  BY <1>2, LoadReqSound, NewUndone
<1>4. IF reg.loaded THEN SearchEffect(r, net) ELSE reg' = r /\ regNet' = net
  BY DEF DataChanged
<1>5. /\ l \in Component /\ l.copies = reg.copies /\ l.marks = reg.marks
      /\ l.calm = (reg.calm /\ ~Busy(Settled(i), Paging \cup Writes))
  BY <1>1, <1>2, LoadingKeeps, LoadingMarks
<1> HIDE DEF l, q
<1>6. /\ r \in Component /\ r.copies = reg.copies /\ r.marks = reg.marks
      /\ r.calm = l.calm /\ ~r.loaded
  BY <1>5, NoMarksTyped DEF Component
<1>7. Sound(net) /\ \A j \in Slot : net[j].done => net[j] = Settled(i)[j]
  BY <1>1, <1>3, SendSound, SentDone
<1>8. \A j \in Slot : net[j].done => net[j] = regNet[j]
  BY <1>1, <1>7, SettledAlone
<1>9. r.calm => reg.calm /\ AloneAt(net) /\ \A j \in Slot : ~Done(j, "toggle")
  <2> SUFFICES ASSUME r.calm
               PROVE  reg.calm /\ AloneAt(net) /\ \A j \in Slot : ~Done(j, "toggle")
    OBVIOUS
  <2>1. reg.calm /\ ~Busy(Settled(i), Writes)
    BY <1>5, <1>6 DEF Busy
  <2>2. AloneAt(net)
    BY <1>1, <1>3, <2>1, SendAlone DEF Writes
  <2>3. \A j \in Slot : regNet[j].kind # "toggle"
    <3>1. Marked
      BY <2>1 DEF MarksInv
    <3>2. QED
      BY <1>1, <3>1 DEF Marked, AloneAt, Writes
  <2>4. QED
    BY <2>1, <2>2, <2>3 DEF Done
<1> HIDE DEF r, net
<1>10. /\ reg'.calm => r.calm /\ (AloneAt(net) => AloneAt(regNet)')
       /\ reg'.copies = r.copies /\ reg'.marks = r.marks /\ reg'.loaded = r.loaded
       /\ \A j \in Slot : regNet'[j].done => regNet'[j] = net[j]
  <2>1. CASE reg.loaded
    BY <1>4, <1>6, <1>7, <2>1, SearchEffectMarks
  <2>2. CASE ~reg.loaded
    BY <1>4, <2>2 DEF AloneAt
  <2>3. QED
    BY <2>1, <2>2
<1>11. \A j \in Slot : regNet'[j].done => regNet'[j] = regNet[j]
  BY <1>8, <1>10
<1>12. QED
  BY <1>1, <1>6, <1>9, <1>10, <1>11, NoMarkBrought

LEMMA FailedMarks == ASSUME RegInv, MarksInv, NEW i \in Slot, Failed(i) PROVE MarksInv'
<1>1. /\ reg \in Component /\ regNet' = Settled(i) /\ regBook' = regBook
      /\ regNet[i].kind # "free"
  BY SettledKeeps DEF Failed
<1>2. CASE regNet[i].kind \notin {"more", "all"}
  <2>1. reg' = [reg EXCEPT !.loading = FALSE, !.calm = FALSE]
        \/ reg' = [reg EXCEPT !.calm = FALSE]
    BY <1>2 DEF Failed
  <2>2. ~reg'.calm
    BY <1>1, <2>1 DEF Component
  <2>3. QED
    BY <2>2 DEF MarksInv
<1>3. CASE regNet[i].kind \in {"more", "all"}
  <2>1. reg' = [reg EXCEPT !.more = FALSE]
        \/ reg' = [reg EXCEPT !.searchLoading = FALSE, !.searchError = TRUE]
    BY <1>3 DEF Failed
  <2>2. /\ reg'.calm = reg.calm /\ reg'.copies = reg.copies /\ reg'.marks = reg.marks
        /\ reg'.loaded = reg.loaded /\ reg'.all = reg.all /\ reg'.allMarks = reg.allMarks
    BY <1>1, <2>1 DEF Component
  <2>3. Sound(regNet)
    BY DEF RegInv, Own
  <2>4. /\ \A j \in Slot : regNet'[j] = IF j = i THEN Free ELSE regNet[j]
        /\ ~Free.done /\ (AloneAt(regNet) => AloneAt(regNet'))
    BY <1>1, <2>3, SettledAlone
  <2>5. reg.calm => AloneAt(regNet)'
    BY <2>4 DEF MarksInv, Marked, AloneAt
  <2>6. \A j \in Slot : Done(j, "toggle") => regNet'[j] = regNet[j]
    BY <1>3, <2>4 DEF Done
  <2>7. QED
    BY <1>1, <2>2, <2>4, <2>5, <2>6, NoMarkBrought
<1>4. QED
  BY <1>2, <1>3

LEMMA StepMarks == RegInv /\ MarksInv /\ [RegNext]_regVars => MarksInv'
<1> SUFFICES ASSUME RegInv, MarksInv, [RegNext]_regVars PROVE MarksInv'
  OBVIOUS
<1>1. CASE RegUser
  BY <1>1, GoToMarks, SearchMarks, LoadMoreMarks, ToggleClickMarks, SaveMarks DEF RegUser
<1>2. CASE RegServer
  BY <1>2, RunMarks, ElsewhereMarks DEF RegServer
<1>3. CASE RegAnswer
  BY <1>3, LoadAnsweredMarks, MoreAnsweredMarks, AllAnsweredMarks, ToggleAnsweredMarks,
     DataChangedMarks, FailedMarks DEF RegAnswer
<1>4. CASE UNCHANGED regVars
  <2>1. reg' = reg /\ regNet' = regNet /\ regBook' = regBook
    BY <1>4 DEF regVars
  <2>2. QED
    BY <2>1 DEF MarksInv, Marked, AloneAt, Window, Right, Coming, Done
<1>5. QED
  BY <1>1, <1>2, <1>3, <1>4 DEF RegNext

LEMMA MarksShown == MarksInv => RegMarksTrue
<1> SUFFICES ASSUME MarksInv, reg.calm, ~Busy(regNet, Writes)
             PROVE  /\ \A s \in Window : reg.marks[s] = regBook.marks[s]
                    /\ reg.loaded => \A s \in reg.all : reg.allMarks[s] = regBook.marks[s]
  BY DEF RegMarksTrue
<1>1. Marked
  BY DEF MarksInv
<1>2. \A s : ~Coming(s)
  BY DEF Busy, Writes, Coming, Done
<1>3. QED
  BY <1>1, <1>2 DEF Marked, Right

(* While nothing raced, a reconcile mark that is shown is the one the      *)
(* server has, in the window and in the search cache, whichever of them    *)
(* the row was clicked in: handleReconcileStateChanged patches both. *)
THEOREM MarksTrue == RegSpec => []RegMarksTrue
<1>1. RegInit => MarksInv
  BY StartMarks DEF RegInit
<1>2. QED
  BY <1>1, StepMarks, MarksShown, RegAlways, PTL DEF RegSpec
-----------------------------------------------------------------------------
(* What is saved while nothing raced is saved from the account of the      *)
(* route: handleDataChanged reloads that one.                              *)
SavesInv == reg.calm => \A i \in Slot : regNet[i].kind = "save" => regNet[i].acct = reg.id

LEMMA StartSaves ==
    ASSUME NEW a, NEW d, reg = RegStart(a, d), regNet = RegNetStart(a, d)
    PROVE  SavesInv
<1>1. \A i \in Slot : regNet[i].kind # "save"
  BY DEF RegNetStart, Send, LoadReq, Free
<1>2. QED
  BY <1>1 DEF SavesInv

(* A step that adds no save and stays in its account, or breaks the calm.  *)
LEMMA NoSaveSent ==
    ASSUME SavesInv, reg'.calm => reg.calm /\ reg'.id = reg.id,
           \A i \in Slot : regNet'[i].kind = "save" =>
               regNet[i].kind = "save" /\ regNet'[i].acct = regNet[i].acct
    PROVE  SavesInv'
BY DEF SavesInv

LEMMA SearchEffectSaves ==
    ASSUME NEW r \in Component, NEW net, Sound(net), SearchEffect(r, net)
    PROVE  /\ reg'.id = r.id /\ (reg'.calm => r.calm)
           /\ \A i \in Slot : regNet'[i].kind = "save" => regNet'[i] = net[i]
<1>1. Sound(Cancelled(net)) /\ \A i \in Slot : Cancelled(net)[i] \in {Free, net[i]}
  BY CancelledSound, CancelledAlone
<1>2. Free.kind = "free"
  BY DEF Free
<1>3. CASE r.searching /\ ~r.loaded
  <2> DEFINE c == r.calm /\ ~Busy(net, Writes)
             q == AllReq(r.id)
  <2>1. /\ reg' = [r EXCEPT !.searchLoading = TRUE, !.searchError = FALSE, !.calm = c]
        /\ regNet' = Send(Cancelled(net), q)
    BY <1>3 DEF SearchEffect
  <2>2. q.kind = "all" /\ c \in BOOLEAN /\ (c => r.calm)
    BY NewUndone
  <2> HIDE DEF c, q
  <2>3. \A i \in Slot : regNet'[i] \in {q, Cancelled(net)[i]}
    BY <1>1, <2>1, SendAt
  <2>4. reg'.id = r.id /\ reg'.calm = c
    BY <2>1, <2>2 DEF Component
  <2>5. QED
    BY <1>1, <1>2, <2>2, <2>3, <2>4
<1>4. CASE ~(r.searching /\ ~r.loaded)
  BY <1>1, <1>2, <1>4 DEF SearchEffect
<1>5. QED
  BY <1>3, <1>4

(* One scroll event's requests. *)
LEMMA MoreSent ==
    ASSUME Sound(regNet), NEW dirs \in SUBSET {"before", "after"} \ {{}}, LoadMore(dirs)
    PROVE  \A i \in Slot : regNet'[i] = regNet[i] \/ \E d \in dirs : regNet'[i] = MoreNow(d)
<1>1. CASE dirs = {"before", "after"}
  <2> DEFINE half == Send(regNet, MoreNow("before"))
  <2>1. regNet' = Send(half, MoreNow("after"))
    BY <1>1 DEF LoadMore
  <2>2. half \in [Slot -> {regNet[i] : i \in Slot} \cup {MoreNow("before")}]
    BY DEF Send, Sound
  <2> DEFINE new == Send(half, MoreNow("after"))
  <2>3. \A i \in Slot : new[i] = MoreNow("after") \/ new[i] = half[i]
    BY <2>2 DEF Send
  <2>4. \A i \in Slot : half[i] = MoreNow("before") \/ half[i] = regNet[i]
    BY SendAt
  <2> HIDE DEF half, new
  <2>5. QED
    BY <1>1, <2>1, <2>3, <2>4 DEF new
<1>2. CASE dirs # {"before", "after"}
  <2>1. PICK d \in dirs : regNet' = Send(regNet, MoreNow(d))
    BY <1>2 DEF LoadMore
  <2>2. QED
    BY <2>1, SendAt
<1>3. QED
  BY <1>1, <1>2

LEMMA StepSaves == RegInv /\ SavesInv /\ [RegNext]_regVars => SavesInv'
<1> SUFFICES ASSUME RegInv, SavesInv, [RegNext]_regVars PROVE SavesInv'
  OBVIOUS
<1>0. reg \in Component /\ Sound(regNet) /\ Free.kind = "free"
  BY DEF RegInv, Own, Free
<1>1. ASSUME NEW a \in Account, NEW d \in Dates, GoTo(a, d) PROVE SavesInv'
  <2> DEFINE q == LoadReq(a, d)
  <2>1. regNet' = Send(Cancelled(regNet), q) /\ q.kind = "load"
    BY <1>1, NewUndone DEF GoTo
  <2>2. Sound(Cancelled(regNet)) /\ \A i \in Slot : Cancelled(regNet)[i] \in {Free, regNet[i]}
    BY <1>0, CancelledSound, CancelledAlone
  <2> HIDE DEF q
  <2>3. \A i \in Slot : regNet'[i] \in {q, Cancelled(regNet)[i]}
    BY <2>1, <2>2, SendAt
  <2> DEFINE l == Loading(reg, regNet, d)
             e == l.searchLoading \/ (reg.searching /\ ~reg.loaded)
  <2>4. /\ l \in Component /\ l.calm = (reg.calm /\ ~Busy(regNet, Paging \cup Writes))
    BY <1>0, LoadingKeeps, LoadingMarks, RegAssumption
  <2>5. reg' = [l EXCEPT !.id = a, !.searching = FALSE, !.loaded = FALSE,
                   !.all = {}, !.allMarks = NoMarks, !.searchError = FALSE,
                   !.searchLoading = e]
    BY <1>1 DEF GoTo
  <2> HIDE DEF l, e
  <2>6. reg'.calm => ~Busy(regNet, Paging \cup Writes)
    BY <2>4, <2>5 DEF Component
  <2>7. reg'.calm => \A i \in Slot : regNet[i].kind # "save"
    BY <2>6 DEF Busy, Writes
  <2>8. reg'.calm => \A i \in Slot : regNet'[i].kind # "save"
    BY <1>0, <2>1, <2>2, <2>3, <2>7
  <2>9. QED
    BY <2>8 DEF SavesInv
<1>2. ASSUME Search PROVE SavesInv'
  <2>1. PICK clear \in BOOLEAN :
          SearchEffect([reg EXCEPT !.searching = ~@, !.searchError = @ /\ ~clear], regNet)
    BY <1>2 DEF Search
  <2> DEFINE s == ~reg.searching
             e == reg.searchError /\ ~clear
             r == [reg EXCEPT !.searching = s, !.searchError = e]
  <2>2. SearchEffect(r, regNet) /\ s \in BOOLEAN /\ e \in BOOLEAN
    BY <1>0, <2>1 DEF Component
  <2> HIDE DEF s, e
  <2>3. r \in Component /\ r.id = reg.id /\ r.calm = reg.calm
    BY <1>0, <2>2 DEF Component
  <2> HIDE DEF r
  <2>4. QED
    BY <1>0, <2>2, <2>3, SearchEffectSaves, NoSaveSent
<1>3. ASSUME NEW dirs \in SUBSET {"before", "after"} \ {{}}, LoadMore(dirs) PROVE SavesInv'
  <2> DEFINE c == reg.calm /\ ~Busy(regNet, {"load"} \cup Writes)
  <2>1. reg' = [reg EXCEPT !.more = TRUE, !.calm = c] /\ c \in BOOLEAN /\ (c => reg.calm)
    BY <1>3 DEF LoadMore
  <2> HIDE DEF c
  <2>2. reg'.id = reg.id /\ (reg'.calm => reg.calm)
    BY <1>0, <2>1 DEF Component
  <2>3. \A d : MoreNow(d).kind = "more"
    BY DEF MoreNow, MoreReq, Free
  <2>4. \A i \in Slot : regNet'[i] = regNet[i] \/ \E d \in dirs : regNet'[i] = MoreNow(d)
    BY <1>0, <1>3, MoreSent
  <2>5. QED
    BY <2>2, <2>3, <2>4, NoSaveSent
<1>4. ASSUME NEW kind \in Writes, NEW s, NEW how,
             regNet' = Send(regNet, WriteReq(kind, reg.id, s, how)),
             reg' = [reg EXCEPT !.calm = @ /\ FreeSlots(regNet) = Slot]
      PROVE  SavesInv'
  <2> DEFINE q == WriteReq(kind, reg.id, s, how)
             c == reg.calm /\ FreeSlots(regNet) = Slot
  <2>1. q.acct = reg.id
    BY DEF WriteReq, Free
  <2>2. c \in BOOLEAN /\ (c => reg.calm) /\ reg' = [reg EXCEPT !.calm = c]
    BY <1>4
  <2> HIDE DEF q, c
  <2>3. reg'.id = reg.id /\ (reg'.calm => reg.calm)
    BY <1>0, <2>2 DEF Component
  <2>4. \A i \in Slot : regNet'[i] \in {q, regNet[i]}
    BY <1>0, <1>4, SendAt DEF q
  <2>5. QED
    BY <2>1, <2>3, <2>4 DEF SavesInv
<1>5. CASE RegUser
  BY <1>1, <1>2, <1>3, <1>4, <1>5 DEF RegUser, ToggleClick, Save, Writes
<1>6. ASSUME NEW i \in Slot, Run(i) PROVE SavesInv'
  <2>1. PICK page \in Serve(regBook, regNet[i]) :
          regNet' = [regNet EXCEPT ![i] = Served(regNet[i], page, regBook)]
    BY <1>6, RunServes
  <2>2. Served(regNet[i], page, regBook).kind = regNet[i].kind
        /\ Served(regNet[i], page, regBook).acct = regNet[i].acct
    BY <1>0 DEF Served, Sound, Request
  <2>3. \A j \in Slot : regNet'[j].kind = regNet[j].kind /\ regNet'[j].acct = regNet[j].acct
    BY <1>0, <2>1, <2>2 DEF Sound
  <2>4. QED
    BY <1>6, <2>3, NoSaveSent DEF Run
<1>7. CASE RegServer
  BY <1>6, <1>7, NoSaveSent DEF RegServer, ChangedElsewhere
<1>8. ASSUME NEW i \in Slot, regNet' = Settled(i), reg'.calm => reg.calm, reg'.id = reg.id
      PROVE  SavesInv'
  <2>1. \A j \in Slot : regNet'[j] = IF j = i THEN Free ELSE regNet[j]
    BY <1>0, <1>8 DEF Settled, Sound
  <2>2. QED
    BY <1>0, <1>8, <2>1, NoSaveSent
<1>9. ASSUME NEW i \in Slot, DataChanged(i) PROVE SavesInv'
  <2> DEFINE l == Loading(reg, Settled(i), reg.cursor)
             r == [l EXCEPT !.loaded = FALSE, !.all = {}, !.allMarks = NoMarks]
             q == LoadReq(regNet[i].acct, reg.cursor)
             net == Send(Settled(i), q)
  <2>1. IF reg.loaded THEN SearchEffect(r, net) ELSE reg' = r /\ regNet' = net
    BY <1>9 DEF DataChanged
  <2>0. reg.cursor \in Nat /\ regNet[i].acct \in Account
    BY <1>0, <1>9 DEF DataChanged, Done, Sound, Meant, Writes, Component
  <2>2. /\ l \in Component /\ l.id = reg.id
        /\ l.calm = (reg.calm /\ ~Busy(Settled(i), Paging \cup Writes))
    BY <1>0, <2>0, LoadingKeeps, LoadingMarks
  <2>3. Sound(Settled(i)) /\ \A j \in Slot : Settled(i)[j] = IF j = i THEN Free ELSE regNet[j]
    BY <1>0, SettledKeeps, SettledAlone
  <2>4. q.kind = "load" /\ q \in Request /\ Meant(q)
    BY <2>0, LoadReqSound, NewUndone
  <2> HIDE DEF l, q
  <2>5. r \in Component /\ r.id = reg.id /\ r.calm = l.calm
    BY <2>2, NoMarksTyped DEF Component
  <2>6. Sound(net) /\ \A j \in Slot : net[j] \in {q, Settled(i)[j]}
    BY <2>3, <2>4, SendSound, SendAt
  <2> HIDE DEF r, net
  <2>7. /\ reg'.id = r.id /\ (reg'.calm => r.calm)
        /\ \A j \in Slot : regNet'[j].kind = "save" => regNet'[j] = net[j]
    BY <2>1, <2>5, <2>6, SearchEffectSaves
  <2>8. QED
    BY <1>0, <2>2, <2>3, <2>4, <2>5, <2>6, <2>7, NoSaveSent
<1>10. ASSUME NEW i \in Slot, LoadAnswered(i) \/ AllAnswered(i) \/ ToggleAnswered(i)
       PROVE  SavesInv'
  <2>1. reg'.calm = reg.calm /\ reg'.id = reg.id
    BY <1>0, <1>10 DEF LoadAnswered, AllAnswered, ToggleAnswered, Patched, Component
  <2>2. QED
    BY <1>8, <1>10, <2>1 DEF LoadAnswered, AllAnswered, ToggleAnswered
<1>11. ASSUME NEW i \in Slot, MoreAnswered(i) PROVE SavesInv'
  <2>1. reg'.calm = reg.calm /\ reg'.id = reg.id
    BY <1>0, <1>11 DEF MoreAnswered, Component
  <2>2. QED
    BY <1>8, <1>11, <2>1 DEF MoreAnswered
<1>12. ASSUME NEW i \in Slot, Failed(i) PROVE SavesInv'
  <2>1. (reg'.calm => reg.calm) /\ reg'.id = reg.id
    BY <1>0, <1>12 DEF Failed, Component
  <2>2. QED
    BY <1>8, <1>12, <2>1 DEF Failed
<1>13. CASE RegAnswer
  BY <1>9, <1>10, <1>11, <1>12, <1>13 DEF RegAnswer
<1>14. CASE UNCHANGED regVars
  BY <1>14, NoSaveSent DEF regVars
<1>15. QED
  BY <1>5, <1>7, <1>13, <1>14 DEF RegNext

-----------------------------------------------------------------------------
(* Places: a query may put as many rows before a row as are before it by   *)
(* the key, or those that tie with it as well. *)
Low(S, s) == Cardinality({q \in S : Place[q] < Place[s]})
High(S, s) == Cardinality({q \in S \ {s} : Place[q] <= Place[s]})
AtRank(S, s, n) == Low(S, s) <= n /\ n <= High(S, s)

LEMMA Fewer ==
    ASSUME NEW S \in SUBSET Split, NEW B \in SUBSET S, NEW A \in SUBSET B
    PROVE  /\ IsFiniteSet(A) /\ Cardinality(A) \in Nat /\ Cardinality(B) \in Nat
           /\ Cardinality(A) <= Cardinality(B)
           /\ A # B => Cardinality(A) < Cardinality(B)
<1>1. IsFiniteSet(B) /\ IsFiniteSet(A)
  BY RegAssumption, FS_Subset
<1>2. Cardinality(A) \in Nat /\ Cardinality(B) \in Nat
  BY <1>1, FS_CardinalityType
<1>3. Cardinality(A) <= Cardinality(B) /\ (Cardinality(B) = Cardinality(A) => B = A)
  BY <1>1, FS_Subset
<1>4. QED
  BY <1>1, <1>2, <1>3

LEMMA PlaceIsNat == \A s \in Split : Place[s] \in Nat
BY RegAssumption

LEMMA RowPlaces ==
    ASSUME NEW S \in SUBSET Split, NEW s \in S
    PROVE  /\ Low(S, s) \in Nat /\ High(S, s) \in Nat /\ Low(S, s) <= High(S, s)
           /\ High(S, s) < Cardinality(S) /\ Cardinality(S) \in Nat
           /\ Untied(S, s) => Low(S, s) = High(S, s)
<1> DEFINE A == {q \in S : Place[q] < Place[s]}
           B == {q \in S \ {s} : Place[q] <= Place[s]}
<1>1. A \subseteq B /\ B \subseteq S /\ B # S
  <2>1. \A q \in S : Place[q] < Place[s] => q # s /\ Place[q] <= Place[s]
    BY PlaceIsNat
  <2>2. QED
    BY <2>1
<1>2. Untied(S, s) => A = B
  <2>1. ASSUME Untied(S, s), NEW q \in S, q # s
        PROVE  Place[q] <= Place[s] => Place[q] < Place[s]
    BY <2>1, PlaceIsNat DEF Untied
  <2>2. QED
    BY <1>1, <2>1
<1> HIDE DEF A, B
<1>3. /\ Cardinality(A) \in Nat /\ Cardinality(B) \in Nat /\ Cardinality(S) \in Nat
      /\ Cardinality(A) <= Cardinality(B) /\ Cardinality(B) < Cardinality(S)
  BY <1>1, Fewer
<1>4. Low(S, s) = Cardinality(A) /\ High(S, s) = Cardinality(B)
  BY DEF Low, High, A, B
<1>5. QED
  BY <1>2, <1>3, <1>4

LEMMA RowOrder ==
    ASSUME NEW S \in SUBSET Split, NEW s \in S, NEW t \in S, Place[s] < Place[t]
    PROVE  High(S, s) < Low(S, t)
<1> DEFINE A == {q \in S \ {s} : Place[q] <= Place[s]}
           B == {q \in S : Place[q] < Place[t]}
<1>1. A \subseteq B /\ B \subseteq S /\ s \in B /\ s \notin A
  <2>1. \A q \in S : Place[q] <= Place[s] => Place[q] < Place[t]
    BY PlaceIsNat
  <2>2. QED
    BY <2>1
<1> HIDE DEF A, B
<1>2. Cardinality(A) < Cardinality(B)
  BY <1>1, Fewer
<1>3. QED
  BY <1>2 DEF High, Low, A, B

(* The first rows of a query: those that must be among them are, and those *)
(* that cannot be are not. *)
LEMMA FirstsPlaces ==
    ASSUME NEW S \in SUBSET Split, NEW n \in Nat, NEW P \in Firsts(S, n), NEW s \in S
    PROVE  /\ s \in P => Low(S, s) < n
           /\ s \notin P => n <= High(S, s)
<1>1. /\ P \subseteq S /\ Cardinality(P) = LeastOf(n, Cardinality(S))
      /\ \A r \in P, q \in S \ P : Place[r] <= Place[q]
  BY DEF Firsts
<1>2. Cardinality(P) \in Nat /\ Cardinality(S) \in Nat /\ (P # S => Cardinality(P) < Cardinality(S))
  BY <1>1, Fewer
<1>3. s \in P => Low(S, s) < n
  <2> SUFFICES ASSUME s \in P PROVE Low(S, s) < n
    OBVIOUS
  <2> DEFINE A == {q \in S : Place[q] < Place[s]}
  <2>1. A \subseteq P /\ s \notin A
    <3>1. \A q \in S \ P : ~(Place[q] < Place[s])
      BY <1>1, PlaceIsNat
    <3>2. ~(Place[s] < Place[s])
      BY PlaceIsNat
    <3>3. QED
      BY <3>1, <3>2
  <2> HIDE DEF A
  <2>2. Cardinality(A) \in Nat /\ Cardinality(A) < Cardinality(P)
    BY <1>1, <2>1, Fewer
  <2>3. Low(S, s) = Cardinality(A)
    BY DEF Low, A
  <2>4. QED
    BY <1>1, <1>2, <2>2, <2>3 DEF LeastOf
<1>4. s \notin P => n <= High(S, s)
  <2> SUFFICES ASSUME s \notin P PROVE n <= High(S, s)
    OBVIOUS
  <2> DEFINE A == {q \in S \ {s} : Place[q] <= Place[s]}
  <2>1. P \subseteq A /\ A \subseteq S
    BY <1>1
  <2> HIDE DEF A
  <2>2. Cardinality(A) \in Nat /\ Cardinality(P) <= Cardinality(A)
    BY <2>1, Fewer
  <2>3. Cardinality(P) = n
    BY <1>1, <1>2 DEF LeastOf
  <2>4. High(S, s) = Cardinality(A)
    BY DEF High, A
  <2>5. QED
    BY <2>2, <2>3, <2>4
<1>5. QED
  BY <1>3, <1>4

LEMMA LeastNumber ==
    ASSUME NEW N \in SUBSET Nat, N # {}
    PROVE  \E m \in N : \A k \in N : m <= k
<1>1. PICK m \in N : \A k \in N : ~(<<k, m>> \in OpToRel(<, Nat))
  BY NatLessThanWellFounded, WFMin
<1>2. ASSUME NEW k \in N PROVE ~(k < m)
  <2>1. <<k, m>> \in Nat \X Nat /\ <<k, m>>[1] = k /\ <<k, m>>[2] = m
    OBVIOUS
  <2>2. QED
    BY <1>1, <2>1, Zenon DEF OpToRel
<1>3. \A k \in N : k \in Nat /\ (k < m \/ m <= k)
  OBVIOUS
<1>4. QED
  BY <1>2, <1>3

(* A page has a first and a last row. *)
LEMMA Extremes ==
    ASSUME NEW P \in SUBSET Split, P # {}
    PROVE  /\ \E c \in P : \A r \in P : Place[c] <= Place[r]
           /\ \E c \in P : \A r \in P : Place[r] <= Place[c]
<1>1. \A s \in P : Place[s] \in Nat
  BY PlaceIsNat
<1>2. \E c \in P : \A r \in P : Place[c] <= Place[r]
  <2> DEFINE N == {Place[s] : s \in P}
  <2>1. N \in SUBSET Nat
    BY <1>1
  <2>2. N # {}
    OBVIOUS
  <2> HIDE DEF N
  <2>3. \E m \in N : \A k \in N : m <= k
    BY <2>1, <2>2, LeastNumber
  <2>4. QED
    BY <2>3 DEF N
<1>3. \E c \in P : \A r \in P : Place[r] <= Place[c]
  <2> DEFINE Over(s) == {q \in P : Place[q] > Place[s]}
             N == {Cardinality(Over(s)) : s \in P}
  <2>1. \A s \in P : Cardinality(Over(s)) \in Nat
    <3> SUFFICES ASSUME NEW s \in P PROVE Cardinality(Over(s)) \in Nat
      OBVIOUS
    <3>1. Over(s) \in SUBSET P
      OBVIOUS
    <3> HIDE DEF Over
    <3>2. QED
      BY <3>1, Fewer
  <2>2. N \in SUBSET Nat
    BY <2>1
  <2>3. N # {}
    OBVIOUS
  <2> HIDE DEF N
  <2>5. \E m \in N : \A k \in N : m <= k
    BY <2>2, <2>3, LeastNumber
  <2>6. PICK c \in P : \A r \in P : Cardinality(Over(c)) <= Cardinality(Over(r))
    BY <2>5 DEF N
  <2>7. ASSUME NEW r \in P, ~(Place[r] <= Place[c]) PROVE FALSE
    <3>1. \A q \in P : Place[q] > Place[r] => Place[q] > Place[c]
      BY <1>1, <2>7
    <3>2. Place[r] > Place[c] /\ ~(Place[r] > Place[r])
      BY <1>1, <2>7
    <3>3. Over(r) \subseteq Over(c) /\ r \in Over(c) /\ r \notin Over(r) /\ Over(c) \subseteq P
      BY <3>1, <3>2
    <3> HIDE DEF Over
    <3>4. Cardinality(Over(r)) < Cardinality(Over(c))
      BY <3>3, Fewer
    <3>5. QED
      BY <2>1, <2>6, <3>4
  <2>8. QED
    BY <2>7
<1>4. QED
  BY <1>2, <1>3

-----------------------------------------------------------------------------
(* Stretches of a register: sets that miss no row between two of theirs    *)
(* that ties with no other, their ends, and a row that a query may give a  *)
(* number. *)
Gapless(W, S) ==
    /\ W \subseteq S
    /\ \A s \in S :
         (/\ Untied(S, s)
          /\ \E r, t \in W : Place[r] < Place[s] /\ Place[s] < Place[t]) => s \in W
Lowest(W, S) == \A s \in S : \E r \in W : Place[r] <= Place[s]
Highest(W, S) == \A s \in S : \E r \in W : Place[s] <= Place[r]
HasRank(W, S, n) == \E c \in W : AtRank(S, c, n)

LEMMA Joined ==
    ASSUME NEW S \in SUBSET Split, NEW A, NEW B, Gapless(A, S), Gapless(B, S),
           NEW c \in A, c \in B
    PROVE  Gapless(A \cup B, S)
<1> SUFFICES ASSUME NEW s \in S, Untied(S, s), NEW r \in A \cup B, NEW t \in A \cup B,
                    Place[r] < Place[s], Place[s] < Place[t]
             PROVE  s \in A \cup B
  BY DEF Gapless
<1>1. c \in S /\ Place[s] \in Nat /\ Place[c] \in Nat
  BY PlaceIsNat DEF Gapless
<1>2. Place[s] < Place[c] \/ s = c \/ Place[c] < Place[s]
  BY <1>1 DEF Untied
<1>3. CASE Place[s] < Place[c]
  BY <1>3 DEF Gapless
<1>4. CASE Place[c] < Place[s]
  BY <1>4 DEF Gapless
<1>5. QED
  BY <1>2, <1>3, <1>4

(* The rows of a page that starts inside the register: how many they are,  *)
(* where the first and the last of them stand, and which are among them. *)
LEMMA StretchPlaces ==
    ASSUME NEW S \in SUBSET Split, NEW off \in Nat, NEW lim \in Nat,
           off < Cardinality(S), lim > 0, NEW P \in Stretches(S, off, lim),
           NEW hi \in Nat, LeastOf(off + lim, Cardinality(S)) = hi + 1
    PROVE  /\ off <= hi /\ hi < Cardinality(S)
           /\ P \subseteq S /\ P # {} /\ Cardinality(P) = hi - off + 1
           /\ \A r \in P : off <= High(S, r) /\ Low(S, r) <= hi
           /\ \A s \in S : Untied(S, s) /\ off <= Low(S, s) /\ Low(S, s) <= hi => s \in P
           /\ HasRank(P, S, off) /\ HasRank(P, S, hi)
           /\ off = 0 => Lowest(P, S)
           /\ hi = Cardinality(S) - 1 => Highest(P, S)
<1> DEFINE total == Cardinality(S)
<1>1. total \in Nat
  BY Fewer
<1>2. /\ hi \in Nat /\ off <= hi /\ hi < total /\ hi < off + lim
      /\ LeastOf(off + lim, total) = hi + 1 /\ LeastOf(off, total) = off
      /\ off + lim \in Nat
  BY <1>1 DEF LeastOf, total
<1>3. PICK B \in Firsts(S, off), T \in Firsts(S, off + lim) : B \subseteq T /\ P = T \ B
  BY DEF Stretches
<1>4. /\ T \subseteq S /\ B \subseteq S /\ P \subseteq S
      /\ Cardinality(T) = LeastOf(off + lim, total) /\ Cardinality(B) = LeastOf(off, total)
      /\ \A r \in B, q \in S \ B : Place[r] <= Place[q]
      /\ \A r \in T, q \in S \ T : Place[r] <= Place[q]
  BY <1>3 DEF Firsts
<1> HIDE DEF total
<1>5. Cardinality(T) = hi + 1 /\ Cardinality(B) = off
  BY <1>2, <1>4
<1>6. /\ IsFiniteSet(B) /\ IsFiniteSet(P) /\ Cardinality(P) \in Nat
  BY <1>4, Fewer
<1>7. Cardinality(P) = hi - off + 1
  <2>1. Cardinality(B \cup P) = Cardinality(B) + Cardinality(P) - Cardinality(B \cap P)
    BY <1>6, FS_Union
  <2>2. B \cup P = T /\ B \cap P = {}
    BY <1>3
  <2>3. Cardinality(B \cap P) = 0
    BY <2>2, FS_EmptySet
  <2>4. Cardinality(T) = Cardinality(B) + Cardinality(P) - 0
    BY <2>1, <2>2, <2>3
  <2>5. QED
    BY <1>5, <1>6, <2>4
<1>8. P # {}
  BY <1>2, <1>7, FS_EmptySet
<1>9. \A s \in S : /\ Low(S, s) \in Nat /\ High(S, s) \in Nat /\ Low(S, s) <= High(S, s)
                   /\ High(S, s) < total /\ (Untied(S, s) => Low(S, s) = High(S, s))
  BY RowPlaces DEF total
<1>10. \A s \in S : /\ s \in B => Low(S, s) < off
                    /\ s \notin B => off <= High(S, s)
                    /\ s \notin T => off + lim <= High(S, s)
  BY <1>2, <1>3, FirstsPlaces
<1>11. \A s \in T : Low(S, s) <= hi
  <2> SUFFICES ASSUME NEW s \in T PROVE Low(S, s) <= hi
    OBVIOUS
  <2>1. Low(S, s) < off + lim /\ Low(S, s) < total /\ Low(S, s) \in Nat
    BY <1>1, <1>2, <1>3, <1>4, <1>9, FirstsPlaces
  <2>2. QED
    BY <1>1, <1>2, <2>1 DEF LeastOf
<1>12. \A r \in P : off <= High(S, r) /\ Low(S, r) <= hi
  BY <1>3, <1>4, <1>10, <1>11
<1>13. ASSUME NEW s \in S, Untied(S, s), off <= Low(S, s), Low(S, s) <= hi
       PROVE  s \in P
  <2>1. s \notin B
    BY <1>9, <1>10, <1>13
  <2>2. s \in T
    BY <1>2, <1>9, <1>10, <1>13
  <2>3. QED
    BY <1>3, <2>1, <2>2
<1>14. HasRank(P, S, off)
  <2>1. PICK c \in P : \A r \in P : Place[c] <= Place[r]
    BY <1>4, <1>8, Extremes
  <2> DEFINE A == {q \in S : Place[q] < Place[c]}
  <2>2. A \subseteq B
    <3>1. \A q \in S : Place[q] < Place[c] => q \in T /\ q \notin P
      BY <1>3, <1>4, <2>1, PlaceIsNat
    <3>2. QED
      BY <1>3, <3>1
  <2> HIDE DEF A
  <2>3. Cardinality(A) <= Cardinality(B)
    BY <1>4, <2>2, Fewer
  <2>4. Low(S, c) <= off
    BY <1>5, <2>3 DEF Low, A
  <2>5. QED
    BY <1>12, <2>4 DEF HasRank, AtRank
<1>15. HasRank(P, S, hi)
  <2>1. PICK c \in P : \A r \in P : Place[r] <= Place[c]
    BY <1>4, <1>8, Extremes
  <2> DEFINE A == {q \in S \ {c} : Place[q] <= Place[c]}
  <2>2. T \ {c} \subseteq A /\ A \subseteq S
    BY <1>3, <1>4, <2>1
  <2> HIDE DEF A
  <2>3. Cardinality(T \ {c}) <= Cardinality(A)
    BY <2>2, Fewer
  <2>4. IsFiniteSet(T) /\ c \in T
    BY <1>3, <1>4, Fewer
  <2>5. Cardinality(T \ {c}) = Cardinality(T) - 1
    BY <2>4, FS_RemoveElement
  <2>6. hi <= High(S, c)
    BY <1>2, <1>5, <2>3, <2>5 DEF High, A
  <2>7. QED
    BY <1>12, <2>6 DEF HasRank, AtRank
<1>16. off = 0 => Lowest(P, S)
  <2> SUFFICES ASSUME off = 0, NEW s \in S PROVE \E r \in P : Place[r] <= Place[s]
    BY DEF Lowest
  <2>1. B = {}
    BY <1>5, <1>6, FS_EmptySet
  <2>2. CASE s \in T
    BY <1>3, <2>1, <2>2, PlaceIsNat
  <2>3. CASE s \notin T
    BY <1>3, <1>4, <1>8, <2>3
  <2>4. QED
    BY <2>2, <2>3
<1>17. hi = total - 1 => Highest(P, S)
  <2> SUFFICES ASSUME hi = total - 1, NEW s \in S PROVE \E r \in P : Place[s] <= Place[r]
    BY DEF Highest
  <2>1. T = S
    <3>1. Cardinality(T) = Cardinality(S)
      BY <1>1, <1>2, <1>5 DEF total
    <3>2. T # S => Cardinality(T) < Cardinality(S)
      BY <1>4, Fewer
    <3>3. QED
      BY <1>1, <3>1, <3>2 DEF total
  <2>2. CASE s \in B
    BY <1>3, <1>4, <1>8, <2>2
  <2>3. CASE s \notin B
    BY <1>3, <2>1, <2>3, PlaceIsNat
  <2>4. QED
    BY <2>2, <2>3
<1>18. \A s \in S : Untied(S, s) /\ off <= Low(S, s) /\ Low(S, s) <= hi => s \in P
  BY <1>13
<1>19. QED
  BY <1>2, <1>4, <1>7, <1>8, <1>12, <1>14, <1>15, <1>16, <1>17, <1>18 DEF total

(* Such rows, with the row before the first or after the last of them. *)
LEMMA StretchGapless ==
    ASSUME NEW S \in SUBSET Split, NEW P \in SUBSET S, NEW lo \in Nat, NEW hi \in Nat, lo <= hi,
           \A r \in P : lo <= High(S, r) /\ Low(S, r) <= hi,
           \A s \in S : Untied(S, s) /\ lo <= Low(S, s) /\ Low(S, s) <= hi => s \in P
    PROVE  /\ Gapless(P, S)
           /\ \A c \in S : AtRank(S, c, hi + 1) \/ AtRank(S, c, lo - 1) =>
                  Gapless(P \cup {c}, S)
<1>1. \A s \in S : /\ Low(S, s) \in Nat /\ High(S, s) \in Nat /\ Low(S, s) <= High(S, s)
                   /\ Place[s] \in Nat
  BY RowPlaces, PlaceIsNat
<1>2. \A s, t \in S : Place[s] < Place[t] => High(S, s) < Low(S, t)
  BY RowOrder
<1>3. Gapless(P, S)
  <2> SUFFICES ASSUME NEW s \in S, Untied(S, s), NEW r \in P, NEW t \in P,
                      Place[r] < Place[s], Place[s] < Place[t]
               PROVE  s \in P
    BY DEF Gapless
  <2>1. High(S, r) < Low(S, s) /\ High(S, s) < Low(S, t)
    BY <1>2
  <2>2. lo <= Low(S, s) /\ Low(S, s) <= hi
    BY <1>1, <2>1
  <2>3. QED
    BY <2>2
<1>4. ASSUME NEW c \in S, AtRank(S, c, hi + 1) \/ AtRank(S, c, lo - 1)
      PROVE  Gapless(P \cup {c}, S)
  <2> SUFFICES ASSUME NEW s \in S, Untied(S, s), NEW r \in P \cup {c}, NEW t \in P \cup {c},
                      Place[r] < Place[s], Place[s] < Place[t]
               PROVE  s \in P
    BY DEF Gapless
  <2>1. High(S, r) < Low(S, s) /\ High(S, s) < Low(S, t) /\ r # t
    BY <1>1, <1>2
  <2>2. CASE r \in P /\ t \in P
    BY <1>1, <2>1, <2>2
  <2>3. CASE r = c /\ t \in P
    <3>1. Low(S, t) <= hi /\ lo - 1 <= High(S, c)
      BY <1>1, <1>4, <2>3 DEF AtRank
    <3>2. lo <= Low(S, s) /\ Low(S, s) <= hi
      BY <1>1, <2>1, <2>3, <3>1
    <3>3. QED
      BY <3>2
  <2>4. CASE r \in P /\ t = c
    <3>1. lo <= High(S, r) /\ Low(S, c) <= hi + 1
      BY <1>1, <1>4, <2>1, <2>4 DEF AtRank
    <3>2. lo <= Low(S, s) /\ Low(S, s) <= hi
      BY <1>1, <2>1, <2>4, <3>1
    <3>3. QED
      BY <3>2
  <2>5. QED
    BY <2>1, <2>2, <2>3, <2>4
<1>5. QED
  BY <1>3, <1>4

(* A page as the server answers it: none by its limit, or one whose ends   *)
(* are where its offsets say. *)
LEMMA PageInside ==
    ASSUME NEW S \in SUBSET Split, NEW off \in Nat, NEW lim \in Nat,
           off < Cardinality(S), lim > 0, NEW p \in PagesAt(S, off, lim)
    PROVE  LET hi == LeastOf(off + lim, Cardinality(S)) - 1
               P == p.splits
           IN  /\ hi \in Nat /\ off <= hi /\ hi < Cardinality(S)
               /\ p.before = (off > 0) /\ p.after = (hi < Cardinality(S) - 1)
               /\ p.first = off /\ p.last = hi
               /\ P # {} /\ Gapless(P, S) /\ HasRank(P, S, off) /\ HasRank(P, S, hi)
               /\ off = 0 => Lowest(P, S)
               /\ hi = Cardinality(S) - 1 => Highest(P, S)
               /\ \A c \in S : AtRank(S, c, hi + 1) \/ AtRank(S, c, off - 1) =>
                      Gapless(P \cup {c}, S)
<1> DEFINE hi == LeastOf(off + lim, Cardinality(S)) - 1
<1>1. PICK P \in Stretches(S, off, lim) : p = PageOf(S, off, P)
  BY DEF PagesAt
<1>0. hi \in Nat /\ LeastOf(off + lim, Cardinality(S)) = hi + 1
  <2>1. Cardinality(S) \in Nat
    BY Fewer
  <2>2. QED
    BY <2>1 DEF LeastOf
<1>2. /\ off <= hi /\ hi < Cardinality(S)
      /\ P \subseteq S /\ P # {} /\ Cardinality(P) = hi - off + 1
      /\ \A r \in P : off <= High(S, r) /\ Low(S, r) <= hi
      /\ \A s \in S : Untied(S, s) /\ off <= Low(S, s) /\ Low(S, s) <= hi => s \in P
      /\ HasRank(P, S, off) /\ HasRank(P, S, hi)
      /\ off = 0 => Lowest(P, S)
      /\ hi = Cardinality(S) - 1 => Highest(P, S)
  BY <1>0, StretchPlaces
<1> HIDE DEF hi
<1>3. /\ Gapless(P, S)
      /\ \A c \in S : AtRank(S, c, hi + 1) \/ AtRank(S, c, off - 1) => Gapless(P \cup {c}, S)
  BY <1>0, <1>2, StretchGapless
<1>4. p = [splits |-> P, before |-> off > 0, after |-> hi < Cardinality(S) - 1,
           first |-> off, last |-> hi]
  <2>1. off + Cardinality(P) - 1 = hi
    BY <1>0, <1>2
  <2>2. QED
    BY <1>1, <1>2, <2>1 DEF PageOf
<1>5. /\ p.splits = P /\ p.before = (off > 0) /\ p.after = (hi < Cardinality(S) - 1)
      /\ p.first = off /\ p.last = hi
  BY <1>4
<1>6. QED
  BY <1>0, <1>2, <1>3, <1>5 DEF hi

(* What a window says of itself, and what a page under way will add to it. *)
Placed(W, S, before, after, first, last) ==
    /\ Gapless(W, S)
    /\ before \/ Lowest(W, S)
    /\ after \/ Highest(W, S)
    /\ W # {} => HasRank(W, S, first) /\ HasRank(W, S, last)
Joins(p, how, c, S) ==
    /\ Gapless(p.splits \cup {c}, S)
    /\ how = "before" => IF p.splits = {} THEN Lowest({c}, S)
                         ELSE /\ p.before \/ Lowest(p.splits, S)
                              /\ HasRank(p.splits, S, p.first)
    /\ how = "after" => IF p.splits = {} THEN Highest({c}, S)
                        ELSE /\ p.after \/ Highest(p.splits, S)
                             /\ HasRank(p.splits, S, p.last)

(* A load answers a window; with pages of one row a load could find none:  *)
(* the code's pages have fifty. *)
LEMMA AroundPlaced ==
    ASSUME PageSize > 1, NEW S \in SUBSET Split, NEW date \in Nat, NEW p \in Around(S, date)
    PROVE  Placed(p.splits, S, p.before, p.after, p.first, p.last)
<1> DEFINE off == NonNeg(CountBefore(S, date) - (PageSize * 3) \div 4)
           total == Cardinality(S)
<1>1. PageSize \in Nat /\ (PageSize * 3) \div 4 \in Nat /\ (PageSize * 3) \div 4 >= 1
  BY RegAssumption
<1>2. /\ total \in Nat /\ IsFiniteSet(S)
      /\ CountBefore(S, date) \in Nat /\ CountBefore(S, date) <= total
  BY CountIsNat, Fewer
<1>3. off \in Nat /\ (total > 0 => off < total) /\ (total = 0 => off = 0)
  BY <1>1, <1>2 DEF NonNeg
<1>4. p \in PagesAt(S, off, PageSize)
  BY DEF Around
<1> HIDE DEF off
<1>5. CASE total > 0
  <2> DEFINE hi == LeastOf(off + PageSize, total) - 1
             P == p.splits
  <2>0. off < Cardinality(S) /\ PageSize > 0
    BY <1>1, <1>3, <1>5
  <2>1. /\ hi \in Nat /\ off <= hi /\ hi < Cardinality(S)
        /\ p.before = (off > 0) /\ p.after = (hi < Cardinality(S) - 1)
        /\ p.first = off /\ p.last = hi
        /\ P # {} /\ Gapless(P, S) /\ HasRank(P, S, off) /\ HasRank(P, S, hi)
        /\ off = 0 => Lowest(P, S)
        /\ hi = Cardinality(S) - 1 => Highest(P, S)
    BY <1>1, <1>3, <1>4, <2>0, PageInside
  <2>2. (off > 0 \/ off = 0) /\ (hi < Cardinality(S) - 1 \/ hi = Cardinality(S) - 1)
    BY <1>2, <1>3, <2>1
  <2> HIDE DEF hi
  <2>3. QED
    BY <2>1, <2>2 DEF Placed
<1>6. CASE total = 0
  <2>1. S = {}
    BY <1>2, <1>6, FS_EmptySet
  <2>2. p.splits = {}
    BY <1>1, <1>3, <1>4, <2>1, PageTyped
  <2>3. QED
    BY <2>1, <2>2 DEF Placed, Gapless, Lowest, Highest
<1>7. QED
  BY <1>2, <1>5, <1>6

(* A page before or after a row of the register joins it. *)
LEMMA Ends ==
    ASSUME NEW S \in SUBSET Split, NEW c \in S
    PROVE  /\ Gapless({} \cup {c}, S)
           /\ AtRank(S, c, 0) => Lowest({c}, S)
           /\ AtRank(S, c, Cardinality(S) - 1) => Highest({c}, S)
<1>1. \A s \in S : Place[s] \in Nat /\ Low(S, s) \in Nat /\ High(S, s) \in Nat
                   /\ Low(S, s) <= High(S, s) /\ High(S, s) < Cardinality(S)
  BY RowPlaces, PlaceIsNat
<1>2. \A s, t \in S : Place[s] < Place[t] => High(S, s) < Low(S, t)
  BY RowOrder
<1>3. Gapless({} \cup {c}, S)
  BY <1>1 DEF Gapless
<1>4. AtRank(S, c, 0) => Lowest({c}, S)
  <2> SUFFICES ASSUME AtRank(S, c, 0), NEW s \in S PROVE Place[c] <= Place[s]
    BY DEF Lowest
  <2>1. ~(Place[s] < Place[c])
    BY <1>1, <1>2 DEF AtRank
  <2>2. QED
    BY <1>1, <2>1
<1>5. AtRank(S, c, Cardinality(S) - 1) => Highest({c}, S)
  <2> SUFFICES ASSUME AtRank(S, c, Cardinality(S) - 1), NEW s \in S PROVE Place[s] <= Place[c]
    BY DEF Highest
  <2>1. Cardinality(S) \in Nat
    BY RowPlaces
  <2>2. ~(Place[c] < Place[s])
    BY <1>1, <1>2, <2>1 DEF AtRank
  <2>3. QED
    BY <1>1, <2>2
<1>6. QED
  BY <1>3, <1>4, <1>5

LEMMA BeforeJoins ==
    ASSUME NEW S \in SUBSET Split, NEW c \in S, NEW cur \in Nat, AtRank(S, c, cur),
           NEW p \in Before(S, cur)
    PROVE  Joins(p, "before", c, S)
<1> DEFINE off == IF cur < PageSize THEN 0 ELSE cur - PageSize
           lim == IF cur < PageSize THEN cur ELSE PageSize
<1>1. /\ PageSize \in Nat \ {0} /\ Cardinality(S) \in Nat /\ cur < Cardinality(S)
  BY RegAssumption, RowPlaces DEF AtRank
<1>2. p \in PagesAt(S, off, lim)
  BY DEF Before
<1>3. off \in Nat /\ lim \in Nat /\ off + lim = cur /\ (lim = 0 <=> cur = 0)
  BY <1>1
<1> HIDE DEF off, lim
<1>4. CASE cur = 0
  <2>1. p = [NoPage EXCEPT !.before = off > 0, !.after = off < Cardinality(S)]
    BY <1>2, <1>3, <1>4 DEF PagesAt
  <2>2. p.splits = {}
    BY <2>1 DEF NoPage
  <2>3. QED
    BY <1>4, <2>2, Ends DEF Joins
<1>5. CASE cur # 0
  <2> DEFINE hi == LeastOf(off + lim, Cardinality(S)) - 1
             P == p.splits
  <2>0. lim > 0 /\ off < Cardinality(S)
    BY <1>1, <1>3, <1>5
  <2>1. /\ hi \in Nat /\ p.before = (off > 0) /\ p.first = off
        /\ P # {} /\ HasRank(P, S, off) /\ (off = 0 => Lowest(P, S))
        /\ AtRank(S, c, hi + 1) => Gapless(P \cup {c}, S)
    BY <1>2, <1>3, <2>0, PageInside
  <2>2. cur = hi + 1
    BY <1>1, <1>3 DEF LeastOf
  <2> HIDE DEF hi
  <2>3. off > 0 \/ off = 0
    BY <1>3
  <2>4. QED
    BY <2>1, <2>2, <2>3 DEF Joins
<1>6. QED
  BY <1>4, <1>5

LEMMA AfterJoins ==
    ASSUME NEW S \in SUBSET Split, NEW c \in S, NEW cur \in Nat, AtRank(S, c, cur),
           NEW p \in After(S, cur)
    PROVE  Joins(p, "after", c, S)
<1> DEFINE off == cur + 1
<1>1. /\ PageSize \in Nat \ {0} /\ Cardinality(S) \in Nat /\ cur < Cardinality(S)
      /\ p \in PagesAt(S, off, PageSize)
  BY RegAssumption, RowPlaces DEF AtRank, After
<1>2. off \in Nat /\ off - 1 = cur /\ PageSize > 0 /\ PageSize \in Nat
  BY <1>1
<1> HIDE DEF off
<1>3. CASE off = Cardinality(S)
  <2>1. PICK P \in Stretches(S, off, PageSize) : p = PageOf(S, off, P)
    BY <1>1, <1>2 DEF PagesAt
  <2>2. PICK B \in Firsts(S, off) : P \subseteq S /\ P = P \ B
    BY <2>1 DEF Stretches
  <2>3. B \subseteq S /\ Cardinality(B) = Cardinality(S)
    BY <1>1, <1>3, <2>2 DEF Firsts, LeastOf
  <2>4. B = S
    <3>1. B # S => Cardinality(B) < Cardinality(S)
      BY <2>3, Fewer
    <3>2. QED
      BY <1>1, <2>3, <3>1
  <2>5. p.splits = {}
    BY <2>1, <2>2, <2>4 DEF PageOf
  <2>6. Gapless({} \cup {c}, S) /\ Highest({c}, S)
    BY <1>1, <1>2, <1>3, Ends
  <2>7. QED
    BY <2>5, <2>6 DEF Joins
<1>4. CASE off # Cardinality(S)
  <2> DEFINE hi == LeastOf(off + PageSize, Cardinality(S)) - 1
             P == p.splits
  <2>0. off < Cardinality(S)
    BY <1>1, <1>2, <1>4
  <2>1. /\ hi \in Nat /\ hi < Cardinality(S) /\ p.after = (hi < Cardinality(S) - 1)
        /\ p.last = hi
        /\ P # {} /\ HasRank(P, S, hi) /\ (hi = Cardinality(S) - 1 => Highest(P, S))
        /\ AtRank(S, c, off - 1) => Gapless(P \cup {c}, S)
    BY <1>1, <1>2, <2>0, PageInside
  <2>2. hi < Cardinality(S) - 1 \/ hi = Cardinality(S) - 1
    BY <1>1, <2>1
  <2> HIDE DEF hi
  <2>3. QED
    BY <1>2, <2>1, <2>2 DEF Joins
<1>5. QED
  BY <1>3, <1>4

(* The window with such a page. *)
LEMMA WindowJoined ==
    ASSUME NEW S \in SUBSET Split, NEW W, NEW before, NEW after, NEW first, NEW last,
           Placed(W, S, before, after, first, last),
           NEW p, NEW c \in W
    PROVE  /\ Joins(p, "before", c, S) =>
                IF p.splits = {} THEN Placed(W, S, FALSE, after, first, last)
                ELSE Placed(W \cup p.splits, S, p.before, after, p.first, last)
           /\ Joins(p, "after", c, S) =>
                IF p.splits = {} THEN Placed(W, S, before, FALSE, first, last)
                ELSE Placed(W \cup p.splits, S, before, p.after, first, p.last)
<1> DEFINE V == W \cup p.splits
<1>1. W \subseteq S
  BY DEF Placed, Gapless
<1>2. Gapless(p.splits \cup {c}, S) => Gapless(V, S)
  <2> SUFFICES ASSUME Gapless(p.splits \cup {c}, S) PROVE Gapless(V, S)
    OBVIOUS
  <2>1. Gapless(W, S)
    BY DEF Placed
  <2>2. c \in p.splits \cup {c}
    OBVIOUS
  <2>3. Gapless(W \cup (p.splits \cup {c}), S)
    BY <1>1, <2>1, <2>2, Joined
  <2>4. W \cup (p.splits \cup {c}) = V
    OBVIOUS
  <2>5. QED
    BY <2>3, <2>4
<1>3. /\ \A n : HasRank(W, S, n) \/ HasRank(p.splits, S, n) => HasRank(V, S, n)
      /\ Lowest(W, S) \/ Lowest(p.splits, S) => Lowest(V, S)
      /\ Highest(W, S) \/ Highest(p.splits, S) => Highest(V, S)
      /\ Lowest({c}, S) => Lowest(W, S)
      /\ Highest({c}, S) => Highest(W, S)
  BY DEF HasRank, Lowest, Highest
<1> HIDE DEF V
<1>4. ASSUME Joins(p, "before", c, S)
      PROVE  IF p.splits = {} THEN Placed(W, S, FALSE, after, first, last)
             ELSE Placed(V, S, p.before, after, p.first, last)
  BY <1>2, <1>3, <1>4 DEF Joins, Placed
<1>5. ASSUME Joins(p, "after", c, S)
      PROVE  IF p.splits = {} THEN Placed(W, S, before, FALSE, first, last)
             ELSE Placed(V, S, before, p.after, first, p.last)
  BY <1>2, <1>3, <1>5 DEF Joins, Placed
<1>6. QED
  BY <1>4, <1>5 DEF V
-----------------------------------------------------------------------------
(* The window.  While nothing raced, a load is the only page request under *)
(* way, and it is for the account of the route; pages before and after are *)
(* for the account that is shown.  If the window is of the books as they   *)
(* are, it is a stretch of the register, and every page under way starts   *)
(* at one of its rows and, once it is read, joins the window there. *)
Ordered ==
    /\ \A i, j \in Slot : regNet[i].kind = "load" /\ regNet[j].kind \in Paging => i = j
    /\ \A i \in Slot : regNet[i].kind = "load" => reg.loading /\ regNet[i].acct = reg.id
    /\ \A i \in Slot : regNet[i].kind = "more" =>
           regNet[i].acct = reg.account /\ regNet[i].how \in {"before", "after"}
    /\ reg.loading \/ reg.account = reg.id
RegFits == Placed(Window, Now, reg.hasBefore, reg.hasAfter, reg.first, reg.last)
Continues(i) ==
    /\ HasRank(Window, Now, regNet[i].cur)
    /\ regNet[i].done => \E c \in Window : Joins(regNet[i].page, regNet[i].how, c, Now)
Opens(i) ==
    LET p == regNet[i].page
    IN  Placed(p.splits, Register(regBook, regNet[i].acct), p.before, p.after, p.first, p.last)
Shown == Current /\ reg.account # NoAccount
Stretched ==
    /\ Shown => RegFits /\ \A i \in Slot : regNet[i].kind = "more" => Continues(i)
    /\ \A i \in Slot : Done(i, "load") /\ regNet[i].ver = regBook.ver => Opens(i)
Versions == reg.ver <= regBook.ver /\ \A i \in Slot : regNet[i].ver <= regBook.ver
PlaceInv == Versions /\ (reg.calm => Ordered /\ Stretched)

(* The fields of the component that place the window. *)
SamePlace(r, q) ==
    /\ r.copies = q.copies /\ r.hasBefore = q.hasBefore /\ r.hasAfter = q.hasAfter
    /\ r.first = q.first /\ r.last = q.last /\ r.account = q.account /\ r.ver = q.ver

LEMMA VersionTypes ==
    ASSUME RegInv
    PROVE  /\ reg.ver \in Nat /\ regBook.ver \in Nat /\ \A i \in Slot : regNet[i].ver \in Nat
           /\ reg \in Component /\ Sound(regNet) /\ regBook \in Book
           /\ \A i \in Slot : regNet[i] \in Request
           /\ \A a : Register(regBook, a) \in SUBSET Split
BY DEF RegInv, Own, Component, Sound, Request, Book, Register

(* A step that asks for no page, and leaves the window as it is, in the    *)
(* same books or in later ones. *)
LEMMA NothingMoved ==
    ASSUME RegInv, PlaceInv,
           reg'.calm => reg.calm, SamePlace(reg', reg),
           reg'.id = reg.id, reg'.loading = reg.loading,
           regBook'.ver \in Nat,
           \/ regBook'.splits = regBook.splits /\ regBook'.ver = regBook.ver
           \/ regBook'.ver > regBook.ver,
           \A i \in Slot : regNet'[i].kind \in Paging => regNet'[i] = regNet[i],
           \A i \in Slot : regNet'[i].ver <= regBook'.ver
    PROVE  PlaceInv'
<1>1. Versions'
  BY VersionTypes DEF PlaceInv, Versions, SamePlace
<1> SUFFICES ASSUME reg'.calm PROVE Ordered' /\ Stretched'
  BY <1>1 DEF PlaceInv
<1>2. Ordered /\ Stretched /\ Versions
  BY DEF PlaceInv
<1>3. \A i \in Slot : regNet'[i].kind \in {"load", "more"} => regNet'[i] = regNet[i]
  BY DEF Paging
<1>4. Ordered'
  BY <1>2, <1>3 DEF Ordered, Paging, SamePlace
<1>5. CASE regBook'.splits = regBook.splits /\ regBook'.ver = regBook.ver
  <2>1. /\ Window' = Window /\ Now' = Now /\ Shown' = Shown
        /\ \A a : Register(regBook, a)' = Register(regBook, a)
    BY <1>5 DEF Window, Now, Shown, Current, Register, SamePlace
  <2>2. \A i \in Slot : regNet'[i] = regNet[i] =>
            (Continues(i) => Continues(i)') /\ (Opens(i) => Opens(i)')
    BY <2>1 DEF Continues, Opens
  <2>3. Shown' => RegFits'
    BY <1>2, <2>1 DEF Stretched, SamePlace, RegFits
  <2>4. Shown' => \A i \in Slot : regNet'[i].kind = "more" => Continues(i)'
    BY <1>2, <1>3, <2>1, <2>2 DEF Stretched
  <2>5. \A i \in Slot : Done(i, "load")' /\ regNet'[i].ver = regBook'.ver => Opens(i)'
    BY <1>2, <1>3, <1>5, <2>2 DEF Stretched, Done
  <2>6. QED
    BY <1>4, <2>3, <2>4, <2>5 DEF Stretched
<1>6. CASE regBook'.ver > regBook.ver
  <2>1. ~Shown'
    BY <1>2, <1>6, VersionTypes DEF Shown, Current, Versions, SamePlace
  <2>2. \A i \in Slot : Done(i, "load")' => regNet'[i].ver # regBook'.ver
    BY <1>2, <1>3, <1>6, VersionTypes DEF Versions, Done
  <2>3. QED
    BY <1>4, <2>1, <2>2 DEF Stretched
<1>7. QED
  BY <1>5, <1>6

(* A load is started, alone. *)
LEMMA LoadStarted ==
    ASSUME RegInv, PlaceInv, SamePlace(reg', reg), regBook' = regBook,
           reg'.calm => reg.calm /\ reg'.loading, NEW q, NEW f,
           q.kind = "load", ~q.done, reg'.calm => q.acct = reg'.id,
           reg'.calm => \A i \in Slot : regNet'[i].kind \in Paging => i = f /\ regNet'[i] = q,
           \A i \in Slot : regNet'[i].ver <= regBook.ver
    PROVE  PlaceInv'
<1>1. Versions'
  BY VersionTypes DEF PlaceInv, Versions, SamePlace
<1> SUFFICES ASSUME reg'.calm PROVE Ordered' /\ Stretched'
  BY <1>1 DEF PlaceInv
<1>2. Stretched
  BY DEF PlaceInv
<1>3. \A i \in Slot : /\ regNet'[i].kind # "more"
                      /\ regNet'[i].kind = "load" => i = f /\ regNet'[i] = q
                      /\ regNet'[i].kind \in Paging => i = f
  BY DEF Paging
<1>4. Ordered'
  BY <1>3 DEF Ordered, Paging
<1>5. Window' = Window /\ Now' = Now /\ Shown' = Shown
  BY DEF Window, Now, Shown, Current, SamePlace
<1>6. Shown' => RegFits'
  BY <1>2, <1>5 DEF Stretched, SamePlace, RegFits
<1>7. \A i \in Slot : ~Done(i, "load")'
  BY <1>3 DEF Done
<1>8. QED
  BY <1>3, <1>4, <1>6, <1>7 DEF Stretched
(* The requests a step leaves or sends, by their versions. *)
LEMMA NewVersions ==
    ASSUME NEW a, NEW d, NEW n, NEW s, NEW how
    PROVE  /\ LoadReq(a, n).ver = 0 /\ AllReq(a).ver = 0 /\ MoreReq(a, d, n).ver = 0
           /\ WriteReq("toggle", a, s, how).ver = 0 /\ WriteReq("save", a, s, how).ver = 0
           /\ Free.ver = 0 /\ Free.kind = "free"
           /\ WriteReq("toggle", a, s, how).kind = "toggle"
           /\ WriteReq("save", a, s, how).kind = "save" /\ WriteReq("save", a, s, how).acct = a
           /\ LoadReq(a, n).acct = a
           /\ MoreReq(a, d, n).acct = a /\ MoreReq(a, d, n).how = d /\ MoreReq(a, d, n).cur = n
BY DEF LoadReq, AllReq, MoreReq, WriteReq, Free

LEMMA SearchEffectPlaces ==
    ASSUME NEW r \in Component, NEW net, Sound(net), SearchEffect(r, net)
    PROVE  /\ SamePlace(reg', r) /\ reg'.id = r.id /\ reg'.loading = r.loading
           /\ reg'.calm => r.calm
           /\ \A i \in Slot : regNet'[i].kind \in Paging => regNet'[i] = net[i]
           /\ \A i \in Slot : regNet'[i].ver \in {0, net[i].ver}
<1>0. Sound(Cancelled(net)) /\ Free.ver = 0 /\ Free.kind = "free"
  BY CancelledSound DEF Free
<1>1. CASE r.searching /\ ~r.loaded
  <2> DEFINE c == r.calm /\ ~Busy(net, Writes)
             q == AllReq(r.id)
  <2>1. reg' = [r EXCEPT !.searchLoading = TRUE, !.searchError = FALSE, !.calm = c]
    BY <1>1 DEF SearchEffect
  <2>2. regNet' = Send(Cancelled(net), q)
    BY <1>1 DEF SearchEffect
  <2>3. q.kind = "all" /\ q.ver = 0
    BY NewUndone, NewVersions
  <2>4. c \in BOOLEAN /\ (c => r.calm)
    OBVIOUS
  <2> HIDE DEF c, q
  <2>5. SamePlace(reg', r) /\ reg'.id = r.id /\ reg'.loading = r.loading /\ reg'.calm = c
    BY <2>1, <2>4 DEF Component, SamePlace
  <2>6. \A i \in Slot : regNet'[i] \in {q, Cancelled(net)[i]}
    BY <1>0, <2>2, SendAt
  <2>7. \A i \in Slot : regNet'[i] \in {q, Free, net[i]}
    BY <2>6, CancelledAlone
  <2>8. QED
    BY <1>0, <2>3, <2>4, <2>5, <2>7 DEF Paging
<1>2. CASE ~(r.searching /\ ~r.loaded)
  <2>1. reg' = r /\ regNet' = Cancelled(net)
    BY <1>2 DEF SearchEffect
  <2>2. \A i \in Slot : regNet'[i] \in {Free, net[i]}
    BY <2>1, CancelledAlone
  <2>3. QED
    BY <1>0, <2>1, <2>2 DEF SamePlace, Paging
<1>3. QED
  BY <1>1, <1>2

LEMMA StartPlaces ==
    ASSUME NEW a, NEW d, reg = RegStart(a, d), regNet = RegNetStart(a, d), regBook.ver \in Nat
    PROVE  PlaceInv
<1> DEFINE none == [i \in Slot |-> Free]
           f == FirstFree(none)
           q == LoadReq(a, d)
<1>1. \A i \in Slot : regNet[i] = IF i = f THEN q ELSE Free
  BY DEF RegNetStart, Send
<1>2. q.kind = "load" /\ ~q.done /\ q.acct = a /\ q.ver = 0 /\ Free.ver = 0
      /\ Free.kind = "free"
  BY NewUndone, NewVersions
<1> HIDE DEF f, q, none
<1>3. reg.ver = 0 /\ reg.loading /\ reg.id = a /\ reg.account = NoAccount
  BY DEF RegStart
<1>4. Versions
  BY <1>1, <1>2, <1>3 DEF Versions
<1>5. Ordered
  BY <1>1, <1>2, <1>3 DEF Ordered, Paging
<1>6. Stretched
  BY <1>1, <1>2, <1>3 DEF Stretched, Shown, Done
<1>7. QED
  BY <1>4, <1>5, <1>6 DEF PlaceInv

LEMMA GoToPlaces ==
    ASSUME RegInv, PlaceInv, NEW a \in Account, NEW d \in Dates, GoTo(a, d)
    PROVE  PlaceInv'
<1>1. d \in Nat /\ reg \in Component /\ Sound(regNet)
  BY RegAssumption DEF RegInv, Own
<1> DEFINE l == Loading(reg, regNet, d)
           e == l.searchLoading \/ (reg.searching /\ ~reg.loaded)
           q == LoadReq(a, d)
           f == FirstFree(Cancelled(regNet))
<1>2. /\ l \in Component /\ l.copies = reg.copies /\ l.account = reg.account
      /\ l.ver = reg.ver /\ l.hasBefore = reg.hasBefore /\ l.hasAfter = reg.hasAfter
      /\ l.first = reg.first /\ l.last = reg.last /\ l.loading
      /\ l.calm = (reg.calm /\ ~Busy(regNet, Paging \cup Writes))
  BY <1>1, LoadingKeeps, LoadingMarks
<1>3. /\ reg' = [l EXCEPT !.id = a, !.searching = FALSE, !.loaded = FALSE,
                   !.all = {}, !.allMarks = NoMarks, !.searchError = FALSE,
                   !.searchLoading = e]
      /\ regNet' = Send(Cancelled(regNet), q) /\ regBook' = regBook
  BY DEF GoTo
<1>4. q.kind = "load" /\ ~q.done /\ q.acct = a /\ q.ver = 0
  BY NewUndone, NewVersions
<1>5. Sound(Cancelled(regNet))
  BY <1>1, CancelledSound
<1>6. \A i \in Slot : regNet'[i] = IF i = f THEN q ELSE Cancelled(regNet)[i]
  BY <1>3, <1>5 DEF Send, Sound
<1>7. \A i \in Slot : Cancelled(regNet)[i] = Free \/ Cancelled(regNet)[i] = regNet[i]
  BY <1>1, CancelledAlone
<1>8. Free.ver = 0 /\ Free.kind = "free"
  BY NewVersions
<1> HIDE DEF l, e, q, f
<1>9. SamePlace(reg', reg) /\ reg'.loading /\ reg'.id = a /\ reg'.calm = l.calm
  BY <1>2, <1>3 DEF Component, SamePlace
<1>10. reg'.calm => \A i \in Slot : regNet'[i].kind \in Paging => i = f /\ regNet'[i] = q
  BY <1>2, <1>6, <1>7, <1>8, <1>9 DEF Busy, Paging
<1>11. \A i \in Slot : regNet'[i].ver <= regBook.ver
  BY <1>4, <1>6, <1>7, <1>8, VersionTypes DEF PlaceInv, Versions
<1>12. reg'.calm => reg.calm /\ reg'.loading
  BY <1>2, <1>9
<1>13. PICK z : z = f
  OBVIOUS
<1>14. QED
  BY <1>3, <1>4, <1>9, <1>10, <1>11, <1>12, <1>13, LoadStarted

LEMMA SearchPlaces == ASSUME RegInv, PlaceInv, Search PROVE PlaceInv'
<1>1. PICK clear \in BOOLEAN :
        SearchEffect([reg EXCEPT !.searching = ~@, !.searchError = @ /\ ~clear], regNet)
  BY DEF Search
<1> DEFINE r == [reg EXCEPT !.searching = ~@, !.searchError = @ /\ ~clear]
           s == ~reg.searching
           e == reg.searchError /\ ~clear
<1>2. r = [reg EXCEPT !.searching = s, !.searchError = e]
  BY DEF RegInv, Own, Component
<1>3. s \in BOOLEAN /\ e \in BOOLEAN
  OBVIOUS
<1> HIDE DEF s, e
<1>4. /\ r \in Component /\ r.calm = reg.calm /\ SamePlace(r, reg)
      /\ r.id = reg.id /\ r.loading = reg.loading
  BY <1>2, <1>3 DEF RegInv, Own, Component, SamePlace
<1>5. SearchEffect(r, regNet) /\ regBook' = regBook /\ Sound(regNet)
  BY <1>1 DEF Search, RegInv, Own
<1> HIDE DEF r
<1>6. /\ SamePlace(reg', r) /\ reg'.id = r.id /\ reg'.loading = r.loading
      /\ reg'.calm => r.calm
      /\ \A i \in Slot : regNet'[i].kind \in Paging => regNet'[i] = regNet[i]
      /\ \A i \in Slot : regNet'[i].ver \in {0, regNet[i].ver}
  BY <1>4, <1>5, SearchEffectPlaces
<1>7. SamePlace(reg', reg)
  BY <1>4, <1>6 DEF SamePlace
<1>8. \A i \in Slot : regNet'[i].ver <= regBook'.ver
  BY <1>5, <1>6, VersionTypes DEF PlaceInv, Versions
<1>9. QED
  BY <1>4, <1>5, <1>6, <1>7, <1>8, VersionTypes, NothingMoved

LEMMA WritePlaces ==
    ASSUME RegInv, PlaceInv, NEW q, q.kind \in Writes, q.ver = 0,
           regNet' = Send(regNet, q),
           reg' = [reg EXCEPT !.calm = @ /\ FreeSlots(regNet) = Slot],
           UNCHANGED regBook
    PROVE  PlaceInv'
<1> DEFINE c == reg.calm /\ FreeSlots(regNet) = Slot
<1>1. c \in BOOLEAN /\ reg' = [reg EXCEPT !.calm = c] /\ (c => reg.calm)
  OBVIOUS
<1> HIDE DEF c
<1>2. /\ reg'.calm = c /\ SamePlace(reg', reg) /\ reg'.id = reg.id
      /\ reg'.loading = reg.loading
  BY <1>1, VersionTypes DEF Component, SamePlace
<1>3. \A i \in Slot : regNet'[i] = q \/ regNet'[i] = regNet[i]
  BY VersionTypes, SendAt
<1>4. q.kind \notin Paging
  BY DEF Writes, Paging
<1>5. \A i \in Slot : regNet'[i].kind \in Paging => regNet'[i] = regNet[i]
  BY <1>3, <1>4
<1>6. \A i \in Slot : regNet'[i].ver <= regBook'.ver
  BY <1>3, VersionTypes DEF PlaceInv, Versions
<1>7. QED
  BY <1>1, <1>2, <1>5, <1>6, VersionTypes, NothingMoved

LEMMA ToggleClickPlaces ==
    ASSUME RegInv, PlaceInv, NEW s \in Touched, ToggleClick(s)
    PROVE  PlaceInv'
BY WritePlaces, NewVersions DEF ToggleClick, Writes

LEMMA SavePlaces ==
    ASSUME RegInv, PlaceInv, NEW s \in Touched, NEW how \in {"remove", "insert"}, Save(s, how)
    PROVE  PlaceInv'
BY WritePlaces, NewVersions DEF Save, Writes

LEMMA ElsewherePlaces ==
    ASSUME RegInv, PlaceInv, NEW s \in Touched, NEW how \in {"remove", "insert"},
           ChangedElsewhere(s, how)
    PROVE  PlaceInv'
<1>1. regBook' = Changed(regBook, s, how) /\ reg' = reg /\ regNet' = regNet
  BY DEF ChangedElsewhere
<1>2. regBook'.ver = regBook.ver + 1
  BY <1>1, VersionTypes DEF Changed, Book
<1>3. regBook'.ver \in Nat /\ regBook'.ver > regBook.ver
      /\ \A i \in Slot : regNet'[i].ver <= regBook'.ver
  BY <1>1, <1>2, VersionTypes DEF PlaceInv, Versions
<1>4. QED
  BY <1>1, <1>3, NothingMoved DEF SamePlace
LEMMA LoadMorePlaces ==
    ASSUME RegInv, PlaceInv, NEW dirs \in SUBSET {"before", "after"} \ {{}}, LoadMore(dirs)
    PROVE  PlaceInv'
<1> DEFINE c == reg.calm /\ ~Busy(regNet, {"load"} \cup Writes)
<1>1. /\ reg' = [reg EXCEPT !.more = TRUE, !.calm = c] /\ regBook' = regBook
      /\ ~reg.loading /\ ~reg.searching /\ Displayed # {} /\ \A d \in dirs : Wanted(d)
  BY DEF LoadMore, RegReady
<1>2. c \in BOOLEAN /\ (c => reg.calm /\ \A i \in Slot : regNet[i].kind # "load")
  BY DEF Busy
<1> HIDE DEF c
<1>3. reg'.calm = c /\ SamePlace(reg', reg) /\ reg'.id = reg.id /\ reg'.loading = reg.loading
  BY <1>1, <1>2, VersionTypes DEF Component, SamePlace
<1>4. \A i \in Slot : regNet'[i] = regNet[i] \/ \E d \in dirs : regNet'[i] = MoreNow(d)
  BY VersionTypes, MoreSent
<1>5. \A d \in dirs :
        LET q == MoreNow(d)
        IN  /\ q.kind = "more" /\ ~q.done /\ q.ver = 0 /\ q.acct = reg.id /\ q.how = d
            /\ q.cur = IF d = "before" THEN reg.first ELSE reg.last
  BY NewUndone, NewVersions DEF MoreNow
<1>6. Versions'
  BY <1>1, <1>3, <1>4, <1>5, VersionTypes DEF PlaceInv, Versions, SamePlace
<1> SUFFICES ASSUME reg'.calm PROVE Ordered' /\ Stretched'
  BY <1>6 DEF PlaceInv
<1>7. Ordered /\ Stretched /\ \A i \in Slot : regNet[i].kind # "load"
  BY <1>2, <1>3 DEF PlaceInv
<1>8. \A i \in Slot : regNet'[i].kind # "load"
  BY <1>4, <1>5, <1>7
<1>9. reg.account = reg.id
  BY <1>1, <1>7 DEF Ordered
<1>10. \A i \in Slot : regNet'[i].kind = "more" =>
          regNet'[i].acct = reg'.account /\ regNet'[i].how \in {"before", "after"}
  BY <1>3, <1>4, <1>5, <1>7, <1>9 DEF Ordered, SamePlace
<1>11. Ordered'
  BY <1>3, <1>8, <1>9, <1>10 DEF Ordered, SamePlace
<1>12. Window' = Window /\ Now' = Now /\ Shown' = Shown
  BY <1>1, <1>3 DEF Window, Now, Shown, Current, SamePlace
<1>13. Shown' => RegFits'
  BY <1>3, <1>7, <1>12 DEF Stretched, SamePlace, RegFits
<1>14. Shown => HasRank(Window, Now, reg.first) /\ HasRank(Window, Now, reg.last)
  <2>1. Window # {}
    BY <1>1 DEF Displayed, Window
  <2>2. QED
    BY <1>7, <2>1 DEF Stretched, RegFits, Placed
<1>15. ASSUME Shown, NEW i \in Slot, regNet'[i].kind = "more" PROVE Continues(i)'
  <2>1. CASE regNet'[i] = regNet[i]
    BY <1>7, <1>12, <1>15, <2>1 DEF Stretched, Continues
  <2>2. CASE \E d \in dirs : regNet'[i] = MoreNow(d)
    <3>1. ~regNet'[i].done /\ regNet'[i].cur \in {reg.first, reg.last}
      BY <1>5, <2>2
    <3>2. HasRank(Window, Now, regNet'[i].cur)
      BY <1>14, <1>15, <3>1
    <3>3. QED
      BY <1>12, <3>1, <3>2 DEF Continues
  <2>3. QED
    BY <1>4, <2>1, <2>2
<1>16. \A i \in Slot : ~Done(i, "load")'
  BY <1>8 DEF Done
<1>17. QED
  BY <1>11, <1>12, <1>13, <1>15, <1>16 DEF Stretched

LEMMA RunPlaces ==
    ASSUME PageSize > 1, RegInv, PlaceInv, NEW i \in Slot, Run(i)
    PROVE  PlaceInv'
<1> DEFINE q == regNet[i]
<1>0. PICK page \in Serve(regBook, q) :
        regNet' = [regNet EXCEPT ![i] = Served(q, page, regBook)]
  BY RunServes
<1> DEFINE marks == Seen(page, regBook)
           ver == IF q.kind \in Writes THEN 0 ELSE regBook.ver
           served == [q EXCEPT !.done = TRUE, !.page = page, !.marks = marks, !.ver = ver]
<1>1. /\ Sound(regNet) /\ regBook \in Book /\ q \in Request /\ reg' = reg
      /\ regBook.ver \in Nat /\ reg.ver \in Nat
  BY VersionTypes DEF Run
<1>2. regNet' = [regNet EXCEPT ![i] = served]
  BY <1>0 DEF Served
<1>3. ver \in Nat /\ ver <= regBook.ver
  BY <1>1
<1> HIDE DEF ver, marks
<1>4. /\ served.kind = q.kind /\ served.done /\ served.page = page /\ served.ver = ver
      /\ served.acct = q.acct /\ served.how = q.how /\ served.cur = q.cur
  BY <1>1 DEF Request
<1> HIDE DEF served
<1>5. \A j \in Slot : regNet'[j] = IF j = i THEN served ELSE regNet[j]
  BY <1>1, <1>2 DEF Sound
<1>6. /\ regBook'.ver \in Nat /\ regBook.ver <= regBook'.ver
      /\ \/ regBook'.splits = regBook.splits /\ regBook'.ver = regBook.ver
         \/ q.kind = "save" /\ regBook'.ver > regBook.ver
  <2>1. CASE q.kind = "toggle"
    <3>1. regBook' = [regBook EXCEPT !.marks[q.split] = q.how]
      BY <2>1 DEF Run
    <3>2. QED
      BY <1>1, <3>1 DEF Book
  <2>2. CASE q.kind = "save" /\ regBook.ver < MaxChange
    <3>1. regBook' = Changed(regBook, q.split, q.how)
      BY <2>2 DEF Run
    <3>2. regBook'.ver = regBook.ver + 1
      BY <1>1, <3>1 DEF Changed, Book
    <3>3. QED
      BY <1>1, <2>2, <3>2
  <2>3. CASE q.kind # "toggle" /\ ~(q.kind = "save" /\ regBook.ver < MaxChange)
    <3>1. regBook' = regBook
      BY <2>3 DEF Run
    <3>2. QED
      BY <1>1, <3>1
  <2>4. QED
    BY <2>1, <2>2, <2>3
<1>7. \A j \in Slot : regNet'[j].ver <= regBook'.ver
  BY <1>1, <1>3, <1>4, <1>5, <1>6, VersionTypes DEF PlaceInv, Versions
<1>8. CASE q.kind \notin Paging
  <2>1. \A j \in Slot : regNet'[j].kind \in Paging => regNet'[j] = regNet[j]
    BY <1>4, <1>5, <1>8
  <2>2. SamePlace(reg', reg)
    BY <1>1 DEF SamePlace
  <2>3. QED
    BY <1>1, <1>6, <1>7, <2>1, <2>2, NothingMoved
<1>9. CASE q.kind \in Paging
  <2>1. regBook'.splits = regBook.splits /\ regBook'.ver = regBook.ver
    BY <1>6, <1>9 DEF Paging
  <2>2. Versions'
    BY <1>1, <1>7, <2>1 DEF Versions, PlaceInv
  <2> SUFFICES ASSUME reg'.calm PROVE Ordered' /\ Stretched'
    BY <2>2 DEF PlaceInv
  <2>3. Ordered /\ Stretched
    BY <1>1 DEF PlaceInv
  <2>4. \A j \in Slot : /\ regNet'[j].kind = regNet[j].kind
                        /\ regNet'[j].acct = regNet[j].acct /\ regNet'[j].how = regNet[j].how
                        /\ regNet'[j].cur = regNet[j].cur
    BY <1>4, <1>5
  <2>5. Ordered'
    BY <1>1, <2>3, <2>4 DEF Ordered
  <2>6. /\ Window' = Window /\ Now' = Now /\ Shown' = Shown /\ RegFits' = RegFits
        /\ \A a : Register(regBook, a)' = Register(regBook, a)
    BY <1>1, <2>1 DEF Window, Now, Shown, Current, Register, RegFits
  <2>7. \A j \in Slot : j # i => (Continues(j) => Continues(j)') /\ (Opens(j) => Opens(j)')
    BY <1>5, <2>6 DEF Continues, Opens
  <2>8. q.kind = "more" /\ Shown => Continues(i)'
    <3> SUFFICES ASSUME q.kind = "more", Shown PROVE Continues(i)'
      OBVIOUS
    <3>1. HasRank(Window, Now, q.cur)
      BY <2>3 DEF Stretched, Continues
    <3>2. PICK c \in Window : AtRank(Now, c, q.cur)
      BY <3>1 DEF HasRank
    <3>3. Now \in SUBSET Split /\ Window \subseteq Now
      BY <2>3, VersionTypes DEF Now, Stretched, RegFits, Placed, Gapless
    <3>4. q.how \in {"before", "after"} /\ Register(regBook, q.acct) = Now
      BY <2>3 DEF Ordered, Now
    <3>5. Joins(page, q.how, c, Now)
      <4>1. PICK S : S = Now
        OBVIOUS
      <4>2. S \in SUBSET Split /\ c \in S /\ q.cur \in Nat /\ AtRank(S, c, q.cur)
        BY <1>1, <3>2, <3>3, <4>1 DEF Request
      <4>3. CASE q.how = "before"
        <5>1. page \in Before(S, q.cur)
          BY <1>0, <3>4, <4>1, <4>3 DEF Serve
        <5>2. QED
          BY <4>1, <4>2, <4>3, <5>1, BeforeJoins
      <4>4. CASE q.how = "after"
        <5>1. page \in After(S, q.cur)
          BY <1>0, <3>4, <4>1, <4>4 DEF Serve
        <5>2. QED
          BY <4>1, <4>2, <4>4, <5>1, AfterJoins
      <4>5. QED
        BY <3>4, <4>3, <4>4
    <3>6. \E d \in Window' : Joins(regNet'[i].page, regNet'[i].how, d, Now')
      BY <1>4, <1>5, <2>6, <3>5
    <3>7. HasRank(Window', Now', regNet'[i].cur)
      BY <1>4, <1>5, <2>6, <3>1
    <3>8. QED
      BY <3>6, <3>7 DEF Continues
  <2>9. q.kind = "load" => Opens(i)'
    <3> SUFFICES ASSUME q.kind = "load" PROVE Opens(i)'
      OBVIOUS
    <3>1. PICK S : S = Register(regBook, q.acct)
      OBVIOUS
    <3>2. PICK date : date = q.cur
      OBVIOUS
    <3>3. S \in SUBSET Split /\ date \in Nat
      BY <1>1, <3>1, <3>2, VersionTypes DEF Request
    <3>4. PICK p : p = page
      OBVIOUS
    <3>5. p \in Around(S, date)
      BY <1>0, <3>1, <3>2, <3>4 DEF Serve
    <3>6. Placed(p.splits, S, p.before, p.after, p.first, p.last)
      BY <3>3, <3>5, AroundPlaced
    <3>7. regNet'[i].page = p /\ Register(regBook', regNet'[i].acct) = S
      BY <1>4, <1>5, <2>1, <3>1, <3>4 DEF Register
    <3>8. QED
      BY <3>6, <3>7 DEF Opens
  <2>10. Shown' => RegFits' /\ \A j \in Slot : regNet'[j].kind = "more" => Continues(j)'
    BY <2>3, <2>4, <2>6, <2>7, <2>8 DEF Stretched
  <2>11. \A j \in Slot : Done(j, "load")' /\ regNet'[j].ver = regBook'.ver => Opens(j)'
    BY <1>5, <2>1, <2>3, <2>4, <2>7, <2>9 DEF Stretched, Done
  <2>12. QED
    BY <2>5, <2>10, <2>11 DEF Stretched
<1>10. QED
  BY <1>8, <1>9
LEMMA SettledPlaces ==
    ASSUME RegInv, PlaceInv, NEW i \in Slot, regNet' = Settled(i), regBook' = regBook
    PROVE  /\ \A j \in Slot : regNet'[j] = IF j = i THEN Free ELSE regNet[j]
           /\ Free.kind = "free" /\ Free.ver = 0
           /\ \A j \in Slot : regNet'[j].kind \in Paging => regNet'[j] = regNet[j] /\ j # i
           /\ \A j \in Slot : regNet'[j].ver <= regBook'.ver
<1>1. \A j \in Slot : regNet'[j] = IF j = i THEN Free ELSE regNet[j]
  BY VersionTypes, SettledAlone
<1>2. Free.kind = "free" /\ Free.ver = 0
  BY NewVersions
<1>3. \A j \in Slot : regNet'[j].kind \in Paging => regNet'[j] = regNet[j] /\ j # i
  BY <1>1, <1>2 DEF Paging
<1>4. \A j \in Slot : regNet'[j].ver <= regBook'.ver
  BY <1>1, <1>2, VersionTypes DEF PlaceInv, Versions
<1>5. QED
  BY <1>1, <1>2, <1>3, <1>4

(* The window is replaced by what the load has found. *)
LEMMA LoadAnsweredPlaces ==
    ASSUME RegInv, PlaceInv, NEW i \in Slot, LoadAnswered(i)
    PROVE  PlaceInv'
<1> DEFINE q == regNet[i]
           copies == [s \in Split |-> IF s \in q.page.splits THEN 1 ELSE 0]
<1>1. /\ q \in Request /\ reg \in Component /\ q.kind = "load" /\ q.done
      /\ regNet' = Settled(i) /\ regBook' = regBook
  BY VersionTypes DEF LoadAnswered, Done
<1>2. reg' = [reg EXCEPT !.account = q.acct, !.loading = FALSE, !.copies = copies,
                !.marks = q.marks, !.hasBefore = q.page.before, !.hasAfter = q.page.after,
                !.first = q.page.first, !.last = q.page.last, !.ver = q.ver]
  BY DEF LoadAnswered
<1>3. \A s \in Split : copies[s] > 0 <=> s \in q.page.splits
  OBVIOUS
<1>4. q.page.splits \subseteq Split /\ q.ver <= regBook.ver
  BY <1>1 DEF Request, PageType, PlaceInv, Versions
<1> HIDE DEF copies
<1>5. /\ reg'.calm = reg.calm /\ reg'.copies = copies /\ reg'.ver = q.ver
      /\ reg'.hasBefore = q.page.before /\ reg'.hasAfter = q.page.after
      /\ reg'.first = q.page.first /\ reg'.last = q.page.last
      /\ reg'.account = q.acct /\ reg'.id = reg.id /\ ~reg'.loading
  BY <1>1, <1>2 DEF Component
<1>6. /\ \A j \in Slot : regNet'[j] = IF j = i THEN Free ELSE regNet[j]
      /\ Free.kind = "free"
      /\ \A j \in Slot : regNet'[j].kind \in Paging => regNet'[j] = regNet[j] /\ j # i
      /\ \A j \in Slot : regNet'[j].ver <= regBook'.ver
  BY <1>1, SettledPlaces
<1>7. Versions'
  BY <1>1, <1>4, <1>5, <1>6 DEF Versions
<1> SUFFICES ASSUME reg'.calm PROVE Ordered' /\ Stretched'
  BY <1>7 DEF PlaceInv
<1>8. Ordered /\ Stretched
  BY <1>5 DEF PlaceInv
<1>9. \A j \in Slot : regNet'[j].kind \notin Paging
  BY <1>1, <1>6, <1>8 DEF Ordered
<1>10. Ordered'
  BY <1>1, <1>5, <1>8, <1>9 DEF Ordered, Paging
<1>11. Window' = q.page.splits
  BY <1>3, <1>4, <1>5 DEF Window
<1>12. Shown' => RegFits'
  <2>1. Now' = Register(regBook, q.acct)
    BY <1>1, <1>5 DEF Now, Register
  <2>2. Shown' => q.ver = regBook.ver
    BY <1>1, <1>5 DEF Shown, Current
  <2>3. q.ver = regBook.ver => Opens(i)
    BY <1>1, <1>8 DEF Stretched, Done
  <2>4. QED
    BY <1>5, <1>11, <2>1, <2>2, <2>3 DEF Opens, RegFits
<1>13. QED
  BY <1>9, <1>10, <1>12 DEF Stretched, Paging, Done

(* A page before or after joins the window. *)
LEMMA MoreAnsweredPlaces ==
    ASSUME RegInv, PlaceInv, NEW i \in Slot, MoreAnswered(i)
    PROVE  PlaceInv'
<1> DEFINE q == regNet[i]
           p == q.page
           copies == [s \in Split |-> reg.copies[s] + (IF s \in NewRows(p) THEN 1 ELSE 0)]
           marks == [s \in Split |-> IF s \in NewRows(p) THEN q.marks[s] ELSE reg.marks[s]]
           shown == [reg EXCEPT !.copies = copies, !.marks = marks, !.more = FALSE]
           Old(r) == /\ r.calm = reg.calm /\ r.account = reg.account /\ r.ver = reg.ver
                     /\ r.id = reg.id /\ r.loading = reg.loading
           Joint(r) == /\ p.splits = {} => r.copies = reg.copies
                       /\ p.splits # {} => r.copies = copies
                       /\ q.how = "before" =>
                            /\ r.hasBefore = (IF p.splits = {} THEN FALSE ELSE p.before)
                            /\ r.first = (IF p.splits = {} THEN reg.first ELSE p.first)
                            /\ r.hasAfter = reg.hasAfter /\ r.last = reg.last
                       /\ q.how = "after" =>
                            /\ r.hasAfter = (IF p.splits = {} THEN FALSE ELSE p.after)
                            /\ r.last = (IF p.splits = {} THEN reg.last ELSE p.last)
                            /\ r.hasBefore = reg.hasBefore /\ r.first = reg.first
<1>1. /\ q \in Request /\ reg \in Component /\ q.kind = "more" /\ q.done
      /\ regNet' = Settled(i) /\ regBook' = regBook
  BY VersionTypes DEF MoreAnswered, Done
<1>2. reg' = CASE p.splits = {} /\ q.how = "before" ->
                    [reg EXCEPT !.hasBefore = FALSE, !.more = FALSE]
               [] p.splits = {} /\ q.how = "after" ->
                    [reg EXCEPT !.hasAfter = FALSE, !.more = FALSE]
               [] p.splits # {} /\ q.how = "before" ->
                    [shown EXCEPT !.hasBefore = p.before, !.first = p.first]
               [] OTHER -> [shown EXCEPT !.hasAfter = p.after, !.last = p.last]
  BY DEF MoreAnswered
<1>3. p.splits \subseteq Split /\ reg.copies \in [Split -> Nat]
  BY <1>1 DEF Request, PageType, Component
<1>4. \A s \in Split : copies[s] > 0 <=> reg.copies[s] > 0 \/ s \in p.splits
  BY <1>3 DEF NewRows
<1> HIDE DEF copies, marks
<1>5. /\ Old(shown) /\ shown.copies = copies
      /\ shown.hasBefore = reg.hasBefore /\ shown.hasAfter = reg.hasAfter
      /\ shown.first = reg.first /\ shown.last = reg.last
      /\ DOMAIN shown = DOMAIN reg
      /\ shown \in [DOMAIN reg -> UNION {{shown[f]} : f \in DOMAIN reg}]
  BY <1>1 DEF Component
<1>6. DOMAIN reg = {"id", "account", "copies", "marks", "loading", "more", "hasBefore",
                    "hasAfter", "first", "last", "cursor", "searching", "loaded", "all",
                    "allMarks", "searchLoading", "searchError", "calm", "ver", "allVer"}
  BY <1>1 DEF Component
<1> HIDE DEF shown
<1>7. Old(reg') /\ (q.how \in {"before", "after"} => Joint(reg'))
  <2>1. CASE p.splits = {} /\ q.how = "before"
    <3>1. reg' = [reg EXCEPT !.hasBefore = FALSE, !.more = FALSE]
      BY <1>2, <2>1
    <3>2. QED
      BY <1>1, <2>1, <3>1 DEF Component
  <2>2. CASE p.splits = {} /\ q.how = "after"
    <3>1. reg' = [reg EXCEPT !.hasAfter = FALSE, !.more = FALSE]
      BY <1>2, <2>2
    <3>2. QED
      BY <1>1, <2>2, <3>1 DEF Component
  <2>3. CASE p.splits # {} /\ q.how = "before"
    <3>1. reg' = [shown EXCEPT !.hasBefore = p.before, !.first = p.first]
      BY <1>2, <2>3
    <3>2. QED
      BY <1>5, <1>6, <2>3, <3>1
  <2>4. CASE ~(p.splits = {} /\ q.how \in {"before", "after"})
             /\ ~(p.splits # {} /\ q.how = "before")
    <3>1. reg' = [shown EXCEPT !.hasAfter = p.after, !.last = p.last]
      BY <1>2, <2>4
    <3>2. QED
      BY <1>5, <1>6, <2>4, <3>1
  <2>5. QED
    BY <2>1, <2>2, <2>3, <2>4
<1>8. /\ \A j \in Slot : regNet'[j] = IF j = i THEN Free ELSE regNet[j]
      /\ \A j \in Slot : regNet'[j].kind \in Paging => regNet'[j] = regNet[j] /\ j # i
      /\ \A j \in Slot : regNet'[j].ver <= regBook'.ver
  BY <1>1, SettledPlaces
<1>9. Versions'
  BY <1>1, <1>7, <1>8 DEF Versions, PlaceInv
<1> SUFFICES ASSUME reg'.calm PROVE Ordered' /\ Stretched'
  BY <1>9 DEF PlaceInv
<1>10. Ordered /\ Stretched
  BY <1>7 DEF PlaceInv
<1>11. Ordered'
  BY <1>7, <1>8, <1>10 DEF Ordered, Paging
<1>12. \A j \in Slot : regNet'[j].kind # "load"
  BY <1>1, <1>8, <1>10 DEF Ordered, Paging
<1>13. Now' = Now /\ Shown' = Shown
  BY <1>1, <1>7 DEF Now, Shown, Current, Register
<1>14. q.how \in {"before", "after"} /\ Joint(reg')
  BY <1>1, <1>7, <1>10 DEF Ordered
<1>15. Window' = Window \cup p.splits
  BY <1>3, <1>4, <1>14 DEF Window
<1>16. ASSUME Shown PROVE RegFits'
  <2>1. RegFits /\ Continues(i)
    BY <1>1, <1>10, <1>16 DEF Stretched
  <2>2. PICK c \in Window : Joins(p, q.how, c, Now)
    BY <1>1, <2>1 DEF Continues
  <2>3. PICK S : S = Now
    OBVIOUS
  <2>4. PICK W : W = Window
    OBVIOUS
  <2>5. PICK b, a, f, l : b = reg.hasBefore /\ a = reg.hasAfter /\ f = reg.first /\ l = reg.last
    OBVIOUS
  <2>6. PICK g : g = p
    OBVIOUS
  <2>7. S \in SUBSET Split /\ Placed(W, S, b, a, f, l) /\ c \in W /\ Joins(g, q.how, c, S)
    BY <2>1, <2>2, <2>3, <2>4, <2>5, <2>6, VersionTypes DEF RegFits, Now
  <2>8. Window' = (IF g.splits = {} THEN W ELSE W \cup g.splits)
    BY <1>15, <2>4, <2>6
  <2>9. CASE q.how = "before"
    <3>1. IF g.splits = {} THEN Placed(W, S, FALSE, a, f, l)
          ELSE Placed(W \cup g.splits, S, g.before, a, g.first, l)
      BY <2>7, <2>9, WindowJoined
    <3>2. /\ reg'.hasBefore = (IF g.splits = {} THEN FALSE ELSE g.before)
          /\ reg'.first = (IF g.splits = {} THEN f ELSE g.first)
          /\ reg'.hasAfter = a /\ reg'.last = l
      BY <1>14, <2>5, <2>6, <2>9
    <3>3. QED
      BY <1>13, <2>3, <2>8, <3>1, <3>2 DEF RegFits
  <2>10. CASE q.how = "after"
    <3>1. IF g.splits = {} THEN Placed(W, S, b, FALSE, f, l)
          ELSE Placed(W \cup g.splits, S, b, g.after, f, g.last)
      BY <2>7, <2>10, WindowJoined
    <3>2. /\ reg'.hasAfter = (IF g.splits = {} THEN FALSE ELSE g.after)
          /\ reg'.last = (IF g.splits = {} THEN l ELSE g.last)
          /\ reg'.hasBefore = b /\ reg'.first = f
      BY <1>14, <2>5, <2>6, <2>10
    <3>3. QED
      BY <1>13, <2>3, <2>8, <3>1, <3>2 DEF RegFits
  <2>11. QED
    BY <1>14, <2>9, <2>10
<1>17. ASSUME Shown, NEW j \in Slot, regNet'[j].kind = "more" PROVE Continues(j)'
  <2>1. regNet'[j] = regNet[j]
    BY <1>8, <1>17 DEF Paging
  <2>2. Continues(j)
    BY <1>10, <1>17, <2>1 DEF Stretched
  <2>3. QED
    BY <1>13, <1>15, <2>1, <2>2 DEF Continues, HasRank
<1>18. QED
  BY <1>11, <1>12, <1>13, <1>16, <1>17 DEF Stretched, Done
(* An answer that leaves the window as it is. *)
LEMMA AnswerPlaces ==
    ASSUME RegInv, PlaceInv, NEW i \in Slot, regNet' = Settled(i), regBook' = regBook,
           reg'.calm => reg.calm, SamePlace(reg', reg), reg'.id = reg.id,
           reg'.loading = reg.loading
    PROVE  PlaceInv'
<1>1. /\ \A j \in Slot : regNet'[j].kind \in Paging => regNet'[j] = regNet[j]
      /\ \A j \in Slot : regNet'[j].ver <= regBook'.ver
  BY SettledPlaces
<1>2. QED
  BY <1>1, VersionTypes, NothingMoved

LEMMA AllAnsweredPlaces ==
    ASSUME RegInv, PlaceInv, NEW i \in Slot, AllAnswered(i)
    PROVE  PlaceInv'
<1>1. reg' = [reg EXCEPT !.loaded = TRUE, !.all = regNet[i].page.splits,
                !.allMarks = regNet[i].marks, !.allVer = regNet[i].ver, !.searchLoading = FALSE]
      /\ regNet' = Settled(i) /\ regBook' = regBook
  BY DEF AllAnswered
<1>2. /\ reg'.calm = reg.calm /\ SamePlace(reg', reg) /\ reg'.id = reg.id
      /\ reg'.loading = reg.loading
  BY <1>1, VersionTypes DEF Component, SamePlace
<1>3. QED
  BY <1>1, <1>2, AnswerPlaces

LEMMA ToggleAnsweredPlaces ==
    ASSUME RegInv, PlaceInv, NEW i \in Slot, ToggleAnswered(i)
    PROVE  PlaceInv'
<1> DEFINE s == regNet[i].split
           m == regNet[i].how
           other == IF reg.loaded THEN m ELSE reg.allMarks[s]
<1>1. reg' = [reg EXCEPT !.marks[s] = m, !.allMarks[s] = other]
      /\ regNet' = Settled(i) /\ regBook' = regBook
  BY DEF ToggleAnswered, Patched
<1> HIDE DEF s, m, other
<1>2. /\ reg'.calm = reg.calm /\ SamePlace(reg', reg) /\ reg'.id = reg.id
      /\ reg'.loading = reg.loading
  BY <1>1, VersionTypes DEF Component, SamePlace
<1>3. QED
  BY <1>1, <1>2, AnswerPlaces

LEMMA FailedPlaces ==
    ASSUME RegInv, PlaceInv, NEW i \in Slot, Failed(i)
    PROVE  PlaceInv'
<1>0. reg' = CASE regNet[i].kind = "load" -> [reg EXCEPT !.loading = FALSE, !.calm = FALSE]
               [] regNet[i].kind = "more" -> [reg EXCEPT !.more = FALSE]
               [] regNet[i].kind = "all" ->
                    [reg EXCEPT !.searchLoading = FALSE, !.searchError = TRUE]
               [] OTHER -> [reg EXCEPT !.calm = FALSE]
  BY DEF Failed
<1>1. regNet' = Settled(i) /\ regBook' = regBook
  BY DEF Failed
<1>2. CASE regNet[i].kind = "load"
  <2>1. reg' = [reg EXCEPT !.loading = FALSE, !.calm = FALSE]
    BY <1>0, <1>2
  <2>2. ~reg'.calm /\ reg'.ver = reg.ver
    BY <2>1, VersionTypes DEF Component
  <2>3. \A j \in Slot : regNet'[j].ver <= regBook'.ver
    BY <1>1, SettledPlaces
  <2>4. QED
    BY <1>1, <2>2, <2>3 DEF PlaceInv, Versions
<1>3. CASE regNet[i].kind # "load"
  <2>1. reg' \in {[reg EXCEPT !.more = FALSE], [reg EXCEPT !.calm = FALSE],
                  [reg EXCEPT !.searchLoading = FALSE, !.searchError = TRUE]}
    BY <1>0, <1>3
  <2>2. /\ reg'.calm => reg.calm
        /\ SamePlace(reg', reg) /\ reg'.id = reg.id /\ reg'.loading = reg.loading
    BY <2>1, VersionTypes DEF Component, SamePlace
  <2>3. QED
    BY <1>1, <2>2, AnswerPlaces
<1>4. QED
  BY <1>2, <1>3

LEMMA DataChangedPlaces ==
    ASSUME RegInv, SavesInv, PlaceInv, NEW i \in Slot, DataChanged(i)
    PROVE  PlaceInv'
<1> DEFINE l == Loading(reg, Settled(i), reg.cursor)
           r == [l EXCEPT !.loaded = FALSE, !.all = {}, !.allMarks = NoMarks]
           q == LoadReq(regNet[i].acct, reg.cursor)
           net == Send(Settled(i), q)
           f == FirstFree(Settled(i))
<1>1. /\ reg \in Component /\ Sound(regNet) /\ Sound(Settled(i)) /\ regBook' = regBook
      /\ \A j \in Slot : Settled(i)[j] = IF j = i THEN Free ELSE regNet[j]
  BY SettledKeeps, SettledAlone DEF DataChanged, RegInv, Own
<1>2. regNet[i].acct \in Account /\ reg.cursor \in Nat
  BY <1>1 DEF Component, DataChanged, Done, Sound, Meant, Writes
<1>own. reg.calm => regNet[i].acct = reg.id
  BY DEF DataChanged, Done, SavesInv
<1>3. /\ q \in Request /\ Meant(q) /\ ~q.done /\ q.kind = "load" /\ q.ver = 0
      /\ q.acct = regNet[i].acct
  <2>1. q \in Request /\ Meant(q)
    BY <1>2, LoadReqSound
  <2>2. QED
    BY <2>1, NewUndone, NewVersions
<1>4. IF reg.loaded THEN SearchEffect(r, net) ELSE reg' = r /\ regNet' = net
  BY DEF DataChanged
<1>5. /\ l \in Component /\ l.copies = reg.copies /\ l.account = reg.account
      /\ l.ver = reg.ver /\ l.hasBefore = reg.hasBefore /\ l.hasAfter = reg.hasAfter
      /\ l.first = reg.first /\ l.last = reg.last /\ l.loading /\ l.id = reg.id
      /\ l.calm = (reg.calm /\ ~Busy(Settled(i), Paging \cup Writes))
  <2>1. reg \in Component /\ reg.cursor \in Nat
    BY <1>1, <1>2
  <2>2. l \in Component /\ l.id = reg.id /\ l.copies = reg.copies
    BY <2>1, LoadingKeeps
  <2>3. /\ l.account = reg.account /\ l.ver = reg.ver
        /\ l.hasBefore = reg.hasBefore /\ l.hasAfter = reg.hasAfter
        /\ l.first = reg.first /\ l.last = reg.last
    BY <2>1, LoadingMarks
  <2>4. l.loading /\ l.calm = (reg.calm /\ ~Busy(Settled(i), Paging \cup Writes))
    BY <2>1, LoadingMarks
  <2>5. QED
    BY <2>2, <2>3, <2>4
<1>6. \A j \in Slot : net[j] = IF j = f THEN q ELSE Settled(i)[j]
  BY <1>1 DEF Send, Sound
<1>7. Sound(net)
  BY <1>1, <1>3, SendSound
<1> HIDE DEF l, q, f
<1>8. /\ r \in Component /\ SamePlace(r, reg) /\ r.id = reg.id /\ r.loading
      /\ r.calm = l.calm
  BY <1>5, NoMarksTyped DEF Component, SamePlace
<1> HIDE DEF r, net
<1>9. r.calm => reg.calm /\ \A j \in Slot : net[j].kind \in Paging => j = f /\ net[j] = q
  BY <1>5, <1>6, <1>8 DEF Busy
<1>10. Free.ver = 0 /\ \A j \in Slot : net[j].ver <= regBook.ver
  <2>1. Free.ver = 0
    BY NewVersions
  <2>2. QED
    BY <1>1, <1>3, <1>6, <2>1, VersionTypes DEF PlaceInv, Versions
<1>11. /\ SamePlace(reg', r) /\ reg'.id = r.id /\ reg'.loading = r.loading
       /\ reg'.calm => r.calm
       /\ \A j \in Slot : regNet'[j].kind \in Paging => regNet'[j] = net[j]
       /\ \A j \in Slot : regNet'[j].ver \in {0, net[j].ver}
  <2>1. CASE reg.loaded
    BY <1>4, <1>7, <1>8, <2>1, SearchEffectPlaces
  <2>2. CASE ~reg.loaded
    BY <1>4, <2>2 DEF SamePlace
  <2>3. QED
    BY <2>1, <2>2
<1>12. PICK z, k : z = f /\ k = q
  OBVIOUS
<1>13. /\ SamePlace(reg', reg) /\ (reg'.calm => reg.calm /\ reg'.loading)
       /\ k.kind = "load" /\ ~k.done /\ (reg'.calm => k.acct = reg'.id)
  BY <1>own, <1>3, <1>8, <1>9, <1>11, <1>12 DEF SamePlace
<1>14. reg'.calm => \A j \in Slot : regNet'[j].kind \in Paging => j = z /\ regNet'[j] = k
  BY <1>9, <1>11, <1>12
<1>15. \A j \in Slot : regNet'[j].ver <= regBook.ver
  BY <1>10, <1>11, VersionTypes
<1>16. QED
  BY <1>1, <1>13, <1>14, <1>15, LoadStarted

LEMMA StepPlaces ==
    PageSize > 1 => (RegInv /\ SavesInv /\ PlaceInv /\ [RegNext]_regVars => PlaceInv')
<1> SUFFICES ASSUME PageSize > 1, RegInv, SavesInv, PlaceInv, [RegNext]_regVars PROVE PlaceInv'
  OBVIOUS
<1>1. CASE RegUser
  BY <1>1, GoToPlaces, SearchPlaces, LoadMorePlaces, ToggleClickPlaces, SavePlaces DEF RegUser
<1>2. CASE RegServer
  BY <1>2, RunPlaces, ElsewherePlaces DEF RegServer
<1>3. CASE RegAnswer
  BY <1>3, LoadAnsweredPlaces, MoreAnsweredPlaces, AllAnsweredPlaces, ToggleAnsweredPlaces,
     DataChangedPlaces, FailedPlaces DEF RegAnswer
<1>4. CASE UNCHANGED regVars
  <2>1. reg' = reg /\ regNet' = regNet /\ regBook' = regBook
    BY <1>4 DEF regVars
  <2>2. /\ SamePlace(reg', reg) /\ \A i \in Slot : regNet'[i].ver <= regBook'.ver
    BY <2>1 DEF SamePlace, PlaceInv, Versions
  <2>3. QED
    BY <2>1, <2>2, VersionTypes, NothingMoved
<1>5. QED
  BY <1>1, <1>2, <1>3, <1>4 DEF RegNext

LEMMA WindowShown == PlaceInv => RegWindow
<1> SUFFICES ASSUME PlaceInv, reg.calm, Current, reg.account # NoAccount
             PROVE  /\ Gapless(Window, Now)
                    /\ reg.hasBefore \/ Lowest(Window, Now)
                    /\ reg.hasAfter \/ Highest(Window, Now)
  BY DEF RegWindow, Gapless, Lowest, Highest
<1>1. RegFits
  BY DEF PlaceInv, Stretched, Shown
<1>2. QED
  BY <1>1 DEF RegFits, Placed

(* While nothing raced and nothing changed since the load, no row that     *)
(* ties with no other is left out between two rows shown, in the order the *)
(* server pages by, and the register is said to end only where it ends:    *)
(* pages asked for on both sides at once, answered in any order and asked  *)
(* for again, each join the window at its edge (loadMore over the offsets  *)
(* of getRegisterPage), and LIMIT and OFFSET lose nothing but tied rows.   *)
(* Pages have more than one row; the code's have fifty. *)
THEOREM WindowGapless == ASSUME PageSize > 1 PROVE RegSpec => []RegWindow
<1>1. RegInit => PlaceInv
  BY StartPlaces DEF RegInit, RegBooks
<1>2. RegInv /\ SavesInv /\ PlaceInv /\ [RegNext]_regVars => PlaceInv'
  BY StepPlaces
<1>3. RegInit => SavesInv
  BY StartSaves DEF RegInit
<1>4. QED
  BY <1>1, <1>2, <1>3, StepSaves, WindowShown, RegAlways, PTL DEF RegSpec
=============================================================================
