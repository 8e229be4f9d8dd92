--------------------------- MODULE ComposerProofs ---------------------------
(***************************************************************************)
(* The safety of the selection for every register, every number of         *)
(* requests and every bound.  A role is never chosen without an area       *)
(* (Organise), so the query of the pool never ranges over the whole        *)
(* country.  The address book keeps its foreign keys and its limits        *)
(* (BookOK, PresetsOK), and ids that were given out stay known to the      *)
(* calls and to the page that hold them (CallsOK, PickedOK).               *)
(***************************************************************************)
EXTENDS Composer, FiniteSetTheorems, TLAPS

Filters ==
  [areas : SUBSET Areas, roles : SUBSET STRING, parties : SUBSET STRING, bodies : SUBSET STRING,
   media : SUBSET STRING, fields : SUBSET STRING, include : SUBSET Emails, exclude : SUBSET Emails]

MailingRec ==
  [pc : {"none", "pool", "explicit", "done"}, pay : Filters, pool : SUBSET Emails, dead : SUBSET Rows,
   to : SUBSET Emails]

RolesNeedAreas(f) == f.roles # {} => f.areas # {}

\* Who is listed in the areas of f by a row that is not in dead.
Listed(f, deadRows) == AddressesOf({r \in Rows \ deadRows : r.area \in f.areas})

\* Whom the committees must spare, when nothing else narrows the selection.
Spared(m) ==
  m.pay.media = {} /\ m.pay.fields = {} =>
    (m.pool \intersect AddressesOf(In(m.pay.areas) \ OfType(Local, m.pay.areas))) \ m.pay.exclude \subseteq m.to

PageOK == sel \in Filters /\ once \subseteq Emails /\ RolesNeedAreas(sel) /\ dead \subseteq Rows
MailingOK ==
  /\ mailing \in MailingRec /\ RolesNeedAreas(mailing.pay)
  /\ mailing.pc \in {"none", "pool"} => mailing.to = {}
  /\ mailing.pc = "explicit" => mailing.to \subseteq Listed(mailing.pay, mailing.dead)
  /\ mailing.pc = "done" => NoStrangers
  /\ mailing.pc \in {"explicit", "done"} => Spared(mailing)

IInv == PageOK /\ MailingOK

-----------------------------------------------------------------------------
(* What the operators of the selection return.                             *)

\* The register's addresses and words are what the assumption says.
LEMMA RowTypes ==
  ASSUME NEW r \in Rows
  PROVE  r.email \in Emails /\ r.area \in Areas /\ r.role \in STRING /\ r.party \in STRING
         /\ r.bodies \subseteq STRING /\ r.topic \in STRING
BY RegisterAssumption DEF RegisterAssumption, Areas

\* Addresses of rows are addresses.
LEMMA AddressTypes ==
  ASSUME NEW rows \in SUBSET Rows
  PROVE  AddressesOf(rows) \subseteq Emails
BY RowTypes DEF AddressesOf

\* Filters that were organised ask for a role only together with an area.
LEMMA OrganiseOK ==
  ASSUME NEW f \in Filters
  PROVE  Organise(f) \in Filters /\ RolesNeedAreas(Organise(f))
<1>1. DEFINE types == TypesOf(f.areas)
<1>2. f.areas = {} => types = {}
  BY DEF TypesOf
<1>3. Organise(f) \in Filters
  BY DEF Organise, Filters
<1>4. Organise(f).areas = f.areas /\ (Organise(f).roles # {} => types # {})
  BY DEF Organise, Filters
<1> QED BY <1>2, <1>3, <1>4 DEF RolesNeedAreas

\* The pool of filters with an area for every role lies in their areas.
LEMMA PoolListed ==
  ASSUME NEW f \in Filters, RolesNeedAreas(f), NEW d \in SUBSET Rows
  PROVE  Pool(f, d) \subseteq Listed(f, d) /\ Pool(f, d) \subseteq Emails
<1>1. CASE f.areas = {}
  <2>1. f.roles = {}
    BY <1>1 DEF RolesNeedAreas
  <2> QED BY <1>1, <2>1 DEF Pool
<1>2. CASE f.areas # {}
  <2>1. \A r \in Rows : Matches(f, r) => r.area \in f.areas
    BY <1>2 DEF Matches
  <2>2. Pool(f, d) = AddressesOf({r \in Rows \ d : Matches(f, r)})
    BY <1>2 DEF Pool
  <2>3. Pool(f, d) \subseteq Listed(f, d)
    BY <2>1, <2>2 DEF AddressesOf, Listed
  <2>4. Pool(f, d) \subseteq Emails
    BY <2>2, AddressTypes
  <2> QED BY <2>3, <2>4
<1> QED BY <1>1, <1>2

\* Addresses given one by one are added, and excluded ones are not spared.
LEMMA ExplicitOK ==
  ASSUME NEW f \in Filters, NEW to \in SUBSET Emails, NEW d \in SUBSET Rows
  PROVE  WithExplicit(f, to, d) \subseteq (to \union f.include) \ f.exclude
         /\ to \ f.exclude \subseteq WithExplicit(f, to, d)
         /\ WithExplicit(f, to, d) \subseteq Emails
BY DEF WithExplicit, Filters

\* Without a topic filter, only addresses without a row elsewhere are taken out.
LEMMA FilteredSpares ==
  ASSUME NEW f \in Filters, f.media = {}, f.fields = {}, NEW d \in SUBSET Rows, NEW to \in Filtered(f, d)
  PROVE  Pool(f, d) \intersect AddressesOf(In(f.areas) \ OfType(Local, f.areas)) \subseteq to
<1>1. OutByTopic(f, "media", f.media) = {} /\ OutByTopic(f, "academia", f.fields) = {}
  BY DEF OutByTopic
<1>2. to = Pool(f, d) \ OutByBody(f) \/ to = Pool(f, d)
  BY <1>1 DEF Filtered
<1>3. OutByBody(f) \intersect AddressesOf(In(f.areas) \ OfType(Local, f.areas)) = {}
  BY DEF OutByBody
<1> QED BY <1>2, <1>3

-----------------------------------------------------------------------------
(* The steps.                                                              *)

\* The mailing and the register are no click's business.
LEMMA ClickFrame ==
  ASSUME Clicks
  PROVE  UNCHANGED <<mailing, dead>>
BY DEF Clicks, PickAreas, DropAreas, FlipRole, FlipParty, FlipBody, FlipTopic, Include, Exclude, Unchip, FlipOnce,
       PrivateOnly, PickLevel, FlipContact, FlipList, Click

\* A click leaves filters, with an area for every role.
LEMMA ClickPage ==
  ASSUME PageOK, Clicks
  PROVE  PageOK'
<1> USE DEF PageOK
<1>0. UNCHANGED dead
  BY ClickFrame
<1>1. ASSUME NEW as \in Controls, PickAreas(as) \/ DropAreas(as) PROVE PageOK'
  <2>1. as \subseteq Areas
    BY <1>1 DEF Controls
  <2>2. [sel EXCEPT !.areas = @ \union as] \in Filters /\ [sel EXCEPT !.areas = @ \ as] \in Filters
    BY <2>1 DEF Filters
  <2> QED BY <1>0, <1>1, <2>2, OrganiseOK DEF PickAreas, DropAreas, Keep
<1>2. ASSUME NEW r \in Rows, FlipRole(r.role) PROVE PageOK'
  <2>1. Flip(r.role, sel.roles) \subseteq STRING
    BY RowTypes DEF Flip, Filters
  <2>2. sel.areas # {}
    BY <1>2 DEF FlipRole, TypesOf
  <2>3. sel' = [sel EXCEPT !.roles = Flip(r.role, sel.roles)] /\ UNCHANGED once
    BY <1>2 DEF FlipRole, Keep
  <2>4. sel' \in Filters /\ sel'.areas = sel.areas
    BY <2>1, <2>3 DEF Filters
  <2> QED BY <1>0, <2>2, <2>3, <2>4 DEF RolesNeedAreas
<1>3. ASSUME NEW r \in Rows, FlipParty(r.party) PROVE PageOK'
  <2>1. Flip(r.party, sel.parties) \subseteq STRING
    BY RowTypes DEF Flip, Filters
  <2>2. sel' = [sel EXCEPT !.parties = Flip(r.party, sel.parties)] /\ UNCHANGED once
    BY <1>3 DEF FlipParty, Keep
  <2> QED BY <1>0, <2>1, <2>2 DEF Filters, RolesNeedAreas
<1>4. ASSUME NEW r \in Rows, NEW b \in r.bodies, FlipBody(b) PROVE PageOK'
  <2>1. Flip(b, sel.bodies) \subseteq STRING
    BY RowTypes DEF Flip, Filters
  <2>2. sel' = [sel EXCEPT !.bodies = Flip(b, sel.bodies)] /\ UNCHANGED once
    BY <1>4 DEF FlipBody, Keep
  <2> QED BY <1>0, <2>1, <2>2 DEF Filters, RolesNeedAreas
<1>5. ASSUME NEW r \in Rows, FlipTopic(r) PROVE PageOK'
  <2>1. Flip(r.topic, sel.media) \subseteq STRING /\ Flip(r.topic, sel.fields) \subseteq STRING
    BY RowTypes DEF Flip, Filters
  <2>2. \/ sel' = [sel EXCEPT !.media = Flip(r.topic, sel.media)]
        \/ sel' = [sel EXCEPT !.fields = Flip(r.topic, sel.fields)]
    BY <1>5 DEF FlipTopic
  <2>3. UNCHANGED once
    BY <1>5 DEF FlipTopic, Keep
  <2> QED BY <1>0, <2>1, <2>2, <2>3 DEF Filters, RolesNeedAreas
<1>6. ASSUME NEW r \in Rows, Include(r.email) \/ Exclude(r.email) PROVE PageOK'
  <2>1. r.email \in Emails
    BY RowTypes
  <2>2. /\ [sel EXCEPT !.include = @ \union {r.email}, !.exclude = @ \ {r.email}] \in Filters
        /\ [sel EXCEPT !.exclude = @ \union {r.email}, !.include = @ \ {r.email}] \in Filters
    BY <2>1 DEF Filters
  <2> QED BY <1>0, <1>6, <2>2, OrganiseOK DEF Include, Exclude, Keep
<1>7. ASSUME NEW a \in Emails, Unchip(a) PROVE PageOK'
  <2>1. sel' = [sel EXCEPT !.include = sel.include \ {a}, !.exclude = sel.exclude \ {a}] /\ UNCHANGED once
    BY <1>7 DEF Unchip, Keep
  <2> QED BY <1>0, <2>1 DEF Filters, RolesNeedAreas
<1>8. ASSUME NEW a \in Emails, FlipOnce(a) PROVE PageOK'
  BY <1>0, <1>8 DEF FlipOnce, Flip
<1>9. CASE PrivateOnly
  BY <1>0, <1>9 DEF PrivateOnly, NoFilter, Keep, Filters, RolesNeedAreas
<1>10. ASSUME NEW t, PickLevel(t) PROVE PageOK'
  <2>1. sel' = [NoFilter EXCEPT !.areas = {a \in Areas : AreaType[a] = t}] /\ once' = {}
    BY <1>10 DEF PickLevel
  <2> QED BY <1>0, <2>1 DEF NoFilter, Filters, RolesNeedAreas
<1>11. ASSUME NEW id, FlipContact(id) \/ FlipList(id) PROVE PageOK'
  BY <1>0, <1>11 DEF FlipContact, FlipList
<1>12. OfType(Political, Areas) \subseteq Rows
  BY DEF OfType, In
<1> QED
  BY <1>1, <1>2, <1>3, <1>4, <1>5, <1>6, <1>7, <1>8, <1>9, <1>10, <1>11, <1>12 DEF Clicks

\* What the server takes as given one by one are addresses.
LEMMA PayOK ==
  ASSUME PageOK
  PROVE  LET pay == [sel EXCEPT !.include = @ \union Private] IN pay \in Filters /\ RolesNeedAreas(pay)
<1>1. Private \subseteq Emails
  BY ComposerAssumption DEF Private, PageOK
<1>2. [sel EXCEPT !.include = sel.include \union Private] \in Filters
  BY <1>1 DEF PageOK, Filters
<1> QED BY <1>2 DEF PageOK, Filters, RolesNeedAreas

LEMMA SendStep ==
  ASSUME IInv, Send
  PROVE  IInv'
<1>1. DEFINE pay == [sel EXCEPT !.include = @ \union Private]
<1>2. pay \in Filters /\ RolesNeedAreas(pay)
  BY PayOK DEF IInv
<1>3. mailing' = [pc |-> "pool", pay |-> pay, pool |-> {}, dead |-> {}, to |-> {}]
  BY DEF Send, NoMailing
<1>4. UNCHANGED <<sel, once, dead>>
  BY DEF Send, page
<1> HIDE DEF pay
<1> QED BY <1>2, <1>3, <1>4 DEF IInv, PageOK, MailingOK, MailingRec

\* The pool: addresses of rows in the areas that are not dead.
LEMMA SelectPoolStep ==
  ASSUME IInv, SelectPool
  PROVE  IInv'
<1>1. PICK to \in Filtered(mailing.pay, dead) :
        mailing' = [mailing EXCEPT !.pc = "explicit", !.pool = Pool(mailing.pay, dead), !.dead = dead, !.to = to]
  BY DEF SelectPool
<1>2. mailing \in MailingRec /\ mailing.pay \in Filters /\ RolesNeedAreas(mailing.pay) /\ dead \in SUBSET Rows
  BY DEF IInv, PageOK, MailingOK, MailingRec
<1>3. /\ mailing'.pc = "explicit" /\ mailing'.pay = mailing.pay /\ mailing'.pool = Pool(mailing.pay, dead)
      /\ mailing'.dead = dead /\ mailing'.to = to
  BY <1>1, <1>2 DEF MailingRec
<1>4. Pool(mailing.pay, dead) \subseteq Listed(mailing.pay, dead) /\ Pool(mailing.pay, dead) \subseteq Emails
  BY <1>2, PoolListed
<1>5. to \subseteq Pool(mailing.pay, dead)
  BY DEF Filtered
<1>6. mailing' \in MailingRec
  BY <1>1, <1>2, <1>4, <1>5 DEF MailingRec
<1>7. Spared(mailing')
  BY <1>2, <1>3, FilteredSpares DEF Spared
<1>8. UNCHANGED <<sel, once, dead>>
  BY DEF SelectPool, page
<1>9. mailing'.to \subseteq Listed(mailing'.pay, mailing'.dead)
  BY <1>3, <1>4, <1>5
<1>10. RolesNeedAreas(mailing'.pay)
  BY <1>2, <1>3
<1>11. MailingOK'
  BY <1>3, <1>6, <1>7, <1>9, <1>10 DEF MailingOK
<1> QED BY <1>8, <1>11 DEF IInv, PageOK

\* The addresses given one by one, and the exclusions.
LEMMA SelectExplicitStep ==
  ASSUME IInv, SelectExplicit
  PROVE  IInv'
<1>1. mailing' = [mailing EXCEPT !.pc = "done", !.to = WithExplicit(mailing.pay, mailing.to, dead)]
      /\ mailing.pc = "explicit"
  BY DEF SelectExplicit
<1>2. mailing \in MailingRec /\ mailing.pay \in Filters /\ mailing.to \in SUBSET Emails /\ dead \in SUBSET Rows
  BY DEF IInv, PageOK, MailingOK, MailingRec
<1>3. /\ mailing'.pc = "done" /\ mailing'.pay = mailing.pay /\ mailing'.pool = mailing.pool
      /\ mailing'.to = WithExplicit(mailing.pay, mailing.to, dead)
  BY <1>1, <1>2 DEF MailingRec
<1>4. /\ mailing'.to \subseteq (mailing.to \union mailing.pay.include) \ mailing.pay.exclude
      /\ mailing.to \ mailing.pay.exclude \subseteq mailing'.to
      /\ mailing'.to \subseteq Emails
  BY <1>2, <1>3, ExplicitOK
<1>5. mailing' \in MailingRec
  BY <1>1, <1>2, <1>3, <1>4 DEF MailingRec
<1>6. NoStrangers'
  <2>1. mailing.to \subseteq Listed(mailing.pay, mailing.dead)
    BY <1>1 DEF IInv, MailingOK
  <2>2. mailing.to \subseteq AddressesOf(In(mailing.pay.areas))
    BY <2>1 DEF Listed, AddressesOf, In
  <2> QED BY <1>3, <1>4, <2>2 DEF NoStrangers
<1>7. Spared(mailing')
  <2>1. Spared(mailing)
    BY <1>1 DEF IInv, MailingOK
  <2> QED BY <1>3, <1>4, <2>1 DEF Spared
<1>8. UNCHANGED <<sel, once, dead>> /\ RolesNeedAreas(mailing'.pay)
  BY <1>3 DEF SelectExplicit, page, IInv, MailingOK
<1> QED BY <1>3, <1>5, <1>6, <1>7, <1>8 DEF IInv, PageOK, MailingOK

\* The requests to the address book leave filters, mailing and register alone.
LEMMA RequestFrame ==
  ASSUME NEW p \in Procs, Requests(p)
  PROVE  UNCHANGED <<sel, once, dead, mailing>>
BY DEF Requests, Starts, Start, Save, SaveBack, Delete, Remove, Unpick, Import, ImportBack, Load, List, Apply,
       CountPresets, AddPreset, DropPreset, Fail, Others, page

LEMMA Framed ==
  ASSUME IInv, UNCHANGED <<sel, once, dead, mailing>>
  PROVE  IInv'
BY DEF IInv, PageOK, MailingOK, NoStrangers

LEMMA Step ==
  ASSUME IInv, [Next]_vars
  PROVE  IInv'
<1>1. CASE Clicks
  <2>1. PageOK'
    BY <1>1, ClickPage DEF IInv
  <2>2. MailingOK'
    BY <1>1, ClickFrame DEF IInv, MailingOK, NoStrangers
  <2> QED BY <2>1, <2>2 DEF IInv
<1>2. ASSUME NEW p \in Procs, Requests(p) PROVE IInv'
  BY <1>2, RequestFrame, Framed
<1>3. CASE Send
  BY <1>3, SendStep
<1>4. CASE SelectPool
  BY <1>4, SelectPoolStep
<1>5. CASE SelectExplicit
  BY <1>5, SelectExplicitStep
<1>6. CASE Answer
  <2>1. mailing' = NoMailing /\ UNCHANGED <<sel, once, dead>>
    BY <1>6 DEF Answer, page
  <2> QED BY <2>1 DEF IInv, PageOK, MailingOK, MailingRec, NoMailing, NoFilter, Filters, RolesNeedAreas
<1>7. ASSUME NEW a, Verdict(a) PROVE IInv'
  <2>1. dead' \subseteq Rows /\ UNCHANGED <<sel, once, mailing>>
    BY <1>7 DEF Verdict, page, IInv, PageOK
  <2> QED BY <2>1 DEF IInv, PageOK, MailingOK, NoStrangers
<1>8. CASE UNCHANGED vars
  BY <1>8, Framed DEF vars, page
<1> QED BY <1>1, <1>2, <1>3, <1>4, <1>5, <1>6, <1>7, <1>8 DEF Next

LEMMA Start0 ==
  ASSUME Init
  PROVE  IInv
BY DEF Init, IInv, PageOK, MailingOK, MailingRec, NoMailing, NoFilter, Filters, RolesNeedAreas

LEMMA Always == Spec => []IInv
<1>1. Init => IInv
  BY Start0
<1>2. IInv /\ [Next]_vars => IInv'
  BY Step
<1> QED BY <1>1, <1>2, PTL DEF Spec

-----------------------------------------------------------------------------
\* A mailing reaches nobody outside the chosen areas but those given one by one,
\* for every register and every order of clicks (db.ts:125-135).
THEOREM NoStrangersEver == Spec => []NoStrangers
<1>1. IInv => NoStrangers
  <2>1. SUFFICES ASSUME IInv PROVE NoStrangers
    OBVIOUS
  <2>2. CASE mailing.pc \in {"none", "pool"}
    BY <2>1, <2>2 DEF IInv, MailingOK, NoStrangers
  <2>3. CASE mailing.pc = "explicit"
    BY <2>1, <2>3 DEF IInv, MailingOK, NoStrangers, Listed, AddressesOf, In
  <2>4. CASE mailing.pc = "done"
    BY <2>1, <2>4 DEF IInv, MailingOK
  <2> QED BY <2>1, <2>2, <2>3, <2>4 DEF IInv, MailingOK, MailingRec
<1> QED BY <1>1, Always, PTL

\* The committees' filter costs nobody a letter whom another chosen branch lists
\* (db.ts:152-154).
THEOREM LocalFilterStaysLocal == Spec => []LocalFilterIsLocal
<1>1. IInv => LocalFilterIsLocal
  BY DEF IInv, MailingOK, Spared, LocalFilterIsLocal
<1> QED BY <1>1, Always, PTL

\* Neither an excluded address nor one known as dead throughout is selected
\* (db.ts:129, 181, 186).
THEOREM DeadAndExcludedNever == Spec => NeverDeadOrExcluded
<1>1. ASSUME IInv, [Next]_vars, mailing.pc = "explicit", mailing'.pc = "done"
      PROVE  LET stillDead == mailing.dead \intersect dead IN
             /\ mailing'.to \intersect mailing.pay.exclude = {}
             /\ mailing'.to \intersect (AddressesOf(stillDead) \ AddressesOf(Rows \ stillDead)) = {}
  <2>1. SelectExplicit
    <3>1. mailing' # mailing /\ mailing' # NoMailing
      BY <1>1 DEF NoMailing
    <3>2. ~ Send /\ ~ SelectPool /\ ~ Answer
      BY <1>1, <3>1 DEF Send, SelectPool, Answer
    <3>3. ~ Clicks /\ \A p \in Procs : ~ Requests(p)
      BY <3>1, ClickFrame, RequestFrame
    <3>4. (\A a : ~ Verdict(a)) /\ ~ UNCHANGED vars
      BY <3>1 DEF Verdict, vars
    <3> QED BY <1>1, <3>2, <3>3, <3>4 DEF Next
  <2>2. mailing'.to = WithExplicit(mailing.pay, mailing.to, dead)
    BY <1>1, <2>1 DEF SelectExplicit, IInv, MailingOK, MailingRec
  <2>3. mailing.to \subseteq AddressesOf(Rows \ mailing.dead)
    BY <1>1 DEF IInv, MailingOK, Listed, AddressesOf
  <2>4. DEFINE stillDead == mailing.dead \intersect dead
  <2>5. AddressesOf(Rows \ mailing.dead) \subseteq AddressesOf(Rows \ stillDead)
    BY DEF AddressesOf
  <2>6. AddressesOf(Rows \ dead) \subseteq AddressesOf(Rows \ stillDead) /\ AddressesOf(stillDead) \subseteq AddressesOf(dead)
    BY DEF AddressesOf
  <2> HIDE DEF stillDead
  <2>7. mailing'.to \intersect (AddressesOf(stillDead) \ AddressesOf(Rows \ stillDead)) = {}
    BY <2>2, <2>3, <2>5, <2>6 DEF WithExplicit
  <2>8. mailing'.to \intersect mailing.pay.exclude = {}
    BY <2>2 DEF WithExplicit
  <2> QED BY <2>7, <2>8 DEF stillDead
<1>2. IInv /\ [Next]_vars =>
        [mailing.pc = "explicit" /\ mailing'.pc = "done" =>
           /\ mailing'.to \intersect mailing.pay.exclude = {}
           /\ LET stillDead == mailing.dead \intersect dead IN
              mailing'.to \intersect (AddressesOf(stillDead) \ AddressesOf(Rows \ stillDead)) = {}]_vars
  BY <1>1
<1> QED BY <1>2, Always, PTL DEF Spec, NeverDeadOrExcluded

-----------------------------------------------------------------------------
(* The address book and the page's picture of it.                          *)

\* A listing, and a request, as of a time when n ids were given out.
Listing(n) == [contacts : [Addresses -> 0..n], lists : [ListNames -> 0..n], members : SUBSET (Nat \X Nat)]
Args == {0} \union (SUBSET Addresses) \union (ListNames \X SUBSET Addresses)
Operations == {"none", "save", "import", "delete", "delete_list", "load", "preset", "preset_delete"}
Steps == {"none", "write", "back", "deleted", "list", "answered", "insert"}
Call(n) == [op : Operations, step : Steps, arg : Args, id : 0..n, data : Listing(n)]

CallOK(r, n) ==
  /\ r \in Call(n)
  /\ r.op = "save" => r.arg \in SUBSET Addresses
  /\ r.op = "import" => r.arg \in ListNames \X SUBSET Addresses

\* Presets that are counted and not yet inserted are paid for in advance.
Inserting == {p \in Procs : At(p, "preset", "insert")}

BookOK ==
  /\ made \in Nat
  /\ contact \in [Addresses -> 0..made] /\ list \in [ListNames -> 0..made]
  /\ member \subseteq ListIds \X ContactIds
  /\ Cardinality(Saved) <= MaxContacts

PresetsOK == preset \in Nat /\ preset + Cardinality(Inserting) <= MaxPresets + Cardinality(Procs) - 1

PickedOK == picked \subseteq 1..made /\ pickedLists \subseteq 1..made /\ data \in Listing(made)

CallsOK == req \in [Procs -> Call(made)] /\ \A p \in Procs : CallOK(req[p], made)

AccountInv == BookOK /\ PresetsOK /\ PickedOK /\ CallsOK

\* Ids that were given out stay so.
LEMMA CallsGrow ==
  ASSUME NEW n \in Nat, NEW m \in Nat, n <= m
  PROVE  0..n \subseteq 0..m /\ 1..n \subseteq 1..m /\ Listing(n) \subseteq Listing(m) /\ Call(n) \subseteq Call(m)
<1>1. 0..n \subseteq 0..m /\ 1..n \subseteq 1..m
  OBVIOUS
<1>2. Listing(n) \subseteq Listing(m)
  BY <1>1 DEF Listing
<1> QED BY <1>1, <1>2 DEF Call

\* Where nothing is given out, and calls and page stay as they are or move by
\* ids known before, all is as it was.
LEMMA CallStep ==
  ASSUME CallsOK, made \in Nat, made' \in Nat, made <= made', NEW p \in Procs, NEW r, CallOK(r, made'),
         req' = [req EXCEPT ![p] = r]
  PROVE  CallsOK'
<1>1. Call(made) \subseteq Call(made')
  BY CallsGrow
<1>2. r \in Call(made') /\ req \in [Procs -> Call(made)]
  BY DEF CallOK, CallsOK
<1>3. req' \in [Procs -> Call(made')]
  BY <1>1, <1>2
<1>4. \A q \in Procs : req'[q] = IF q = p THEN r ELSE req[q]
  BY <1>2
<1>5. \A q \in Procs : CallOK(req[q], made) => CallOK(req[q], made')
  BY <1>1 DEF CallOK
<1> QED BY <1>3, <1>4, <1>5 DEF CallsOK

\* What the page holds stays known.
LEMMA PickedGrow ==
  ASSUME PickedOK, made \in Nat, made' \in Nat, made <= made', UNCHANGED <<picked, pickedLists, data>>
  PROVE  PickedOK'
BY CallsGrow DEF PickedOK

\* What a listing returns.
LEMMA SnapshotType == ASSUME BookOK PROVE Snapshot \in Listing(made)
<1>1. ListIds \subseteq Nat /\ ContactIds \subseteq Nat
  BY DEF BookOK, ListIds, ContactIds, Saved
<1>2. member \in SUBSET (Nat \X Nat)
  BY <1>1 DEF BookOK
<1> QED BY <1>2 DEF BookOK, Snapshot, Listing

\* An upsert keeps old ids, and gives new ones to the new addresses.
LEMMA UpsertIds ==
  ASSUME BookOK, NEW es \in SUBSET Addresses, contact' \in Fresh(contact, es)
  PROVE  /\ Cardinality(es \ Saved) \in Nat
         /\ contact' \in [Addresses -> 0..(made + Cardinality(es \ Saved))]
         /\ \A e \in Addresses : contact[e] # 0 => contact'[e] = contact[e]
         /\ Saved' = Saved \union es
<1>1. IsFiniteSet(es) /\ IsFiniteSet(es \ Saved)
  BY AddressBookAssumption, FS_Subset
<1>2. PICK n \in Nat : n = Cardinality(es \ Saved)
  BY <1>1, FS_CardinalityType
<1>3. PICK k \in Nat : k = Cardinality(es)
  BY <1>1, FS_CardinalityType
<1>4. DOMAIN contact = Addresses /\ made \in Nat /\ contact \in [Addresses -> 0..made]
  BY DEF BookOK
<1>5. /\ contact' \in [Addresses -> 0..(made + k)]
      /\ \A e \in Addresses : e \notin es \/ contact[e] # 0 => contact'[e] = contact[e]
      /\ Ids(contact', {e \in es : contact[e] = 0}) = (made + 1)..(made + Cardinality({e \in es : contact[e] = 0}))
  BY <1>3, <1>4 DEF Fresh
<1>6. {e \in es : contact[e] = 0} = es \ Saved
  BY DEF Saved
<1>7. \A e \in es \ Saved : contact'[e] \in (made + 1)..(made + n)
  BY <1>2, <1>5, <1>6 DEF Ids
<1>8. \A e \in Addresses : contact'[e] \in 0..(made + n)
  <2>1. ASSUME NEW e \in Addresses, e \notin es \ Saved PROVE contact'[e] \in 0..made
    BY <2>1, <1>4, <1>5 DEF Saved
  <2> QED BY <2>1, <1>4, <1>7
<1>9. Saved' = Saved \union es
  <2>1. ASSUME NEW e \in Addresses PROVE contact'[e] # 0 <=> contact[e] # 0 \/ e \in es
    <3>1. CASE e \in es \ Saved
      BY <3>1, <1>4, <1>7
    <3>2. CASE e \notin es \ Saved
      BY <3>2, <1>5 DEF Saved
    <3> QED BY <3>1, <3>2
  <2> QED BY <2>1 DEF Saved
<1> QED BY <1>2, <1>5, <1>8, <1>9

\* Where contacts and lists keep their ids, members stay members.
LEMMA MembersStay ==
  ASSUME BookOK, NEW m \in member,
         \A e \in Addresses : contact[e] # 0 => contact'[e] = contact[e] \/ contact[e] # m[2],
         \A n \in ListNames : list[n] # 0 => list'[n] = list[n] \/ list[n] # m[1]
  PROVE  m \in ListIds' \X ContactIds'
<1>1. PICK l \in ListIds, i \in ContactIds : m = <<l, i>>
  BY DEF BookOK
<1>2. PICK n \in ListNames : list[n] = l /\ l # 0
  BY <1>1 DEF ListIds
<1>3. PICK e \in Addresses : contact[e] = i /\ i # 0
  BY <1>1 DEF ContactIds, Saved
<1>4. list'[n] = l /\ contact'[e] = i
  BY <1>1, <1>2, <1>3
<1> QED BY <1>1, <1>2, <1>3, <1>4 DEF ListIds, ContactIds, Saved

\* A contact is saved: the trigger keeps the limit.
LEMMA SaveStep ==
  ASSUME BookOK, NEW e \in Addresses, SaveContact(e)
  PROVE  BookOK' /\ made <= made'
<1> DEFINE n == Cardinality({e} \ Saved)
<1>1. /\ Cardinality(Saved \union {e}) <= MaxContacts /\ contact' \in Fresh(contact, {e})
      /\ made' = made + n /\ UNCHANGED <<list, member>>
  BY DEF SaveContact, Upsert
<1>2. /\ n \in Nat /\ contact' \in [Addresses -> 0..(made + n)]
      /\ \A a \in Addresses : contact[a] # 0 => contact'[a] = contact[a]
      /\ Saved' = Saved \union {e}
  BY <1>1, UpsertIds
<1> HIDE DEF n
<1>3. made \in Nat /\ list \in [ListNames -> 0..made]
  BY DEF BookOK
<1>4. made' \in Nat /\ made <= made' /\ list' \in [ListNames -> 0..made']
  BY <1>1, <1>2, <1>3, CallsGrow
<1>5. member' \subseteq ListIds' \X ContactIds'
  BY <1>1, <1>2, MembersStay
<1>6. Cardinality(Saved') <= MaxContacts
  BY <1>1, <1>2
<1> QED BY <1>1, <1>2, <1>4, <1>5, <1>6 DEF BookOK

\* A contact goes, and its memberships with it.
LEMMA DeleteContactStep ==
  ASSUME BookOK, NEW id, DeleteContact(id)
  PROVE  BookOK' /\ made' = made
<1>1. /\ contact' = [e \in Addresses |-> IF contact[e] = id THEN 0 ELSE contact[e]]
      /\ member' = {m \in member : m[2] # id} /\ UNCHANGED <<list, preset, made>>
  BY DEF DeleteContact
<1>2. made \in Nat /\ contact \in [Addresses -> 0..made] /\ list \in [ListNames -> 0..made]
  BY DEF BookOK
<1>3. contact' \in [Addresses -> 0..made]
  BY <1>1, <1>2
<1>4. member' \subseteq ListIds' \X ContactIds'
  BY <1>1, MembersStay
<1>5. Cardinality(Saved') <= MaxContacts
  <2>1. Saved' \subseteq Saved
    BY <1>1 DEF Saved
  <2>2. IsFiniteSet(Saved)
    BY AddressBookAssumption, FS_Subset DEF Saved
  <2>3. /\ Cardinality(Saved') <= Cardinality(Saved)
        /\ Cardinality(Saved') \in Nat /\ Cardinality(Saved) \in Nat
    BY <2>1, <2>2, FS_Subset, FS_CardinalityType
  <2>4. Cardinality(Saved) <= MaxContacts
    BY DEF BookOK
  <2> QED BY <2>3, <2>4, AddressBookAssumption
<1> QED BY <1>1, <1>2, <1>3, <1>4, <1>5 DEF BookOK

\* A list goes, and its members with it.
LEMMA DeleteListStep ==
  ASSUME BookOK, NEW id, DeleteList(id)
  PROVE  BookOK' /\ made' = made
<1>1. /\ list' = [n \in ListNames |-> IF list[n] = id THEN 0 ELSE list[n]]
      /\ member' = {m \in member : m[1] # id} /\ UNCHANGED <<contact, preset, made>>
  BY DEF DeleteList
<1>2. made \in Nat /\ list \in [ListNames -> 0..made] /\ list' \in [ListNames -> 0..made]
  BY <1>1 DEF BookOK
<1>3. member' \subseteq ListIds' \X ContactIds'
  BY <1>1, MembersStay
<1>4. Saved' = Saved
  BY <1>1 DEF Saved
<1> QED BY <1>1, <1>2, <1>3, <1>4 DEF BookOK

\* A list is imported, over its old one or as a new one.
LEMMA ImportStep ==
  ASSUME BookOK, NEW name \in ListNames, NEW es \in SUBSET Addresses, ImportList(name, es)
  PROVE  BookOK' /\ made <= made'
<1> DEFINE k == Cardinality(es \ Saved)
           l == IF list[name] # 0 THEN list[name] ELSE made + k + 1
<1>1. /\ Cardinality(Saved \union es) <= MaxContacts /\ contact' \in Fresh(contact, es)
      /\ list' = [list EXCEPT ![name] = l]
      /\ member' = {m \in member : m[1] # l} \union {<<l, contact'[e]>> : e \in es}
      /\ made' = made + k + (IF list[name] = 0 THEN 1 ELSE 0)
  BY DEF ImportList
<1>2. /\ k \in Nat /\ contact' \in [Addresses -> 0..(made + k)]
      /\ \A a \in Addresses : contact[a] # 0 => contact'[a] = contact[a]
      /\ Saved' = Saved \union es
  BY <1>1, UpsertIds
<1>3. made \in Nat /\ list \in [ListNames -> 0..made]
  BY DEF BookOK
<1> HIDE DEF k
<1>4. l \in 1..made' /\ (list[name] # 0 => l = list[name])
  <2>1. CASE list[name] # 0
    BY <2>1, <1>1, <1>2, <1>3
  <2>2. CASE list[name] = 0
    <3>1. l = made + k + 1 /\ made' = made + k + 1
      BY <2>2, <1>1
    <3> QED BY <3>1, <1>2, <1>3, <2>2
  <2> QED BY <2>1, <2>2
<1>5. made' \in Nat /\ made <= made' /\ made + k <= made'
  <2>1. made' = made + k \/ made' = made + k + 1
    BY <1>1, <1>2, <1>3
  <2> QED BY <2>1, <1>2, <1>3
<1> HIDE DEF l
<1>6. list' \in [ListNames -> 0..made'] /\ contact' \in [Addresses -> 0..made']
  BY <1>1, <1>2, <1>3, <1>4, <1>5
<1>7. \A m \in member : m \in ListIds' \X ContactIds'
  BY <1>1, <1>2, <1>3, <1>4, MembersStay
<1>8. \A e \in es : <<l, contact'[e]>> \in ListIds' \X ContactIds'
  <2>1. l \in ListIds'
    BY <1>1, <1>3, <1>4 DEF ListIds
  <2>2. \A e \in es : contact'[e] \in ContactIds'
    BY <1>2 DEF ContactIds
  <2> QED BY <2>1, <2>2
<1>9. member' \subseteq ListIds' \X ContactIds'
  BY <1>1, <1>7, <1>8
<1>10. Cardinality(Saved') <= MaxContacts
  BY <1>1, <1>2
<1> QED BY <1>5, <1>6, <1>9, <1>10 DEF BookOK

\* A call goes on with another step, or what it found.
LEMMA GoOK ==
  ASSUME NEW n \in Nat, NEW r, CallOK(r, n), NEW s \in Steps
  PROVE  CallOK([r EXCEPT !.step = s], n) /\ CallOK(NoRequest, n)
<1>1. [r EXCEPT !.step = s] \in Call(n)
  BY DEF CallOK, Call
<1>2. [r EXCEPT !.step = s].op = r.op /\ [r EXCEPT !.step = s].arg = r.arg
  BY DEF CallOK, Call
<1>3. NoData \in Listing(n)
  BY DEF NoData, Listing
<1>4. NoRequest \in Call(n)
  <2>1. 0 \in Args
    BY DEF Args
  <2>2. 0 \in 0..n
    OBVIOUS
  <2> QED BY <1>3, <2>1, <2>2 DEF NoRequest, Call, Operations, Steps
<1> QED BY <1>1, <1>2, <1>4 DEF CallOK, NoRequest

\* A call that does not come to its INSERT costs no preset.
LEMMA PresetsStay ==
  ASSUME PresetsOK, CallsOK, NEW p \in Procs, NEW r, req' = [req EXCEPT ![p] = r],
         r.op # "preset" \/ r.step # "insert", preset' \in Nat, preset' <= preset
  PROVE  PresetsOK'
<1>1. Inserting' \subseteq Inserting
  BY DEF Inserting, At, CallsOK
<1>2. IsFiniteSet(Inserting) /\ Cardinality(Procs) \in Nat
  BY ComposerAssumption, FS_Subset, FS_CardinalityType DEF Inserting
<1>3. /\ Cardinality(Inserting') <= Cardinality(Inserting)
      /\ Cardinality(Inserting') \in Nat /\ Cardinality(Inserting) \in Nat
  BY <1>1, <1>2, FS_Subset, FS_CardinalityType
<1> QED BY <1>2, <1>3, AddressBookAssumption DEF PresetsOK

\* One call moves, with what its step did to the book and to the page.
LEMMA Moved ==
  ASSUME AccountInv, BookOK', made <= made', PickedOK', NEW p \in Procs, NEW r, CallOK(r, made'),
         req' = [req EXCEPT ![p] = r], r.op # "preset" \/ r.step # "insert", preset' \in Nat, preset' <= preset
  PROVE  AccountInv'
<1>1. made \in Nat /\ made' \in Nat
  BY DEF AccountInv, BookOK
<1>2. CallsOK'
  BY <1>1, CallStep DEF AccountInv
<1>3. PresetsOK'
  BY PresetsStay DEF AccountInv
<1> QED BY <1>2, <1>3 DEF AccountInv

\* The steps that write contacts and lists.
LEMMA WritesStep ==
  ASSUME AccountInv, NEW p \in Procs, Save(p) \/ Delete(p) \/ Remove(p) \/ Import(p)
  PROVE  AccountInv'
<1>1. made \in Nat /\ BookOK /\ PickedOK /\ CallOK(req[p], made) /\ req[p] \in Call(made) /\ preset \in Nat
  BY DEF AccountInv, BookOK, CallsOK, PresetsOK
<1>2. UNCHANGED <<picked, pickedLists, data>> /\ preset' = preset
  BY DEF Save, Delete, Remove, Import, page, SaveContact, DeleteContact, DeleteList, ImportList
<1>3. BookOK' /\ made <= made'
  <2>1. ASSUME Save(p) PROVE BookOK' /\ made <= made'
    <3>1. req[p].arg \in SUBSET Addresses
      BY <2>1, <1>1 DEF Save, At, CallOK
    <3> QED BY <2>1, <3>1, <1>1, SaveStep DEF Save
  <2>2. ASSUME Import(p) PROVE BookOK' /\ made <= made'
    <3>1. req[p].arg[1] \in ListNames /\ req[p].arg[2] \in SUBSET Addresses
      BY <2>2, <1>1 DEF Import, At, CallOK
    <3> QED BY <2>2, <3>1, <1>1, ImportStep DEF Import
  <2>3. ASSUME Delete(p) PROVE BookOK' /\ made <= made'
    BY <2>3, <1>1, DeleteContactStep DEF Delete
  <2>4. ASSUME Remove(p) PROVE BookOK' /\ made <= made'
    BY <2>4, <1>1, DeleteListStep DEF Remove
  <2> QED BY <2>1, <2>2, <2>3, <2>4
<1>4. PICK s \in {"back", "deleted"} : req' = [req EXCEPT ![p] = [req[p] EXCEPT !.step = s]]
  <2>1. \E s \in {"back", "deleted"} : Go(p, s)
    BY DEF Save, Delete, Remove, Import
  <2> QED BY <2>1 DEF Go
<1>5. made' \in Nat
  BY <1>3 DEF BookOK
<1>6. CallOK(req[p], made')
  BY <1>1, <1>3, <1>5, CallsGrow DEF CallOK
<1>7. PICK r : r = [req[p] EXCEPT !.step = s]
  OBVIOUS
<1>8. CallOK(r, made')
  <2>1. s \in Steps
    BY <1>4 DEF Steps
  <2>2. CallOK([req[p] EXCEPT !.step = s], made')
    BY <2>1, <1>5, <1>6, GoOK
  <2> QED BY <2>2, <1>7
<1>9. r.step # "insert"
  BY <1>1, <1>7 DEF Call
<1>10. PickedOK'
  BY <1>1, <1>2, <1>3, <1>5, PickedGrow
<1>11. req' = [req EXCEPT ![p] = r] /\ preset' \in Nat /\ preset' <= preset
  BY <1>1, <1>2, <1>4, <1>7
<1> QED BY <1>3, <1>8, <1>9, <1>10, <1>11, Moved

\* A call that only reads, or is asked for, or ends: what it knows afterwards.
LEMMA ReadsKnow ==
  ASSUME AccountInv, NEW p \in Procs,
         \/ Starts(p) \/ SaveBack(p) \/ ImportBack(p) \/ Load(p) \/ List(p) \/ Fail(p)
         \/ (CountPresets(p) /\ End(p)) \/ DropPreset(p)
  PROVE  \E r : CallOK(r, made) /\ req' = [req EXCEPT ![p] = r] /\ r.step # "insert"
<1> DEFINE Known == \E r : CallOK(r, made) /\ req' = [req EXCEPT ![p] = r] /\ r.step # "insert"
<1>1. /\ made \in Nat /\ BookOK /\ CallOK(req[p], made) /\ req[p] \in Call(made) /\ data \in Listing(made)
      /\ req \in [Procs -> Call(made)]
  BY DEF AccountInv, BookOK, CallsOK, PickedOK
<1>2. CallOK(NoRequest, made) /\ \A s \in Steps : CallOK([req[p] EXCEPT !.step = s], made)
  <2>1. "list" \in Steps
    BY DEF Steps
  <2>2. \A s \in Steps : CallOK([req[p] EXCEPT !.step = s], made)
    BY <1>1, GoOK
  <2>3. CallOK(NoRequest, made)
    BY <1>1, <2>1, GoOK
  <2> QED BY <2>2, <2>3
<1>3. ASSUME End(p) PROVE Known
  <2>1. NoRequest.step # "insert"
    BY DEF NoRequest
  <2> QED BY <2>1, <1>2, <1>3 DEF End
<1>4. ASSUME NEW op \in Operations, NEW arg \in Args, NEW id \in 0..made, Start(p, op, arg, id),
             op = "save" => arg \in SUBSET Addresses, op = "import" => arg \in ListNames \X SUBSET Addresses
      PROVE  Known
  <2>1. PICK r : r = [NoRequest EXCEPT !.op = op, !.step = "write", !.arg = arg, !.id = id]
    OBVIOUS
  <2>2. NoRequest \in Call(made)
    BY <1>2 DEF CallOK
  <2>3. r \in Call(made) /\ r.op = op /\ r.arg = arg /\ r.step = "write"
    BY <2>1, <2>2, <1>4 DEF Call, Steps
  <2>4. req' = [req EXCEPT ![p] = r]
    BY <2>1, <1>4 DEF Start
  <2>5. CallOK(r, made)
    BY <2>3, <1>4 DEF CallOK
  <2> QED BY <2>3, <2>4, <2>5
<1>5. ASSUME Starts(p) PROVE Known
  <2>1. ASSUME NEW e \in Addresses, Start(p, "save", {e}, 0) PROVE Known
    <3>1. {e} \in SUBSET Addresses /\ {e} \in Args
      BY DEF Args
    <3>2. "save" \in Operations /\ "save" # "import" /\ 0 \in 0..made
      BY <1>1 DEF Operations
    <3> QED BY <2>1, <3>1, <3>2, <1>4
  <2>2. ASSUME NEW n \in ListNames, NEW es \in SUBSET Addresses, Start(p, "import", <<n, es>>, 0) PROVE Known
    <3>1. <<n, es>> \in ListNames \X SUBSET Addresses /\ <<n, es>> \in Args
      BY DEF Args
    <3>2. "import" \in Operations /\ "save" # "import" /\ 0 \in 0..made
      BY <1>1 DEF Operations
    <3> QED BY <2>2, <3>1, <3>2, <1>4
  <2>3. ASSUME NEW op \in Operations \ {"save", "import"}, NEW id \in 0..made, Start(p, op, {}, id) PROVE Known
    <3>1. {} \in Args
      BY DEF Args
    <3> QED BY <2>3, <3>1, <1>4
  <2>4. Shown(data.contacts) \subseteq 0..made /\ Shown(data.lists) \subseteq 0..made
    BY <1>1 DEF Shown, Listing
  <2>5. /\ {"delete", "delete_list"} \subseteq Operations \ {"save", "import"}
        /\ {"load", "preset", "preset_delete"} \subseteq Operations \ {"save", "import"}
    BY DEF Operations
  <2>6. 0 \in 0..made
    BY <1>1
  <2>7. CASE \E id \in Shown(data.contacts) : Start(p, "delete", {}, id)
    BY <2>3, <2>4, <2>5, <2>7
  <2>8. CASE \E id \in Shown(data.lists) : Start(p, "delete_list", {}, id)
    BY <2>3, <2>4, <2>5, <2>8
  <2>9. CASE \E op \in {"load", "preset", "preset_delete"} : Start(p, op, {}, 0)
    BY <2>3, <2>5, <2>6, <2>9
  <2> QED BY <1>5, <2>1, <2>2, <2>7, <2>8, <2>9 DEF Starts
<1>6. ASSUME NEW id \in 0..made, req' = [req EXCEPT ![p].step = "list", ![p].id = id] PROVE Known
  <2>1. PICK r : r = [req[p] EXCEPT !.step = "list", !.id = id]
    OBVIOUS
  <2>2. r \in Call(made) /\ r.op = req[p].op /\ r.arg = req[p].arg /\ r.step = "list"
    BY <2>1, <1>1 DEF Call, Steps
  <2>3. req' = [req EXCEPT ![p] = r]
    BY <2>1, <1>6, <1>1
  <2> QED BY <2>2, <2>3, <1>1 DEF CallOK
<1>7. ASSUME SaveBack(p) PROVE Known
  <2>1. req[p].arg \in SUBSET Addresses
    BY <1>1, <1>7 DEF SaveBack, At, CallOK
  <2>2. PICK e \in Addresses : req' = [req EXCEPT ![p].step = "list", ![p].id = contact[e]]
    BY <2>1, <1>7 DEF SaveBack
  <2>3. contact[e] \in 0..made
    BY <1>1 DEF BookOK
  <2> QED BY <2>2, <2>3, <1>6
<1>8. ASSUME ImportBack(p) PROVE Known
  <2>1. req[p].arg[1] \in ListNames
    BY <1>1, <1>8 DEF ImportBack, At, CallOK
  <2>2. list[req[p].arg[1]] \in 0..made
    BY <2>1, <1>1 DEF BookOK
  <2> QED BY <2>2, <1>3, <1>6, <1>8 DEF ImportBack
<1>9. ASSUME Load(p) PROVE Known
  <2>1. PICK r : r = [req[p] EXCEPT !.step = "list"]
    OBVIOUS
  <2>2. "list" \in Steps /\ r.step = "list"
    BY <2>1, <1>1 DEF Steps, Call
  <2> QED BY <2>1, <2>2, <1>2, <1>9 DEF Load, Go
<1>10. ASSUME List(p) PROVE Known
  <2>1. Snapshot \in Listing(made)
    BY <1>1, SnapshotType
  <2>2. PICK r : r = [req[p] EXCEPT !.step = "answered", !.data = Snapshot]
    OBVIOUS
  <2>3. r \in Call(made) /\ r.op = req[p].op /\ r.arg = req[p].arg /\ r.step = "answered"
    BY <2>1, <2>2, <1>1 DEF Call, Steps
  <2>4. req' = [req EXCEPT ![p] = r]
    BY <2>2, <1>10, <1>1 DEF List
  <2> QED BY <2>3, <2>4, <1>1 DEF CallOK
<1> QED BY <1>3, <1>5, <1>7, <1>8, <1>9, <1>10 DEF Fail, DropPreset

\* Nothing but a preset may go at these steps.
LEMMA ReadsStep ==
  ASSUME AccountInv, NEW p \in Procs,
         \/ Starts(p) \/ SaveBack(p) \/ ImportBack(p) \/ Load(p) \/ List(p) \/ Fail(p)
         \/ (CountPresets(p) /\ End(p)) \/ DropPreset(p)
  PROVE  AccountInv'
<1>1. PICK r : CallOK(r, made) /\ req' = [req EXCEPT ![p] = r] /\ r.step # "insert"
  BY ReadsKnow
<1>2. made \in Nat /\ preset \in Nat /\ BookOK /\ PickedOK
  BY DEF AccountInv, BookOK, PresetsOK
<1>3. UNCHANGED <<contact, list, member, made, picked, pickedLists, data>>
  BY DEF Starts, Start, SaveBack, ImportBack, Load, List, Fail, CountPresets, DropPreset, DeletePreset, book, page
<1>4. preset' \in Nat /\ preset' <= preset
  <2>1. preset' = preset \/ (preset > 0 /\ preset' = preset - 1)
    BY DEF Starts, Start, SaveBack, ImportBack, Load, List, Fail, CountPresets, DropPreset, DeletePreset, book
  <2> QED BY <2>1, <1>2
<1>5. BookOK'
  BY <1>2, <1>3 DEF BookOK, ListIds, ContactIds, Saved
<1>6. PickedOK'
  BY <1>2, <1>3 DEF PickedOK
<1>7. made <= made' /\ CallOK(r, made')
  BY <1>1, <1>2, <1>3
<1> QED BY <1>1, <1>4, <1>5, <1>6, <1>7, Moved

\* A preset is counted while there is room: every call may insert one.
LEMMA CountStep ==
  ASSUME AccountInv, NEW p \in Procs, CountPresets(p)
  PROVE  AccountInv'
<1>1. CASE End(p)
  BY <1>1, ReadsStep
<1>2. CASE ~End(p)
  <2>1. preset < MaxPresets /\ Go(p, "insert") /\ UNCHANGED <<book, page>>
    <3>1. preset \in Nat
      BY DEF AccountInv, PresetsOK
    <3> QED BY <3>1, <1>2, AddressBookAssumption DEF CountPresets
  <2>2. PICK r : r = [req[p] EXCEPT !.step = "insert"]
    OBVIOUS
  <2>3. CallOK(r, made)
    <3>1. "insert" \in Steps
      BY DEF Steps
    <3>2. CallOK(req[p], made) /\ made \in Nat
      BY DEF AccountInv, CallsOK, BookOK
    <3> QED BY <2>2, <3>1, <3>2, GoOK
  <2>4. made' = made /\ made \in Nat /\ preset' = preset
    BY <2>1 DEF book, AccountInv, BookOK
  <2>5. CallsOK'
    <3>1. req' = [req EXCEPT ![p] = r]
      BY <2>1, <2>2 DEF Go
    <3>2. made' \in Nat /\ made <= made' /\ CallOK(r, made')
      BY <2>3, <2>4
    <3>3. CallsOK
      BY DEF AccountInv
    <3> QED BY <3>1, <3>2, <3>3, <2>4, CallStep
  <2>6. PresetsOK'
    <3>1. IsFiniteSet(Procs) /\ Inserting' \subseteq Procs
      BY ComposerAssumption DEF Inserting
    <3>2. /\ Cardinality(Inserting') <= Cardinality(Procs)
          /\ Cardinality(Inserting') \in Nat /\ Cardinality(Procs) \in Nat
      BY <3>1, FS_Subset, FS_CardinalityType
    <3> QED BY <3>2, <2>1, <2>4, AddressBookAssumption DEF PresetsOK, AccountInv
  <2>7. BookOK' /\ PickedOK'
    BY <2>1 DEF AccountInv, book, page, BookOK, ListIds, ContactIds, Saved, PickedOK
  <2> QED BY <2>5, <2>6, <2>7 DEF AccountInv
<1> QED BY <1>1, <1>2

\* The preset that is inserted was paid for when it was counted.
LEMMA InsertStep ==
  ASSUME AccountInv, NEW p \in Procs, AddPreset(p)
  PROVE  AccountInv'
<1>1. /\ At(p, "preset", "insert") /\ preset' = preset + 1 /\ req' = [req EXCEPT ![p] = NoRequest]
      /\ UNCHANGED <<contact, list, member, made, page>>
  BY DEF AddPreset, InsertPreset, End
<1>2. made \in Nat /\ preset \in Nat /\ req \in [Procs -> Call(made)] /\ NoRequest.step = "none"
  BY DEF AccountInv, BookOK, PresetsOK, CallsOK, NoRequest
<1>3. Inserting' = Inserting \ {p} /\ p \in Inserting
  BY <1>1, <1>2 DEF Inserting, At
<1>4. IsFiniteSet(Inserting)
  BY ComposerAssumption, FS_Subset DEF Inserting
<1>5. Cardinality(Inserting') = Cardinality(Inserting) - 1 /\ Cardinality(Inserting) \in Nat
  BY <1>3, <1>4, FS_RemoveElement, FS_CardinalityType
<1>6. IsFiniteSet(Procs) /\ Cardinality(Procs) \in Nat
  BY ComposerAssumption, FS_CardinalityType
<1>7. PresetsOK'
  BY <1>1, <1>2, <1>5, <1>6, AddressBookAssumption DEF AccountInv, PresetsOK
<1>8. CallsOK'
  <2>1. CallOK(NoRequest, made)
    <3>1. "insert" \in Steps
      BY DEF Steps
    <3>2. CallOK(req[p], made)
      BY DEF AccountInv, CallsOK
    <3> QED BY <3>1, <3>2, <1>2, GoOK
  <2>2. made' \in Nat /\ made <= made' /\ CallOK(NoRequest, made')
    BY <2>1, <1>1, <1>2
  <2>3. CallsOK
    BY DEF AccountInv
  <2> QED BY <2>2, <2>3, <1>1, <1>2, CallStep
<1>9. BookOK' /\ PickedOK'
  BY <1>1 DEF AccountInv, page, BookOK, ListIds, ContactIds, Saved, PickedOK
<1> QED BY <1>7, <1>8, <1>9 DEF AccountInv

\* The answers that change what is picked.
LEMMA AnswersStep ==
  ASSUME AccountInv, NEW p \in Procs, Unpick(p) \/ Apply(p)
  PROVE  AccountInv'
<1>1. /\ made \in Nat /\ preset \in Nat /\ BookOK /\ CallOK(req[p], made) /\ req[p] \in Call(made)
      /\ picked \subseteq 1..made /\ pickedLists \subseteq 1..made /\ data \in Listing(made)
  BY DEF AccountInv, BookOK, PresetsOK, CallsOK, PickedOK
<1>2. UNCHANGED <<contact, list, member, preset, made>>
  BY DEF Unpick, Apply, book
<1>3. PickedOK'
  <2>1. CASE Unpick(p)
    BY <2>1, <1>1, <1>2 DEF Unpick, PickedOK
  <2>2. CASE Apply(p)
    <3>1. req[p].data \in Listing(made) /\ req[p].id \in 0..made
      BY <1>1 DEF Call
    <3>2. {req[p].id} \ {0} \subseteq 1..made
      BY <3>1, <1>1
    <3> QED BY <2>2, <3>1, <3>2, <1>1, <1>2 DEF Apply, PickedOK
  <2> QED BY <2>1, <2>2
<1>4. PICK r : CallOK(r, made) /\ req' = [req EXCEPT ![p] = r] /\ r.step # "insert"
  <2>1. "list" \in Steps /\ NoRequest.step # "insert"
    BY DEF Steps, NoRequest
  <2>2. CallOK([req[p] EXCEPT !.step = "list"], made) /\ CallOK(NoRequest, made)
    BY <2>1, <1>1, GoOK
  <2>3. [req[p] EXCEPT !.step = "list"].step = "list"
    BY <1>1 DEF Call
  <2> QED BY <2>1, <2>2, <2>3 DEF Unpick, Apply, Go, End
<1>5. BookOK'
  BY <1>1, <1>2 DEF BookOK, ListIds, ContactIds, Saved
<1>6. made <= made' /\ CallOK(r, made') /\ preset' \in Nat /\ preset' <= preset
  BY <1>1, <1>2, <1>4
<1> QED BY <1>3, <1>4, <1>5, <1>6, Moved

\* Clicks pick what is listed.
LEMMA ClicksStep ==
  ASSUME AccountInv, Clicks
  PROVE  AccountInv'
<1>1. UNCHANGED <<contact, list, member, preset, made, data, req>>
  BY DEF Clicks, PickAreas, DropAreas, FlipRole, FlipParty, FlipBody, FlipTopic, Include, Exclude, Unchip, FlipOnce,
         PrivateOnly, PickLevel, FlipContact, FlipList, Click, book
<1>2. \/ UNCHANGED <<picked, pickedLists>>
      \/ picked' = {} /\ pickedLists' = {}
      \/ \E id \in 1..made : \/ picked' = Flip(id, picked) /\ UNCHANGED pickedLists
                             \/ pickedLists' = Flip(id, pickedLists) /\ UNCHANGED picked
  BY DEF Clicks, PickAreas, DropAreas, FlipRole, FlipParty, FlipBody, FlipTopic, Include, Exclude, Unchip, FlipOnce,
         PrivateOnly, PickLevel, FlipContact, FlipList, Keep
<1>3. picked' \subseteq 1..made /\ pickedLists' \subseteq 1..made
  BY <1>2 DEF AccountInv, PickedOK, Flip
<1> QED BY <1>1, <1>3 DEF AccountInv, BookOK, ListIds, ContactIds, Saved, PresetsOK, Inserting, At, PickedOK, CallsOK

\* Every step keeps account and page together.
LEMMA AccountStep ==
  ASSUME AccountInv, [Next]_vars
  PROVE  AccountInv'
<1>1. ASSUME NEW p \in Procs, Requests(p) PROVE AccountInv'
  <2>1. CountPresets(p) => AccountInv'
    BY CountStep
  <2> QED BY <2>1, <1>1, WritesStep, ReadsStep, InsertStep, AnswersStep DEF Requests
<1>2. CASE UNCHANGED <<book, page, req>>
  BY <1>2 DEF book, page, AccountInv, BookOK, ListIds, ContactIds, Saved, PresetsOK, Inserting, At, PickedOK, CallsOK
<1> QED BY <1>1, <1>2, ClicksStep DEF Next, Send, SelectPool, SelectExplicit, Answer, Verdict, vars

\* An empty account, and a page that knows of nothing.
LEMMA Account0 ==
  ASSUME Init
  PROVE  AccountInv
<1>1. made = 0 /\ preset = 0 /\ NoData \in Listing(0)
  BY DEF Init, NoData, Listing
<1>2. contact = [e \in Addresses |-> 0] /\ list = [n \in ListNames |-> 0] /\ member = {}
  BY DEF Init, NoData
<1>3. Saved = {} /\ Cardinality({}) = 0
  BY <1>2, FS_EmptySet DEF Saved
<1>4. BookOK
  BY <1>1, <1>2, <1>3, AddressBookAssumption DEF BookOK
<1>5. NoRequest \in Call(0) /\ NoRequest.op = "none" /\ NoRequest.step = "none"
  <2>1. 0 \in Args
    BY DEF Args
  <2> QED BY <1>1, <2>1 DEF NoRequest, Call, Operations, Steps
<1>6. CallsOK /\ Inserting = {}
  BY <1>1, <1>5 DEF Init, CallsOK, CallOK, Inserting, At
<1>7. PresetsOK
  <2>1. Cardinality(Procs) \in Nat
    BY ComposerAssumption, FS_CardinalityType
  <2> QED BY <2>1, <1>1, <1>3, <1>6, AddressBookAssumption DEF PresetsOK
<1>8. PickedOK
  BY <1>1 DEF Init, PickedOK
<1> QED BY <1>4, <1>6, <1>7, <1>8 DEF AccountInv

\* Type correctness, with the foreign keys and the account's limits: a list's
\* members are live contacts of live lists, however calls overlap, fail and are
\* overtaken, and presets pass their limit by less than there are calls
\* (private-contacts.ts, letter-intro-presets.ts:58, migrations 0002 and 0004).
THEOREM TypesHold == Spec => []TypeOK
<1>1. Init => AccountInv
  BY Account0
<1>2. AccountInv /\ [Next]_vars => AccountInv'
  BY AccountStep
<1>3. AccountInv /\ IInv => TypeOK
  <2> SUFFICES ASSUME AccountInv, IInv PROVE TypeOK
    OBVIOUS
  <2>1. preset <= MaxPresets + Cardinality(Procs) - 1
    <3>1. Cardinality(Procs) \in Nat /\ Cardinality(Inserting) \in Nat
      BY ComposerAssumption, FS_Subset, FS_CardinalityType DEF Inserting
    <3> QED BY <3>1, AddressBookAssumption DEF AccountInv, PresetsOK
  <2> QED BY <2>1 DEF AccountInv, BookOK, PickedOK, IInv, PageOK, MailingOK, Filters, MailingRec, TypeOK
<1> QED BY <1>1, <1>2, <1>3, Always, PTL DEF Spec
=============================================================================
