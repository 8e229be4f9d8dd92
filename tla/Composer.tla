------------------------------ MODULE Composer ------------------------------
(***************************************************************************)
(* Choosing the recipients of a mailing: the page's selection              *)
(* (app/public/app.js, app-send.js, recipient-filter-groups.js), the       *)
(* address book it shows, the requests between the two, and the selection  *)
(* the server makes of what the page sent (getRecipientsForAreas).  A      *)
(* click is one synchronous handler.  The three SELECTs of a listing are   *)
(* taken as one, and clicks while a mailing is on its way are left out:    *)
(* its payload was taken at the click.                                     *)
(***************************************************************************)
EXTENDS RecipientSelection, AddressBook

CONSTANTS
  Procs,       \* requests of the page that may be under way together
  MaxSteps,    \* bound: clicks, and requests counted twice
  MaxVerdicts  \* bound: results of other mailings

ASSUME ComposerAssumption ==
  Addresses \subseteq Emails /\ IsFiniteSet(Procs) /\ {MaxSteps, MaxVerdicts} \subseteq Nat

VARIABLES
  sel,         \* the filters, as NoFilter
  once,        \* oneTimeRecipients
  picked,      \* privateSelectedContactIds
  pickedLists, \* privateSelectedListIds
  data,        \* privateRecipientData
  dead,        \* rows with verification_status dead or dead_via_send
  mailing,     \* POST /api/send, up to its recipients
  req,         \* requests to the address book
  steps, verdicts

page == <<sel, once, picked, pickedLists, data>>
bounds == <<steps, verdicts>>
vars == <<book, page, dead, mailing, req, bounds>>

NoData == [contacts |-> [e \in Addresses |-> 0], lists |-> [n \in ListNames |-> 0], members |-> {}]
NoRequest == [op |-> "none", step |-> "none", arg |-> 0, id |-> 0, data |-> NoData]
NoMailing == [pc |-> "none", pay |-> NoFilter, pool |-> {}, dead |-> {}, to |-> {}]

Init ==
  /\ contact = NoData.contacts /\ list = NoData.lists /\ member = {} /\ preset = 0 /\ made = 0
  /\ sel = NoFilter /\ once = {} /\ picked = {} /\ pickedLists = {} /\ data = NoData
  /\ dead = {} /\ mailing = NoMailing
  /\ req = [p \in Procs |-> NoRequest]
  /\ steps = 0 /\ verdicts = 0

-----------------------------------------------------------------------------
(* Clicks.  Every change of the areas is followed by renderAdvanced.       *)

Areas == DOMAIN AreaType
TypesOf(areas) == {AreaType[a] : a \in areas}

\* Variant of Organise: forgets only what its own branch's box hides.
OrganiseBranches(f) ==
  LET types == TypesOf(f.areas) IN
  [f EXCEPT
     !.media = IF "media" \in types THEN @ ELSE {},
     !.fields = IF "academia" \in types THEN @ ELSE {},
     !.bodies = IF types \intersect Local # {} THEN @ ELSE {}]

\* A filter without an area that it applies to is forgotten.
Organise(f) ==
  LET types == TypesOf(f.areas) IN
  [f EXCEPT
     !.media = IF "media" \in types THEN @ ELSE {},
     !.fields = IF "academia" \in types THEN @ ELSE {},
     !.bodies = IF types \intersect Local # {} THEN @ ELSE {},
     !.roles = IF types \intersect Political # {} THEN @ ELSE {},
     !.parties = IF types \intersect Political # {} THEN @ ELSE {}]

Click ==
  /\ mailing.pc = "none" /\ steps < MaxSteps /\ steps' = steps + 1
  /\ UNCHANGED <<book, data, dead, mailing, req, verdicts>>

Keep == UNCHANGED <<once, picked, pickedLists>>
Flip(x, set) == IF x \in set THEN set \ {x} ELSE set \union {x}

\* The areas one control stands for: its own, those of its type, or all.
Controls == {{a} : a \in Areas} \union {{a \in Areas : AreaType[a] = t} : t \in TypesOf(Areas)} \union {Areas}

\* A type's button adds or removes by how it was last drawn.
PickAreas(as) == Click /\ sel' = Organise([sel EXCEPT !.areas = @ \union as]) /\ Keep
DropAreas(as) == Click /\ sel' = Organise([sel EXCEPT !.areas = @ \ as]) /\ Keep

\* checklist(): the box of a filter is there for the areas it applies to.
FlipRole(x) ==
  /\ x \in {"ordf", "gruppledare", "ledamot", "ersatt"} /\ TypesOf(sel.areas) \intersect Political # {}
  /\ Click /\ sel' = [sel EXCEPT !.roles = Flip(x, @)] /\ Keep
FlipParty(x) ==
  TypesOf(sel.areas) \intersect Political # {} /\ Click /\ sel' = [sel EXCEPT !.parties = Flip(x, @)] /\ Keep
FlipBody(x) ==
  TypesOf(sel.areas) \intersect Local # {} /\ Click /\ sel' = [sel EXCEPT !.bodies = Flip(x, @)] /\ Keep
FlipTopic(r) ==
  /\ AreaType[r.area] \in TypesOf(sel.areas) /\ Click /\ Keep
  /\ \/ AreaType[r.area] = "media" /\ sel' = [sel EXCEPT !.media = Flip(r.topic, @)]
     \/ AreaType[r.area] = "academia" /\ sel' = [sel EXCEPT !.fields = Flip(r.topic, @)]

\* A hit of the search is added or excluded; a chip takes it out again.
Include(e) ==
  Click /\ sel' = Organise([sel EXCEPT !.include = @ \union {e}, !.exclude = @ \ {e}]) /\ Keep
Exclude(e) ==
  Click /\ sel' = Organise([sel EXCEPT !.exclude = @ \union {e}, !.include = @ \ {e}]) /\ Keep
Unchip(e) ==
  /\ e \in sel.include \union sel.exclude /\ Click /\ Keep
  /\ sel' = [sel EXCEPT !.include = @ \ {e}, !.exclude = @ \ {e}]

PrivateOnly == Click /\ sel' = NoFilter /\ Keep

\* A branch chosen on the home page: clearRecipientSelection, then its areas.
PickLevel(t) ==
  /\ Click /\ sel' = [NoFilter EXCEPT !.areas = {a \in Areas : AreaType[a] = t}]
  /\ once' = {} /\ picked' = {} /\ pickedLists' = {}

FlipOnce(e) == Click /\ once' = Flip(e, once) /\ UNCHANGED <<sel, picked, pickedLists>>
Shown(table) == {table[k] : k \in DOMAIN table} \ {0}
FlipContact(id) ==
  id \in Shown(data.contacts) /\ Click /\ picked' = Flip(id, picked) /\ UNCHANGED <<sel, once, pickedLists>>
FlipList(id) ==
  id \in Shown(data.lists) /\ Click /\ pickedLists' = Flip(id, pickedLists) /\ UNCHANGED <<sel, once, picked>>

Clicks ==
  \/ \E as \in Controls : PickAreas(as) \/ DropAreas(as)
  \/ \E r \in OfType(Political, Areas) : FlipRole(r.role) \/ FlipParty(r.party) \/ \E b \in r.bodies : FlipBody(b)
  \/ \E r \in Rows : FlipTopic(r) \/ Include(r.email) \/ Exclude(r.email)
  \/ \E e \in Emails : Unchip(e) \/ FlipOnce(e)
  \/ PrivateOnly \/ \E t \in TypesOf(Areas) : PickLevel(t)
  \/ \E id \in 1..made : FlipContact(id) \/ FlipList(id)

-----------------------------------------------------------------------------
(* The address book, as the page asks for it.                              *)

At(p, op, step) == req[p].op = op /\ req[p].step = step
Go(p, step) == req' = [req EXCEPT ![p].step = step]
End(p) == req' = [req EXCEPT ![p] = NoRequest]
Others == UNCHANGED <<dead, mailing, bounds>>

Start(p, op, arg, id) ==
  /\ req[p] = NoRequest /\ steps + 2 <= MaxSteps /\ steps' = steps + 2
  /\ req' = [req EXCEPT ![p] = [NoRequest EXCEPT !.op = op, !.step = "write", !.arg = arg, !.id = id]]
  /\ UNCHANGED <<book, page, dead, mailing, verdicts>>

Starts(p) ==
  \/ \E e \in Addresses : Start(p, "save", {e}, 0)
  \/ \E n \in ListNames : \E es \in SUBSET Addresses \ {{}} : Start(p, "import", <<n, es>>, 0)
  \/ \E id \in Shown(data.contacts) : Start(p, "delete", {}, id)
  \/ \E id \in Shown(data.lists) : Start(p, "delete_list", {}, id)
  \/ \E op \in {"load", "preset", "preset_delete"} : Start(p, op, {}, 0)

\* savePrivateContact, and its row read back: undefined when it is gone again.
Save(p) ==
  At(p, "save", "write") /\ (\E e \in req[p].arg : SaveContact(e)) /\ Go(p, "back") /\ UNCHANGED page /\ Others
SaveBack(p) ==
  /\ At(p, "save", "back")
  /\ \E e \in req[p].arg : req' = [req EXCEPT ![p].step = "list", ![p].id = contact[e]]
  /\ UNCHANGED <<book, page>> /\ Others

Delete(p) ==
  /\ At(p, "delete", "write") /\ DeleteContact(req[p].id) /\ Go(p, "deleted") /\ UNCHANGED page /\ Others
Remove(p) ==
  /\ At(p, "delete_list", "write") /\ DeleteList(req[p].id) /\ Go(p, "deleted") /\ UNCHANGED page /\ Others

\* The answer to a DELETE: the id is no longer picked, then a fresh listing.
Unpick(p) ==
  /\ req[p].step = "deleted"
  /\ IF req[p].op = "delete" THEN picked' = picked \ {req[p].id} /\ UNCHANGED pickedLists
     ELSE pickedLists' = pickedLists \ {req[p].id} /\ UNCHANGED picked
  /\ Go(p, "list") /\ UNCHANGED <<book, sel, once, data>> /\ Others

\* importPrivateContactList: the batch, then its list by name.
Import(p) ==
  /\ At(p, "import", "write") /\ ImportList(req[p].arg[1], req[p].arg[2]) /\ Go(p, "back") /\ UNCHANGED page /\ Others
ImportBack(p) ==
  /\ At(p, "import", "back")
  /\ IF list[req[p].arg[1]] = 0 THEN End(p)
     ELSE req' = [req EXCEPT ![p].step = "list", ![p].id = list[req[p].arg[1]]]
  /\ UNCHANGED <<book, page>> /\ Others

Load(p) == At(p, "load", "write") /\ Go(p, "list") /\ UNCHANGED <<book, page>> /\ Others

\* listPrivateContacts; its answer may be overtaken by another.
List(p) ==
  /\ req[p].step = "list" /\ req' = [req EXCEPT ![p].step = "answered", ![p].data = Snapshot]
  /\ UNCHANGED <<book, page>> /\ Others

\* applyPrivateRecipientData, then what was saved or imported is picked.
Apply(p) ==
  LET d == req[p].data new == {req[p].id} \ {0} IN
  /\ req[p].step = "answered" /\ data' = d
  /\ picked' = (picked \intersect Shown(d.contacts)) \union (IF req[p].op = "save" THEN new ELSE {})
  /\ pickedLists' = (pickedLists \intersect Shown(d.lists)) \union (IF req[p].op = "import" THEN new ELSE {})
  /\ End(p) /\ UNCHANGED <<book, sel, once>> /\ Others

\* createLetterIntroPreset counts, then inserts.
CountPresets(p) ==
  /\ At(p, "preset", "write") /\ IF preset >= MaxPresets THEN End(p) ELSE Go(p, "insert")
  /\ UNCHANGED <<book, page>> /\ Others
AddPreset(p) == At(p, "preset", "insert") /\ InsertPreset /\ End(p) /\ UNCHANGED page /\ Others
DropPreset(p) == At(p, "preset_delete", "write") /\ DeletePreset /\ End(p) /\ UNCHANGED page /\ Others

\* A refused, failed or lost call: the page shows the error and changes nothing.
Fail(p) == req[p] # NoRequest /\ End(p) /\ UNCHANGED <<book, page>> /\ Others

Requests(p) ==
  \/ Starts(p) \/ Save(p) \/ SaveBack(p) \/ Delete(p) \/ Remove(p) \/ Unpick(p) \/ Import(p) \/ ImportBack(p)
  \/ Load(p) \/ List(p) \/ Apply(p) \/ CountPresets(p) \/ AddPreset(p) \/ DropPreset(p) \/ Fail(p)

-----------------------------------------------------------------------------
(* The mailing.                                                            *)

\* selectedPrivateRecipientMap: ids the page's data does not know are passed over.
Private ==
  LET wanted == picked \union {m[2] : m \in {x \in data.members : x[1] \in pickedLists \intersect Shown(data.lists)}} IN
  {e \in Addresses : data.contacts[e] \in wanted \ {0}} \union once

\* filterPayload, and the form emptied but for the recipients.
Send ==
  /\ mailing.pc = "none"
  /\ mailing' = [NoMailing EXCEPT !.pc = "pool", !.pay = [sel EXCEPT !.include = @ \union Private]]
  /\ UNCHANGED <<book, page, dead, req, bounds>>

SelectPool ==
  /\ mailing.pc = "pool"
  /\ \E to \in Filtered(mailing.pay, dead) :
       mailing' = [mailing EXCEPT !.pc = "explicit", !.pool = Pool(mailing.pay, dead), !.dead = dead, !.to = to]
  /\ UNCHANGED <<book, page, dead, req, bounds>>

SelectExplicit ==
  /\ mailing.pc = "explicit"
  /\ mailing' = [mailing EXCEPT !.pc = "done", !.to = WithExplicit(mailing.pay, @, dead)]
  /\ UNCHANGED <<book, page, dead, req, bounds>>

\* The answer, or an error of any step: the selection stays as it is.
Answer == mailing.pc # "none" /\ mailing' = NoMailing /\ UNCHANGED <<book, page, dead, req, bounds>>

\* logSend, for a mailing sent earlier: an address bounced, or took a mail.
Verdict(e) ==
  /\ verdicts < MaxVerdicts /\ verdicts' = verdicts + 1
  /\ LET rows == {r \in Rows : r.email = e} IN dead' = dead \union rows \/ dead' = dead \ rows
  /\ UNCHANGED <<book, page, mailing, req, steps>>

Next ==
  \/ Clicks \/ \E p \in Procs : Requests(p)
  \/ Send \/ SelectPool \/ SelectExplicit \/ Answer \/ \E e \in AddressesOf(Rows) : Verdict(e)

Spec == Init /\ [][Next]_vars

-----------------------------------------------------------------------------
\* Types; a list's members are live contacts of live lists (0002, foreign keys);
\* the account's limits, which the presets may pass by one per concurrent request
\* (letter-intro-presets.ts:58).
TypeOK ==
  /\ contact \in [Addresses -> 0..made] /\ list \in [ListNames -> 0..made]
  /\ member \subseteq ListIds \X ContactIds
  /\ Cardinality(Saved) <= MaxContacts /\ preset <= MaxPresets + Cardinality(Procs) - 1
  /\ sel \in [areas : SUBSET Areas, roles : SUBSET STRING, parties : SUBSET STRING, bodies : SUBSET STRING,
              media : SUBSET STRING, fields : SUBSET STRING, include : SUBSET Emails, exclude : SUBSET Emails]
  /\ once \subseteq Emails /\ picked \subseteq 1..made /\ pickedLists \subseteq 1..made
  /\ dead \subseteq Rows /\ mailing.to \subseteq Emails

\* A mailing reaches addresses of the chosen areas and addresses given one by
\* one, and nobody else: a role left over from an area no longer chosen would
\* select the whole country (db.ts:125, recipient-filter-groups.js:276).
NoStrangers == mailing.to \subseteq AddressesOf(In(mailing.pay.areas)) \union mailing.pay.include

\* An excluded address gets nothing however it came in, nor does one the register
\* knew as dead at both queries, not even one typed by hand (db.ts:129, 181, 186).
NeverDeadOrExcluded ==
  [][mailing.pc = "explicit" /\ mailing'.pc = "done" =>
       /\ mailing'.to \intersect mailing.pay.exclude = {}
       /\ LET stillDead == mailing.dead \intersect dead IN
          mailing'.to \intersect (AddressesOf(stillDead) \ AddressesOf(Rows \ stillDead)) = {}]_vars

\* The committees of municipalities and regions cost nobody a letter whom another
\* chosen branch lists as well (db.ts:152-154).
LocalFilterIsLocal ==
  mailing.pc \in {"explicit", "done"} /\ mailing.pay.media = {} /\ mailing.pay.fields = {} =>
    (mailing.pool \intersect AddressesOf(In(mailing.pay.areas) \ OfType(Local, mailing.pay.areas)))
      \ mailing.pay.exclude \subseteq mailing.to
=============================================================================
