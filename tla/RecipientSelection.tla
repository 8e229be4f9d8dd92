-------------------------- MODULE RecipientSelection --------------------------
(***************************************************************************)
(* Who gets a mailing: getRecipientsForAreas (app/src/db.ts) as functions  *)
(* of the contact register and of the filters of a request.  A row is one  *)
(* entry of public_contacts with its role, party and committees in         *)
(* canonical form; addresses are compared in lower case and trimmed, so an *)
(* address is a value here.  A topic is what the media categories and the  *)
(* academic fields select by.  Policy filters, which no page sends, are    *)
(* left out.                                                               *)
(***************************************************************************)
EXTENDS Integers, FiniteSets

CONSTANTS
  Rows,     \* [email, area, role, party, bodies, topic]
  AreaType, \* the branch of each area
  Emails    \* addresses, of the register or not

Local == {"kommun", "region"}
Political == {"eu", "regering", "riksdag", "kyrka"} \union Local

ASSUME RegisterAssumption ==
  /\ Rows \subseteq [email : Emails, area : DOMAIN AreaType, role : STRING, party : STRING,
                     bodies : SUBSET STRING, topic : STRING]
  /\ IsFiniteSet(Rows) /\ IsFiniteSet(Emails)
  /\ AreaType \in [DOMAIN AreaType -> Political \union {"media", "academia"}]

\* The filters of a request that selects nobody.
NoFilter == [areas |-> {}, roles |-> {}, parties |-> {}, bodies |-> {}, media |-> {}, fields |-> {},
             include |-> {}, exclude |-> {}]

AddressesOf(rows) == {r.email : r \in rows}
In(areas) == {r \in Rows : r.area \in areas}
OfType(types, areas) == {r \in In(areas) : AreaType[r.area] \in types}

\* isIrrelevantRecipientRole: auditors, lay judges and the like.
Irrelevant(r) == r.role = "revisor" /\ AreaType[r.area] \in Local

\* The first query.  Roles alone select the whole country.
Matches(f, r) ==
  /\ f.areas # {} => r.area \in f.areas
  /\ f.roles # {} => r.role \in f.roles
  /\ r.party \notin f.parties
  /\ ~Irrelevant(r)

Pool(f, dead) ==
  IF f.areas = {} /\ f.roles = {} THEN {} ELSE AddressesOf({r \in Rows \ dead : Matches(f, r)})

\* Variant of OutByBody: whoever sits in the committee.
OutByBodyAnywhere(f) == AddressesOf({r \in OfType(Local, f.areas) : r.bodies \intersect f.bodies # {}})

\* Who sits in an excluded committee, unless another branch lists him too.
OutByBody(f) ==
  AddressesOf({r \in OfType(Local, f.areas) : r.bodies \intersect f.bodies # {}})
    \ AddressesOf(In(f.areas) \ OfType(Local, f.areas))

\* Media and academia: the addresses of the branch without a wanted topic.
OutByTopic(f, type, wanted) ==
  IF wanted = {} THEN {}
  ELSE AddressesOf(OfType({type}, f.areas))
         \ AddressesOf({r \in OfType({type}, f.areas) : r.topic \in wanted})

\* What the filters may leave: a failing query of the committees is passed over.
Filtered(f, dead) ==
  {(Pool(f, dead) \ out) \ (OutByTopic(f, "media", f.media) \union OutByTopic(f, "academia", f.fields)) :
     out \in {OutByBody(f), {}}}

\* Variant of WithExplicit: addresses given one by one are not looked up.
WithExplicitAnyway(f, pool, dead) == (pool \union f.include) \ f.exclude

\* Addresses given one by one, but for those the register knows as dead only.
WithExplicit(f, pool, dead) ==
  (pool \union (f.include \ (AddressesOf(dead) \ AddressesOf(Rows \ dead)))) \ f.exclude
=============================================================================
