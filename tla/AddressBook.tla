----------------------------- MODULE AddressBook -----------------------------
(***************************************************************************)
(* What an account keeps for its mailings: private contacts and lists      *)
(* (app/src/private-contacts.ts, migration 0002) and intro presets         *)
(* (letter-intro-presets.ts, migration 0004).  An operator is one D1       *)
(* statement or batch; a failing batch changes nothing.  Names of contacts *)
(* and texts of presets are left out.                                      *)
(***************************************************************************)
EXTENDS Integers, FiniteSets

CONSTANTS
  Addresses,   \* what an account may save, in the register or not
  ListNames,
  MaxContacts, \* account_contacts_cap_insert: 10 000
  MaxPresets   \* MAX_PRESETS

ASSUME AddressBookAssumption ==
  IsFiniteSet(Addresses) /\ IsFiniteSet(ListNames) /\ MaxContacts \in Nat /\ MaxPresets \in Nat \ {0}

VARIABLES
  contact, \* account_contacts: the id of each address, 0 for none
  list,    \* account_contact_lists: the id of each name, 0 for none
  member,  \* account_contact_list_members: pairs of list and contact
  preset,  \* letter_intro_presets: how many
  made     \* ids given out so far

book == <<contact, list, member, preset, made>>

Saved == {e \in Addresses : contact[e] # 0}
ContactIds == {contact[e] : e \in Saved}
ListIds == {list[n] : n \in ListNames} \ {0}

\* INSERT ... ON CONFLICT(account_id, email): old rows keep their ids.
Ids(ids, new) == {ids[k] : k \in new}
Fresh(table, keys) ==
  {t \in [DOMAIN table -> 0..(made + Cardinality(keys))] :
     /\ \A k \in DOMAIN table : k \notin keys \/ table[k] # 0 => t[k] = table[k]
     /\ LET new == {k \in keys : table[k] = 0} IN
        Ids(t, new) = (made + 1)..(made + Cardinality(new))}

\* The trigger counts the rows before every new one.
Upsert(es) ==
  /\ Cardinality(Saved \union es) <= MaxContacts
  /\ contact' \in Fresh(contact, es)
  /\ made' = made + Cardinality(es \ Saved)

SaveContact(e) == Upsert({e}) /\ UNCHANGED <<list, member, preset>>

\* Variant of DeleteContact: without the foreign key's cascade.
DeleteContactOnly(id) ==
  /\ contact' = [e \in Addresses |-> IF contact[e] = id THEN 0 ELSE contact[e]]
  /\ UNCHANGED <<list, member, preset, made>>

DeleteContact(id) ==
  /\ contact' = [e \in Addresses |-> IF contact[e] = id THEN 0 ELSE contact[e]]
  /\ member' = {m \in member : m[2] # id}
  /\ UNCHANGED <<list, preset, made>>

DeleteList(id) ==
  /\ list' = [n \in ListNames |-> IF list[n] = id THEN 0 ELSE list[n]]
  /\ member' = {m \in member : m[1] # id}
  /\ UNCHANGED <<contact, preset, made>>

\* One batch: contacts, the list, out with its members, in with the new ones.
ImportList(name, es) ==
  LET l == IF list[name] # 0 THEN list[name] ELSE made + Cardinality(es \ Saved) + 1 IN
  /\ Cardinality(Saved \union es) <= MaxContacts
  /\ contact' \in Fresh(contact, es)
  /\ list' = [list EXCEPT ![name] = l]
  /\ member' = {m \in member : m[1] # l} \union {<<l, contact'[e]>> : e \in es}
  /\ made' = made + Cardinality(es \ Saved) + (IF list[name] = 0 THEN 1 ELSE 0)
  /\ UNCHANGED preset

\* createLetterIntroPreset inserts when its count was low enough.
InsertPreset == preset' = preset + 1 /\ UNCHANGED <<contact, list, member, made>>
DeletePreset == preset > 0 /\ preset' = preset - 1 /\ UNCHANGED <<contact, list, member, made>>

\* What listPrivateContacts returns.
Snapshot == [contacts |-> [e \in Addresses |-> contact[e]], lists |-> [n \in ListNames |-> list[n]], members |-> member]
=============================================================================
