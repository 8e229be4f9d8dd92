----------------------------- MODULE MCComposer -----------------------------
(* A member of parliament who also sits in a municipal committee, another  *)
(* local politician, and an editor.                                        *)
EXTENDS Composer, TLC

CONSTANTS p1, p2

Branches == [riks |-> "riksdag", kom |-> "kommun", tid |-> "media"]
Row(e, a, role, party, bodies, topic) ==
  [email |-> e, area |-> a, role |-> role, party |-> party, bodies |-> bodies, topic |-> topic]
Register == {
  Row("mp", "riks", "ledamot", "P", {}, "none"),
  Row("mp", "kom", "ledamot", "P", {"social"}, "none"),
  Row("chair", "kom", "ordf", "Q", {"social"}, "none"),
  Row("chair", "kom", "revisor", "Q", {}, "none"),
  Row("chair", "tid", "none", "none", {}, "debatt")}
TwoAddresses == {"mp", "friend"}
Mailboxes == {"mp", "chair", "friend"}
Calls == Permutations({p1, p2})
=============================================================================
