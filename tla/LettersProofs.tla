---------------------------- MODULE LettersProofs ----------------------------
(***************************************************************************)
(* The safety of stored letters, for any number of letters, files, cron    *)
(* passes that overlap and batch sizes.  The inductive invariant says what *)
(* a route has stored of its letter at each step (RouteOK), what a letter  *)
(* owes its files and its job (LetterOK), and what a pass may rely on when *)
(* it redacts (PassOK): the letters it has listed have no route any more   *)
(* that could add a file.                                                  *)
(***************************************************************************)
EXTENDS Letters, TLAPS

\* The files of a letter that were ever listed are those of S.
Has(l, S) == \A f \in Files : <<l, f>> \in listed <=> f \in S

\* The route stores nothing any more.
Settled(l) == route[l].pc \in {"keep", "end"}

RouteOK(l) ==
  LET r == route[l] IN
  /\ r.todo \subseteq r.want
  /\ r.pc = "idle" => Has(l, {})
  /\ r.pc \in {"check", "put"} => Has(l, r.want \ r.todo)
  /\ r.pc = "row" => \E f \in r.want \ r.todo : Has(l, (r.want \ r.todo) \ {f})
  /\ r.pc \in {"body", "job"} => Has(l, r.want)
  /\ r.pc = "job" /\ Stored(l) => letter[l].extracted = r.want \cap Extracted

LetterOK(l) ==
  /\ Stored(l) /\ letter[l].body # "redacted" => \A f \in Files : <<l, f>> \in listed => <<l, f>> \in row
  /\ letter[l].body = "redacted" =>
       /\ Settled(l) /\ job[l].intro \in {"none", "redacted"}
       /\ \A f \in Files : <<l, f>> \notin row /\ ~(<<l, f>> \in object /\ <<l, f>> \in listed)
  /\ job[l].status # "none" =>
       /\ Settled(l) /\ Stored(l)
       /\ Has(l, route[l].want) /\ letter[l].extracted = route[l].want \cap Extracted

PassOK(c) ==
  /\ PassAt(c, "keys") \/ PassAt(c, "r2") \/ PassAt(c, "batch") => pass[c].todo # {} /\ \A l \in pass[c].todo : Settled(l)
  /\ PassAt(c, "r2") => \A f \in Files : <<Head(c), f>> \in row => <<Head(c), f>> \in pass[c].keys
  /\ PassAt(c, "batch") /\ Stored(Head(c)) =>
       \A f \in Files : ~(<<Head(c), f>> \in object /\ <<Head(c), f>> \in listed)

IInv ==
  /\ TypeOK
  /\ \A l \in Letters : RouteOK(l) /\ LetterOK(l)
  /\ \A c \in Passes : PassOK(c)

-----------------------------------------------------------------------------
(* What a step may do to the letters it does not work on, and to those whose *)
(* route is over.                                                            *)

Untouched(l) ==
  /\ letter'[l] = letter[l] /\ job'[l] = job[l] /\ route'[l] = route[l]
  /\ \A f \in Files : /\ <<l, f>> \in row' <=> <<l, f>> \in row
                      /\ <<l, f>> \in object' <=> <<l, f>> \in object
                      /\ <<l, f>> \in listed' <=> <<l, f>> \in listed

Calm(l) ==
  Settled(l) =>
    /\ Settled(l)' /\ (Stored(l)' => Stored(l))
    /\ \A f \in Files : /\ <<l, f>> \in row' => <<l, f>> \in row
                        /\ <<l, f>> \in object' /\ <<l, f>> \in listed' => <<l, f>> \in object /\ <<l, f>> \in listed

\* The longest retention is one of those that can be chosen.
LEMMA MaxKeepIs == MaxKeep \in Keeps /\ MaxKeep \in Nat /\ \A k \in Keeps : k <= MaxKeep /\ k \in 0..MaxKeep
<1>1. \E k \in Keeps : \A i \in Keeps : i <= k
  BY LettersAssumption DEF LettersAssumption
<1>2. MaxKeep \in Keeps /\ \A i \in Keeps : i <= MaxKeep
  BY <1>1 DEF MaxKeep
<1> QED BY <1>2, LettersAssumption DEF LettersAssumption

\* A letter nothing happens to stays right.
LEMMA UntouchedKept ==
  ASSUME IInv, NEW l \in Letters, Untouched(l)
  PROVE  RouteOK(l)' /\ LetterOK(l)' /\ Calm(l)
<1>1. RouteOK(l) /\ LetterOK(l)
  BY DEF IInv
<1>2. route[l] \in RouteRec
  BY DEF IInv, TypeOK
<1>3. ASSUME NEW S, S \subseteq Files PROVE Has(l, S)' <=> Has(l, S)
  BY DEF Has, Untouched
<1>4. RouteOK(l)'
  <2>1. /\ Has(l, {})' <=> Has(l, {})
        /\ Has(l, route[l].want \ route[l].todo)' <=> Has(l, route[l].want \ route[l].todo)
        /\ Has(l, route[l].want)' <=> Has(l, route[l].want)
        /\ \A f \in route[l].want \ route[l].todo :
             Has(l, (route[l].want \ route[l].todo) \ {f})' <=> Has(l, (route[l].want \ route[l].todo) \ {f})
    BY DEF Has, Untouched
  <2>2. (Stored(l)' <=> Stored(l)) /\ route'[l] = route[l] /\ letter'[l] = letter[l]
    BY DEF Untouched, Stored
  <2> QED BY <1>1, <2>1, <2>2 DEF RouteOK, Has
<1>5. LetterOK(l)'
  BY <1>1 DEF LetterOK, Has, Settled, Stored, Untouched
<1>6. Calm(l)
  BY DEF Calm, Settled, Stored, Untouched
<1> QED BY <1>4, <1>5, <1>6

\* A pass that does not move keeps what it relies on.
LEMMA PassKept ==
  ASSUME IInv, NEW c \in Passes, pass'[c] = pass[c], \A l \in Letters : Calm(l)
  PROVE  PassOK(c)'
<1>1. PassOK(c) /\ pass[c] \in PassRec /\ pass[c].todo \subseteq Letters
  BY DEF IInv, TypeOK, PassRec
<1>2. Head(c)' = Head(c)
  BY DEF Head
<1>3. pass[c].todo # {} => Head(c) \in pass[c].todo
  BY DEF Head
<1>4. ASSUME PassAt(c, "keys") \/ PassAt(c, "r2") \/ PassAt(c, "batch")
      PROVE  pass'[c].todo # {} /\ \A l \in pass'[c].todo : Settled(l)'
  BY <1>1, <1>4 DEF PassOK, Calm
<1>5. ASSUME PassAt(c, "r2"), NEW f \in Files, <<Head(c), f>> \in row' PROVE <<Head(c), f>> \in pass'[c].keys
  BY <1>1, <1>3, <1>5 DEF PassOK, Calm
<1>6. ASSUME PassAt(c, "batch"), letter'[Head(c)].state = "live", NEW f \in Files
      PROVE  ~(<<Head(c), f>> \in object' /\ <<Head(c), f>> \in listed')
  BY <1>1, <1>3, <1>6 DEF PassOK, Calm, Stored
<1>7. \A s : PassAt(c, s)' <=> PassAt(c, s)
  BY DEF PassAt
<1>8. Stored(Head(c))' => letter'[Head(c)].state = "live"
  BY <1>2 DEF Stored
<1> QED BY <1>2, <1>4, <1>5, <1>6, <1>7, <1>8 DEF PassOK, Stored

\* A step of the one route is safe when it is safe for its letter.
LEMMA RouteStep ==
  ASSUME IInv, NEW l \in Letters, TypeOK', UNCHANGED pass, \A m \in Letters \ {l} : Untouched(m),
         RouteOK(l)', LetterOK(l)', Calm(l)
  PROVE  IInv'
<1>1. \A m \in Letters \ {l} : RouteOK(m)' /\ LetterOK(m)' /\ Calm(m)
  BY UntouchedKept
<1>2. \A m \in Letters : Calm(m)
  BY <1>1
<1>3. \A c \in Passes : PassOK(c)'
  BY <1>2, PassKept
<1> QED BY <1>1, <1>3 DEF IInv

-----------------------------------------------------------------------------
(* The route.                                                                *)

\* What a route has in hand while its letter is not settled.
LEMMA RouteHere ==
  ASSUME IInv, NEW l \in Letters
  PROVE  /\ route \in [Letters -> RouteRec] /\ route[l] \in RouteRec /\ route[l].want \subseteq Files /\ route[l].todo \subseteq route[l].want
         /\ RouteOK(l) /\ LetterOK(l) /\ letter[l] \in LetterRec /\ job[l] \in JobRec
         /\ ~Settled(l) => letter[l].body # "redacted" /\ job[l].status = "none"
BY DEF IInv, TypeOK, RouteRec, RouteOK, LetterOK

\* A step that only moves the route on, or ends it.
LEMMA RouteMoves ==
  ASSUME IInv, NEW l \in Letters, NEW r \in RouteRec, route' = [route EXCEPT ![l] = r],
         UNCHANGED <<letter, row, job, object, pass, listed>>,
         r.want = route[l].want \/ ~Settled(l), Settled(l) => r.pc \in {"keep", "end"}, RouteOK(l)'
  PROVE  IInv'
<1>1. route' \in [Letters -> RouteRec] /\ route'[l] = r /\ \A m \in Letters \ {l} : route'[m] = route[m]
  BY RouteHere
<1>2. TypeOK'
  BY <1>1 DEF IInv, TypeOK, Stored
<1>3. \A m \in Letters \ {l} : Untouched(m)
  BY <1>1 DEF Untouched
<1>4. LetterOK(l)'
  BY <1>1, RouteHere DEF LetterOK, Settled, Stored, Has
<1>5. Calm(l)
  BY <1>1 DEF Calm, Settled, Stored
<1> QED BY <1>2, <1>3, <1>4, <1>5, RouteStep

\* The checks of the attachments, a refusal and the end of an invocation.
LEMMA RouteReads ==
  ASSUME IInv, NEW l \in Letters, CheckBatch(l) \/ RefuseFile(l) \/ RouteDies(l)
  PROVE  IInv'
<1>1. ASSUME NEW s \in {"put", "end"}, s = "put" => RouteAt(l, "check"), ~Settled(l) \/ s = "end", RouteGoto(l, s),
             UNCHANGED <<letter, row, job, object, pass, listed>>
      PROVE  IInv'
  <2>1. PICK r \in RouteRec : r = [route[l] EXCEPT !.pc = s]
    BY RouteHere DEF RouteRec
  <2>2. r.pc = s /\ r.want = route[l].want /\ r.todo = route[l].todo
    BY <2>1, RouteHere DEF RouteRec
  <2>3. route' = [route EXCEPT ![l] = r] /\ route'[l] = r
    BY <1>1, <2>1, RouteHere DEF RouteGoto
  <2>4. RouteOK(l)'
    BY <1>1, <2>2, <2>3, RouteHere DEF RouteOK, RouteAt, Has, Stored
  <2> QED BY <1>1, <2>2, <2>3, <2>4, RouteMoves
<1>2. CASE CheckBatch(l)
  <2>1. PICK s \in {"put", "end"} : s = IF Cardinality(route[l].want) <= MaxFiles THEN "put" ELSE "end"
    OBVIOUS
  <2> QED BY <1>1, <1>2, <2>1 DEF CheckBatch, RouteAt, Settled
<1>3. CASE RefuseFile(l) \/ RouteDies(l)
  <2>1. PICK s \in {"put", "end"} : s = "end"
    OBVIOUS
  <2> QED BY <1>1, <1>3, <2>1 DEF RefuseFile, RouteDies
<1> QED BY <1>2, <1>3

\* The letter is stored before its files.
LEMMA PostLetterStep ==
  ASSUME IInv, NEW l \in Letters, PostLetter(l)
  PROVE  IInv'
<1>1. PICK w \in SUBSET Files : route' = [route EXCEPT ![l] = [pc |-> IF w = {} THEN "job" ELSE "check", want |-> w, todo |-> w]]
  BY DEF PostLetter
<1>2. PICK s \in {"job", "check"} : s = IF w = {} THEN "job" ELSE "check"
  OBVIOUS
<1>3. PICK r \in RouteRec : r = [pc |-> s, want |-> w, todo |-> w]
  BY DEF RouteRec
<1>4. r.pc = s /\ r.want = w /\ r.todo = w
  BY <1>3
<1>5. route' = [route EXCEPT ![l] = r] /\ route'[l] = r /\ \A m \in Letters \ {l} : route'[m] = route[m]
  BY <1>1, <1>2, <1>3, RouteHere
<1>6. PICK x \in LetterRec : x = [NoLetter EXCEPT !.state = "live", !.body = "enc"]
  BY DEF LetterRec, NoLetter, Bodies
<1>7. x.state = "live" /\ x.body = "enc" /\ x.extracted = {}
  BY <1>6 DEF NoLetter
<1>8. letter' = [letter EXCEPT ![l] = x] /\ letter'[l] = x /\ \A m \in Letters \ {l} : letter'[m] = letter[m]
  BY <1>6 DEF PostLetter, IInv, TypeOK
<1>9. UNCHANGED <<row, job, object, pass, listed>> /\ ~Settled(l) /\ Has(l, {})
  BY RouteHere DEF PostLetter, RouteAt, Settled, RouteOK
<1>10. TypeOK'
  <2>1. \A k \in row : Stored(k[1])'
    BY <1>7, <1>8 DEF IInv, TypeOK, Stored
  <2> QED BY <1>5, <1>8, <1>9, <2>1 DEF IInv, TypeOK
<1>11. \A m \in Letters \ {l} : Untouched(m)
  BY <1>5, <1>8, <1>9 DEF Untouched
<1>12. Has(l, {})'
  BY <1>9 DEF Has
<1>13. RouteOK(l)'
  <2>1. w \ w = {} /\ (s = "job" => w = {}) /\ {} = {} \cap Extracted
    BY <1>2
  <2> QED BY <1>4, <1>5, <1>7, <1>8, <1>12, <2>1 DEF RouteOK
<1>14. LetterOK(l)'
  BY <1>7, <1>8, <1>9, RouteHere DEF LetterOK, Has
<1>15. Calm(l)
  BY <1>9 DEF Calm
<1> QED BY <1>9, <1>10, <1>11, <1>13, <1>14, <1>15, RouteStep

\* An object is put before its row; nothing lists it yet.
LEMMA PutObjectStep ==
  ASSUME IInv, NEW l \in Letters, PutObject(l)
  PROVE  IInv'
<1>1. PICK f \in route[l].todo : object' = object \union {<<l, f>>} /\ route' = [route EXCEPT ![l].pc = "row", ![l].todo = @ \ {f}]
  BY DEF PutObject
<1>2. f \in Files /\ f \in route[l].want
  BY <1>1, RouteHere
<1>3. PICK r \in RouteRec : r = [route[l] EXCEPT !.pc = "row", !.todo = @ \ {f}]
  BY RouteHere DEF RouteRec
<1>4. r.pc = "row" /\ r.want = route[l].want /\ r.todo = route[l].todo \ {f}
  BY <1>3, RouteHere DEF RouteRec
<1>5. route' = [route EXCEPT ![l] = r]
  BY <1>1, <1>3, RouteHere
<1>6. route'[l] = r /\ route' \in [Letters -> RouteRec] /\ \A m \in Letters \ {l} : route'[m] = route[m]
  BY <1>5, RouteHere
<1>7. UNCHANGED <<letter, row, job, pass, listed>> /\ ~Settled(l) /\ Has(l, route[l].want \ route[l].todo)
  BY RouteHere DEF PutObject, RouteAt, Settled, RouteOK
<1>8. TypeOK'
  BY <1>1, <1>2, <1>6, <1>7 DEF IInv, TypeOK, Stored
<1>9. \A m \in Letters \ {l} : Untouched(m)
  BY <1>1, <1>6, <1>7 DEF Untouched
<1>10. RouteOK(l)'
  <2>1. f \in r.want \ r.todo /\ (r.want \ r.todo) \ {f} = route[l].want \ route[l].todo
    BY <1>1, <1>2, <1>4
  <2>2. Has(l, (r.want \ r.todo) \ {f})'
    BY <1>7, <2>1 DEF Has
  <2>3. r.todo \subseteq r.want
    BY <1>4, RouteHere
  <2> QED BY <1>4, <1>6, <2>1, <2>2, <2>3 DEF RouteOK
<1>11. LetterOK(l)'
  BY <1>7, RouteHere DEF LetterOK, Has, Stored
<1>12. Calm(l)
  BY <1>7 DEF Calm
<1> QED BY <1>7, <1>8, <1>9, <1>10, <1>11, <1>12, RouteStep

\* The row that is inserted is the one of the object just put.
LEMMA InsertRowStep ==
  ASSUME IInv, NEW l \in Letters, InsertRow(l)
  PROVE  IInv'
<1> DEFINE W == route[l].want  T == route[l].todo
           key == {k \in {<<l, f>> : f \in W \ T} : k \notin listed}
<1>1. ~Settled(l) /\ RouteOK(l) /\ route[l] \in RouteRec /\ W \subseteq Files /\ T \subseteq W /\ UNCHANGED <<letter, job, object, pass>>
  BY RouteHere DEF InsertRow, RouteAt, Settled
<1>2. PICK f0 \in W \ T : Has(l, (W \ T) \ {f0})
  BY RouteHere DEF InsertRow, RouteAt, RouteOK
<1>3. key = {<<l, f0>>}
  BY <1>1, <1>2 DEF Has
<1>4. ASSUME NEW s \in {"put", "body", "end"}, RouteGoto(l, s), UNCHANGED <<row, listed>>, s = "end" PROVE IInv'
  <2>1. PICK r \in RouteRec : r = [route[l] EXCEPT !.pc = s]
    BY <1>1 DEF RouteRec
  <2>2. r.pc = s /\ r.want = W /\ r.todo = T
    BY <1>1, <2>1 DEF RouteRec
  <2>3. route' = [route EXCEPT ![l] = r] /\ route'[l] = r
    BY <1>4, <2>1, RouteHere DEF RouteGoto
  <2>4. RouteOK(l)'
    BY <1>1, <1>4, <2>2, <2>3 DEF RouteOK
  <2> QED BY <1>1, <1>4, <2>2, <2>3, <2>4, RouteMoves
<1>5. ASSUME Stored(l), row' = row \union key, listed' = listed \union key,
             RouteGoto(l, IF T = {} THEN "body" ELSE "put")
      PROVE  IInv'
  <2>1. PICK s \in {"put", "body"} : s = IF T = {} THEN "body" ELSE "put"
    OBVIOUS
  <2>2. PICK r \in RouteRec : r = [route[l] EXCEPT !.pc = s]
    BY <1>1 DEF RouteRec
  <2>3. r.pc = s /\ r.want = W /\ r.todo = T
    BY <1>1, <2>2 DEF RouteRec
  <2>4. route' = [route EXCEPT ![l] = r]
    BY <1>5, <2>1, <2>2, RouteHere DEF RouteGoto
  <2>5. route'[l] = r /\ route' \in [Letters -> RouteRec] /\ \A m \in Letters \ {l} : route'[m] = route[m]
    BY <2>4, RouteHere
  <2>6. row' = row \union {<<l, f0>>} /\ listed' = listed \union {<<l, f0>>}
    BY <1>3, <1>5
  <2>7. TypeOK'
    <3>1. f0 \in Files /\ <<l, f0>> \in Letters \X Files /\ <<l, f0>>[1] = l
      BY <1>1, <1>2
    <3>2. \A k \in row' : Stored(k[1])'
      BY <1>1, <1>5, <2>6, <3>1 DEF IInv, TypeOK, Stored
    <3>3. row' \subseteq listed' /\ listed' \subseteq Letters \X Files
      BY <2>6, <3>1 DEF IInv, TypeOK
    <3> QED BY <1>1, <2>5, <3>2, <3>3 DEF IInv, TypeOK
  <2>8. \A m \in Letters \ {l} : Untouched(m)
    BY <1>1, <2>5, <2>6 DEF Untouched
  <2>9. \A f \in Files : <<l, f>> \in listed' <=> f \in W \ T
    BY <1>1, <1>2, <2>6 DEF Has
  <2>10. RouteOK(l)'
    <3>1. s = "body" => W \ T = W
      BY <2>1
    <3>2. s = "body" => \A f \in Files : <<l, f>> \in listed' <=> f \in W
      BY <2>9, <3>1
    <3> QED BY <1>1, <2>3, <2>5, <2>9, <3>2 DEF RouteOK, Has
  <2>11. LetterOK(l)'
    BY <1>1, <2>6, RouteHere DEF LetterOK, Stored
  <2>12. Calm(l)
    BY <1>1 DEF Calm
  <2> QED BY <1>1, <2>7, <2>8, <2>10, <2>11, <2>12, RouteStep
<1>6. PICK s \in {"put", "body", "end"} : s = "end"
  OBVIOUS
<1>7. CASE Stored(l)
  <2>1. row' = row \union key /\ listed' = listed \union key /\ RouteGoto(l, IF T = {} THEN "body" ELSE "put")
    BY <1>7 DEF InsertRow
  <2> QED BY <1>5, <1>7, <2>1
<1>8. CASE ~Stored(l)
  <2>1. RouteGoto(l, s) /\ UNCHANGED <<row, listed>>
    BY <1>6, <1>8 DEF InsertRow
  <2> QED BY <1>4, <1>6, <2>1
<1> QED BY <1>7, <1>8

\* The texts taken from the files become part of the body.
LEMMA UpdateBodyStep ==
  ASSUME IInv, NEW l \in Letters, UpdateBody(l)
  PROVE  IInv'
<1>1. /\ ~Settled(l) /\ RouteOK(l) /\ Has(l, route[l].want) /\ UNCHANGED <<row, job, object, pass, listed>>
      /\ route[l] \in RouteRec /\ letter \in [Letters -> LetterRec] /\ letter[l] \in LetterRec
  BY RouteHere DEF UpdateBody, RouteAt, Settled, RouteOK, IInv, TypeOK
<1>2. PICK r \in RouteRec : r = [route[l] EXCEPT !.pc = "job"]
  BY <1>1 DEF RouteRec
<1>3. r.pc = "job" /\ r.want = route[l].want /\ r.todo = route[l].todo
  BY <1>1, <1>2 DEF RouteRec
<1>4. route' = [route EXCEPT ![l] = r]
  BY <1>2, RouteHere DEF UpdateBody, RouteGoto
<1>5. route'[l] = r /\ route' \in [Letters -> RouteRec] /\ \A m \in Letters \ {l} : route'[m] = route[m]
  BY <1>4, RouteHere
<1>6. PICK n \in LetterRec : n = [letter[l] EXCEPT !.body = "enc", !.extracted = route[l].want \cap Extracted]
  BY <1>1 DEF LetterRec, Bodies
<1>7. n.state = letter[l].state /\ n.body = "enc" /\ n.extracted = route[l].want \cap Extracted
  BY <1>1, <1>6 DEF LetterRec
<1>8. PICK x \in LetterRec : x = IF Stored(l) THEN n ELSE letter[l]
  BY <1>1
<1>9. letter' = [letter EXCEPT ![l] = x]
  BY <1>1, <1>6, <1>8 DEF UpdateBody
<1>10. letter'[l] = x /\ letter' \in [Letters -> LetterRec] /\ \A m \in Letters \ {l} : letter'[m] = letter[m]
  BY <1>1, <1>9
<1>11. x.state = letter[l].state /\ x.body # "redacted" /\ (Stored(l) => x.extracted = route[l].want \cap Extracted)
  BY <1>1, <1>7, <1>8, RouteHere
<1>12. TypeOK'
  <2>1. \A k \in row : Stored(k[1])'
    BY <1>10, <1>11 DEF IInv, TypeOK, Stored
  <2> QED BY <1>1, <1>5, <1>10, <2>1 DEF IInv, TypeOK
<1>13. \A m \in Letters \ {l} : Untouched(m)
  BY <1>1, <1>5, <1>10 DEF Untouched
<1>14. Stored(l)' <=> Stored(l)
  BY <1>10, <1>11 DEF Stored
<1>15. RouteOK(l)'
  BY <1>1, <1>3, <1>5, <1>10, <1>11, <1>14 DEF RouteOK, Has
<1>16. LetterOK(l)'
  BY <1>1, <1>10, <1>11, <1>14, RouteHere DEF LetterOK
<1>17. Calm(l)
  BY <1>1 DEF Calm
<1> QED BY <1>1, <1>12, <1>13, <1>15, <1>16, <1>17, RouteStep

\* The job is made last, of what the route has stored.
LEMMA CreateJobStep ==
  ASSUME IInv, NEW l \in Letters, CreateJob(l)
  PROVE  IInv'
<1>1. ~Settled(l) /\ RouteOK(l) /\ route[l] \in RouteRec /\ UNCHANGED <<letter, row, object, pass, listed>>
  BY RouteHere DEF CreateJob, RouteAt, Settled
<1>2. Has(l, route[l].want) /\ (Stored(l) => letter[l].extracted = route[l].want \cap Extracted)
  BY RouteHere DEF CreateJob, RouteAt, RouteOK
<1>3. PICK s \in {"keep", "end"} : RouteGoto(l, s) /\ (s = "keep" => Stored(l) /\ job' = [job EXCEPT ![l] = [NoJob EXCEPT !.status = "live", !.intro = "enc"]])
                                   /\ (s = "end" => UNCHANGED job)
  BY DEF CreateJob
<1>4. PICK r \in RouteRec : r = [route[l] EXCEPT !.pc = s]
  BY <1>1 DEF RouteRec
<1>5. r.pc = s /\ r.want = route[l].want /\ r.todo = route[l].todo
  BY <1>1, <1>4 DEF RouteRec
<1>6. route' = [route EXCEPT ![l] = r]
  BY <1>3, <1>4, RouteHere DEF RouteGoto
<1>7. route'[l] = r /\ route' \in [Letters -> RouteRec] /\ \A m \in Letters \ {l} : route'[m] = route[m]
  BY <1>6, RouteHere
<1>8. RouteOK(l)'
  BY <1>1, <1>5, <1>7 DEF RouteOK
<1>9. CASE s = "end"
  BY <1>1, <1>3, <1>5, <1>6, <1>8, <1>9, RouteMoves
<1>10. CASE s = "keep"
  <2>1. PICK n \in Nat : n = 0
    OBVIOUS
  <2>2. DefaultKeep \in Keeps /\ n \in 0..MaxKeep
    BY <2>1, MaxKeepIs, LettersAssumption DEF LettersAssumption
  <2>3. NoJob \in JobRec
    <3>1. NoJob = [status |-> "none", keep |-> DefaultKeep, age |-> n, intro |-> "none"]
      BY <2>1 DEF NoJob
    <3> QED BY <2>2, <3>1 DEF JobRec, Bodies
  <2>4. PICK j \in JobRec : j = [NoJob EXCEPT !.status = "live", !.intro = "enc"]
    BY <2>3 DEF JobRec, Bodies
  <2>5. j.status = "live" /\ j.intro = "enc"
    BY <2>3, <2>4 DEF JobRec
  <2>6. job' = [job EXCEPT ![l] = j] /\ job \in [Letters -> JobRec]
    BY <1>3, <1>10, <2>4 DEF IInv, TypeOK
  <2>7. job'[l] = j /\ job' \in [Letters -> JobRec] /\ \A m \in Letters \ {l} : job'[m] = job[m]
    BY <2>6
  <2>8. TypeOK'
    BY <1>1, <1>7, <2>7 DEF IInv, TypeOK, Stored
  <2>9. \A m \in Letters \ {l} : Untouched(m)
    BY <1>1, <1>7, <2>7 DEF Untouched
  <2>10. LetterOK(l)'
    BY <1>1, <1>2, <1>3, <1>5, <1>7, <1>10, <2>5, <2>7, RouteHere DEF LetterOK, Has, Stored, Settled
  <2>11. Calm(l)
    BY <1>1 DEF Calm
  <2> QED BY <1>1, <1>8, <2>8, <2>9, <2>10, <2>11, RouteStep
<1> QED BY <1>9, <1>10

\* A step that changes what retention looks at in jobs, and no more.
LEMMA JobsMove ==
  ASSUME IInv, job' \in [Letters -> JobRec], UNCHANGED <<letter, row, object, pass, listed>>,
         \A m \in Letters : /\ job'[m].intro = job[m].intro /\ (job'[m].status # "none" => job[m].status # "none")
                            /\ route'[m] = route[m] \/ (Settled(m) /\ route'[m].want = route[m].want /\ Settled(m)'
                                                         /\ route'[m].todo \subseteq route'[m].want),
         route' \in [Letters -> RouteRec]
  PROVE  IInv'
<1>1. TypeOK'
  BY DEF IInv, TypeOK, Stored
<1>2. ASSUME NEW m \in Letters PROVE RouteOK(m)' /\ LetterOK(m)' /\ Calm(m)
  <2>1. RouteOK(m) /\ LetterOK(m)
    BY DEF IInv
  <2>2. CASE route'[m] = route[m]
    <3>1. RouteOK(m)'
      BY <2>1, <2>2 DEF RouteOK, Has, Stored
    <3>2. LetterOK(m)' /\ Calm(m)
      BY <2>1, <2>2 DEF LetterOK, Has, Stored, Settled, Calm
    <3> QED BY <3>1, <3>2
  <2>3. CASE Settled(m) /\ route'[m].want = route[m].want /\ Settled(m)' /\ route'[m].todo \subseteq route'[m].want
    <3>1. RouteOK(m)'
      BY <2>1, <2>3 DEF RouteOK, Settled
    <3>2. LetterOK(m)' /\ Calm(m)
      BY <2>1, <2>3 DEF LetterOK, Has, Stored, Calm
    <3> QED BY <3>1, <3>2
  <2> QED BY <2>2, <2>3
<1>3. \A c \in Passes : PassOK(c)'
  BY <1>2, PassKept
<1> QED BY <1>1, <1>2, <1>3 DEF IInv

\* The retention the sender asked for.
LEMMA WriteKeepStep ==
  ASSUME IInv, NEW l \in Letters, WriteKeep(l)
  PROVE  IInv'
<1>1. PICK k \in Keeps : job' = IF job[l].status = "none" THEN job ELSE [job EXCEPT ![l].keep = k]
  BY DEF WriteKeep
<1>2. job \in [Letters -> JobRec] /\ job[l] \in JobRec /\ route[l] \in RouteRec /\ Settled(l) /\ RouteOK(l)
  BY RouteHere DEF IInv, TypeOK, WriteKeep, RouteAt, Settled
<1>3. PICK n \in JobRec : n = [job[l] EXCEPT !.keep = k]
  BY <1>2 DEF JobRec
<1>4. PICK j \in JobRec : j = IF job[l].status = "none" THEN job[l] ELSE n
  BY <1>2, <1>3
<1>5. job' = [job EXCEPT ![l] = j]
  BY <1>1, <1>2, <1>3, <1>4
<1>6. job' \in [Letters -> JobRec] /\ j.intro = job[l].intro /\ j.status = job[l].status
  BY <1>2, <1>3, <1>4, <1>5 DEF JobRec
<1>7. \A m \in Letters : job'[m].intro = job[m].intro /\ job'[m].status = job[m].status
  BY <1>2, <1>5, <1>6
<1>8. PICK r \in RouteRec : r = [route[l] EXCEPT !.pc = "end"]
  BY <1>2 DEF RouteRec
<1>9. r.pc = "end" /\ r.want = route[l].want /\ r.todo = route[l].todo
  BY <1>2, <1>8 DEF RouteRec
<1>10. route' = [route EXCEPT ![l] = r]
  BY <1>8, RouteHere DEF WriteKeep, RouteGoto
<1>11. route'[l] = r /\ route' \in [Letters -> RouteRec] /\ \A m \in Letters \ {l} : route'[m] = route[m]
  BY <1>10, RouteHere
<1>12. Settled(l)' /\ route'[l].want = route[l].want /\ route'[l].todo \subseteq route'[l].want
  BY <1>2, <1>9, <1>11 DEF Settled, RouteOK
<1>13. UNCHANGED <<letter, row, object, pass, listed>>
  BY DEF WriteKeep
<1> QED BY <1>2, <1>6, <1>7, <1>11, <1>12, <1>13, JobsMove

\* The pipeline finishes a job or takes it up again; time passes.
LEMMA JobSteps ==
  ASSUME IInv, Tick \/ \E l \in Letters : Finish(l) \/ Retry(l)
  PROVE  IInv'
<1>1. job \in [Letters -> JobRec] /\ route \in [Letters -> RouteRec]
  BY DEF IInv, TypeOK
<1>2. ASSUME job' \in [Letters -> JobRec], UNCHANGED <<letter, row, object, route, pass, listed>>,
             \A m \in Letters : job'[m].intro = job[m].intro /\ (job'[m].status # "none" => job[m].status # "none")
      PROVE  IInv'
  BY <1>1, <1>2, JobsMove
<1>3. ASSUME NEW l \in Letters, NEW s \in {"live", "final"}, job[l].status # "none",
             job' = [job EXCEPT ![l].status = s, ![l].age = 0], UNCHANGED <<letter, row, object, route, pass, listed>>
      PROVE  IInv'
  <2>1. PICK n \in 0..MaxKeep : n = 0
    BY MaxKeepIs
  <2>2. PICK j \in JobRec : j = [job[l] EXCEPT !.status = s, !.age = n]
    BY <1>1 DEF JobRec
  <2>3. job[l] \in JobRec
    BY <1>1
  <2>4. j.intro = job[l].intro
    BY <2>2, <2>3 DEF JobRec
  <2>5. job' = [job EXCEPT ![l] = j]
    BY <1>1, <1>3, <2>1, <2>2
  <2> QED BY <1>1, <1>2, <1>3, <2>4, <2>5
<1>4. ASSUME NEW l \in Letters, Finish(l) \/ Retry(l) PROVE IInv'
  <2>1. PICK s \in {"live", "final"} : s = IF Finish(l) THEN "final" ELSE "live"
    OBVIOUS
  <2>2. job[l].status # "none" /\ job' = [job EXCEPT ![l].status = s, ![l].age = 0]
    BY <1>4, <2>1 DEF Finish, Retry
  <2>3. UNCHANGED <<letter, row, object, route, pass, listed>>
    BY <1>4 DEF Finish, Retry
  <2> QED BY <1>3, <2>2, <2>3
<1>5. CASE Tick
  <2>1. ASSUME NEW m \in Letters
        PROVE  job'[m] \in JobRec /\ job'[m].intro = job[m].intro /\ (job'[m].status # "none" => job[m].status # "none")
    <3>1. job'[m] = IF job[m].status = "final" /\ job[m].age < MaxKeep THEN [job[m] EXCEPT !.age = @ + 1] ELSE job[m]
      BY <1>5 DEF Tick
    <3>2. job[m] \in JobRec /\ job[m].age \in 0..MaxKeep
      BY <1>1 DEF JobRec
    <3>3. PICK n \in Nat : n = job[m].age + 1
      BY <3>2, MaxKeepIs
    <3>4. CASE job[m].status = "final" /\ job[m].age < MaxKeep
      <4>1. n \in 0..MaxKeep
        BY <3>2, <3>3, <3>4, MaxKeepIs
      <4>2. PICK j \in JobRec : j = [job[m] EXCEPT !.age = n]
        BY <3>2, <4>1 DEF JobRec
      <4>3. j.intro = job[m].intro /\ j.status = job[m].status
        BY <3>2, <4>2 DEF JobRec
      <4>4. job'[m] = j
        BY <3>1, <3>3, <3>4, <4>2
      <4> QED BY <4>3, <4>4
    <3> QED BY <3>1, <3>2, <3>4
  <2>2. job' \in [Letters -> JobRec]
    <3>1. job' = [m \in Letters |-> job'[m]]
      BY <1>5 DEF Tick
    <3> QED BY <2>1, <3>1
  <2> QED BY <1>2, <1>5, <2>1, <2>2 DEF Tick
<1> QED BY <1>4, <1>5

-----------------------------------------------------------------------------
(* The cron passes.                                                          *)

\* A pass's step is safe when its letters are, and when it may rely on what it
\* has in hand.
LEMMA PassStep ==
  ASSUME IInv, NEW c \in Passes, NEW q \in PassRec, pass' = [pass EXCEPT ![c] = q], TypeOK',
         \A m \in Letters : RouteOK(m)' /\ LetterOK(m)' /\ Calm(m), PassOK(c)'
  PROVE  IInv'
<1>1. ASSUME NEW d \in Passes \ {c} PROVE PassOK(d)'
  <2>1. pass'[d] = pass[d]
    BY DEF IInv, TypeOK
  <2> QED BY <2>1, PassKept
<1> QED BY <1>1 DEF IInv

\* A step that only moves the pass on.
LEMMA PassMoves ==
  ASSUME IInv, NEW c \in Passes, NEW q \in PassRec, pass' = [pass EXCEPT ![c] = q],
         UNCHANGED <<letter, row, job, object, route, listed>>, PassOK(c)'
  PROVE  IInv'
<1>1. TypeOK'
  BY DEF IInv, TypeOK, Stored
<1>2. \A m \in Letters : Untouched(m)
  BY DEF Untouched
<1> QED BY <1>1, <1>2, UntouchedKept, PassStep

\* What a pass has in hand.
LEMMA PassHere ==
  ASSUME IInv, NEW c \in Passes
  PROVE  /\ pass \in [Passes -> PassRec] /\ pass[c] \in PassRec /\ pass[c].todo \subseteq Letters /\ PassOK(c)
         /\ pass[c].todo # {} => Head(c) \in pass[c].todo /\ Head(c) \in Letters
<1>1. pass[c].todo # {} => Head(c) \in pass[c].todo
  BY DEF Head
<1> QED BY <1>1 DEF IInv, TypeOK, PassRec

\* The record a pass starts a stage with.
Staged(s, t) == [PassIdle EXCEPT !.pc = s, !.todo = t]

\* It is one of a pass.
LEMMA PassRecOf ==
  ASSUME NEW s \in {"idle", "encrypt", "list", "keys"}, NEW t \in SUBSET Letters
  PROVE  Staged(s, t) \in PassRec /\ Staged(s, t).pc = s /\ Staged(s, t).todo = t
<1>1. PassIdle \in PassRec
  BY DEF PassIdle, PassRec
<1>2. PICK q \in PassRec : q = [PassIdle EXCEPT !.pc = s, !.todo = t]
  BY <1>1 DEF PassRec
<1>3. q.pc = s /\ q.todo = t
  BY <1>1, <1>2 DEF PassRec
<1>4. q = Staged(s, t)
  BY <1>2 DEF Staged
<1> QED BY <1>3, <1>4

\* At the encryption, or with letters whose routes are over, a pass may go on.
LEMMA PassFresh ==
  ASSUME IInv, NEW c \in Passes, pass'[c] \in PassRec, pass'[c].pc \notin {"r2", "batch"},
         pass'[c].pc = "keys" => pass'[c].todo # {} /\ \A l \in pass'[c].todo : Settled(l)'
  PROVE  PassOK(c)'
BY DEF PassOK, PassAt

\* The next letter of a pass is settled as well.
LEMMA NextLetterOK ==
  ASSUME IInv, NEW c \in Passes, PassAt(c, "r2") \/ PassAt(c, "batch"), NextLetter(c), \A l \in Letters : Calm(l)
  PROVE  PassOK(c)' /\ \E q \in PassRec : pass' = [pass EXCEPT ![c] = q]
<1>1. PICK t \in SUBSET Letters : t = pass[c].todo \ {Head(c)}
  BY PassHere
<1>2. PICK s \in {"idle", "encrypt", "list", "keys"} : s = IF t = {} THEN "idle" ELSE "keys"
  OBVIOUS
<1>3. PICK q \in PassRec : q = Staged(s, t) /\ q.pc = s /\ q.todo = t
  BY PassRecOf
<1>4. pass' = [pass EXCEPT ![c] = q]
  BY <1>1, <1>2, <1>3 DEF NextLetter, Staged
<1>5. pass'[c] = q
  BY <1>4, PassHere
<1>6. \A l \in t : Settled(l)'
  BY <1>1, PassHere DEF PassOK, Calm
<1>7. PassOK(c)'
  BY <1>2, <1>3, <1>5, <1>6, PassFresh
<1> QED BY <1>4, <1>7

\* The lists a pass works through, and its end.
LEMMA PassReads ==
  ASSUME IInv, NEW c \in Passes, ListPlain(c) \/ ListDue(c) \/ PassDies(c)
  PROVE  IInv'
<1>1. ASSUME NEW s \in {"idle", "encrypt", "list", "keys"}, NEW t \in SUBSET Letters,
             s = "keys" => t # {} /\ \A l \in t : Settled(l),
             pass' = [pass EXCEPT ![c] = Staged(s, t)],
             UNCHANGED <<letter, row, job, object, route, listed>>
      PROVE  IInv'
  <2>1. PICK q \in PassRec : q = Staged(s, t) /\ q.pc = s /\ q.todo = t
    BY PassRecOf
  <2>2. pass' = [pass EXCEPT ![c] = q]
    BY <1>1, <2>1
  <2>3. pass'[c] = q
    BY <2>2, PassHere
  <2>4. \A l \in t : Settled(l)' <=> Settled(l)
    BY <1>1 DEF Settled
  <2>5. PassOK(c)'
    BY <1>1, <2>1, <2>3, <2>4, PassFresh
  <2> QED BY <1>1, <2>2, <2>5, PassMoves
<1>2. CASE ListPlain(c)
  <2>1. PICK t \in SUBSET Letters : pass' = [pass EXCEPT ![c] = [PassIdle EXCEPT !.pc = IF t = {} THEN "list" ELSE "encrypt", !.todo = t]]
    BY <1>2 DEF ListPlain, SomeOf
  <2>2. PICK s \in {"idle", "encrypt", "list", "keys"} : s = IF t = {} THEN "list" ELSE "encrypt"
    OBVIOUS
  <2>3. pass' = [pass EXCEPT ![c] = Staged(s, t)]
    BY <2>1, <2>2 DEF Staged
  <2> QED BY <1>1, <1>2, <2>2, <2>3 DEF ListPlain
<1>3. CASE ListDue(c)
  <2>1. PICK t \in SUBSET {l \in Letters : Due(l)} : pass' = [pass EXCEPT ![c] = [PassIdle EXCEPT !.pc = IF t = {} THEN "idle" ELSE "keys", !.todo = t]]
    BY <1>3 DEF ListDue, SomeOf
  <2>2. PICK s \in {"idle", "encrypt", "list", "keys"} : s = IF t = {} THEN "idle" ELSE "keys"
    OBVIOUS
  <2>3. t \in SUBSET Letters /\ \A l \in t : Settled(l)
    BY DEF Due, IInv, LetterOK
  <2>4. pass' = [pass EXCEPT ![c] = Staged(s, t)]
    BY <2>1, <2>2 DEF Staged
  <2> QED BY <1>1, <1>3, <2>2, <2>3, <2>4 DEF ListDue
<1>4. CASE PassDies(c)
  <2>1. PICK q \in PassRec : q = PassIdle
    BY DEF PassIdle, PassRec
  <2>2. pass' = [pass EXCEPT ![c] = q] /\ q.pc = "idle"
    BY <1>4, <2>1 DEF PassDies, PassIdle
  <2>3. pass'[c] = q
    BY <2>2, PassHere
  <2>4. PassOK(c)'
    BY <2>2, <2>3, PassFresh
  <2> QED BY <1>4, <2>2, <2>4, PassMoves DEF PassDies
<1> QED BY <1>2, <1>3, <1>4

\* Only a text that is still plain is replaced.
LEMMA EncryptStep ==
  ASSUME IInv, NEW c \in Passes, Encrypt(c)
  PROVE  IInv'
<1>1. PICK l \in pass[c].todo :
        /\ letter' = IF Stored(l) /\ letter[l].body = "plain" THEN [letter EXCEPT ![l].body = "enc"] ELSE letter
        /\ pass' = [pass EXCEPT ![c].todo = @ \ {l}, ![c].pc = IF pass[c].todo = {l} THEN "list" ELSE "encrypt"]
  BY DEF Encrypt
<1>2. l \in Letters /\ letter \in [Letters -> LetterRec] /\ letter[l] \in LetterRec
  BY PassHere DEF IInv, TypeOK
<1>3. UNCHANGED <<row, job, object, route, listed>>
  BY DEF Encrypt
<1>4. PICK n \in LetterRec : n = [letter[l] EXCEPT !.body = "enc"]
  BY <1>2 DEF LetterRec, Bodies
<1>5. n.state = letter[l].state /\ n.body = "enc" /\ n.extracted = letter[l].extracted
  BY <1>2, <1>4 DEF LetterRec
<1>6. PICK x \in LetterRec : x = IF Stored(l) /\ letter[l].body = "plain" THEN n ELSE letter[l]
  BY <1>2
<1>7. letter' = [letter EXCEPT ![l] = x]
  BY <1>1, <1>2, <1>4, <1>6
<1>8. letter' \in [Letters -> LetterRec] /\ letter'[l] = x /\ \A m \in Letters \ {l} : letter'[m] = letter[m]
  BY <1>2, <1>7
<1>9. /\ x.state = letter[l].state /\ x.extracted = letter[l].extracted /\ (letter[l].body = "redacted" <=> x.body = "redacted")
  BY <1>5, <1>6
<1>10. \A m \in Letters : /\ letter'[m].state = letter[m].state /\ letter'[m].extracted = letter[m].extracted
                          /\ (letter[m].body = "redacted" <=> letter'[m].body = "redacted")
  BY <1>8, <1>9
<1>11. PICK s \in {"list", "encrypt"} : s = IF pass[c].todo = {l} THEN "list" ELSE "encrypt"
  OBVIOUS
<1>12. PICK q \in PassRec : q = [pass[c] EXCEPT !.todo = @ \ {l}, !.pc = s]
  BY PassHere DEF PassRec
<1>13. q.pc = s
  BY <1>12, PassHere DEF PassRec
<1>14. pass' = [pass EXCEPT ![c] = q]
  BY <1>1, <1>11, <1>12, PassHere
<1>15. pass' \in [Passes -> PassRec] /\ pass'[c] = q
  BY <1>14, PassHere
<1>16. TypeOK'
  <2>1. \A k \in row : Stored(k[1])'
    BY <1>10 DEF IInv, TypeOK, Stored
  <2> QED BY <1>3, <1>8, <1>15, <2>1 DEF IInv, TypeOK
<1>17. ASSUME NEW m \in Letters PROVE RouteOK(m)' /\ LetterOK(m)' /\ Calm(m)
  <2>1. (Stored(m)' <=> Stored(m)) /\ RouteOK(m) /\ LetterOK(m)
    BY <1>10 DEF Stored, IInv
  <2>2. RouteOK(m)'
    BY <1>3, <1>10, <2>1 DEF RouteOK, Has
  <2>3. LetterOK(m)'
    BY <1>3, <1>10, <2>1 DEF LetterOK, Has, Settled
  <2>4. Calm(m)
    BY <1>3, <2>1 DEF Calm, Settled
  <2> QED BY <2>2, <2>3, <2>4
<1>18. PassOK(c)'
  BY <1>13, <1>15, PassFresh
<1> QED BY <1>14, <1>16, <1>17, <1>18, PassStep

\* The keys of a letter are read once its route can add no more.
LEMMA ReadKeysStep ==
  ASSUME IInv, NEW c \in Passes, ReadKeys(c)
  PROVE  IInv'
<1> DEFINE h == Head(c)
<1>1. pass[c] \in PassRec /\ pass[c].todo # {} /\ h \in Letters /\ \A l \in pass[c].todo : Settled(l)
  BY PassHere DEF ReadKeys, PassAt, PassOK
<1>2. PICK k \in SUBSET (Letters \X Files) : k = KeysOf(h)
  BY DEF KeysOf, IInv, TypeOK
<1>3. PICK s \in {"batch", "r2"} : s = IF k = {} THEN "batch" ELSE "r2"
  OBVIOUS
<1>4. PICK q \in PassRec : q = [pass[c] EXCEPT !.keys = k, !.pc = s]
  BY <1>1 DEF PassRec
<1>5. q.pc = s /\ q.todo = pass[c].todo /\ q.keys = k
  BY <1>1, <1>4 DEF PassRec
<1>6. pass' = [pass EXCEPT ![c] = q]
  BY <1>2, <1>3, <1>4, PassHere DEF ReadKeys
<1>7. pass'[c] = q
  BY <1>6, PassHere
<1>8. Head(c)' = h
  BY <1>5, <1>7 DEF Head
<1>9. UNCHANGED <<letter, row, job, object, route, listed>>
  BY DEF ReadKeys
<1>10. \A f \in Files : <<h, f>> \in row => <<h, f>> \in k
  BY <1>2 DEF KeysOf
<1>11. s = "batch" /\ Stored(h) => \A f \in Files : ~(<<h, f>> \in object /\ <<h, f>> \in listed)
  <2>1. LetterOK(h)
    BY <1>1 DEF IInv
  <2>2. s = "batch" => \A f \in Files : <<h, f>> \notin row
    BY <1>3, <1>10
  <2> QED BY <2>1, <2>2 DEF LetterOK
<1>12. PassOK(c)'
  <2>1. \A l \in q.todo : Settled(l)'
    BY <1>1, <1>5, <1>9 DEF Settled
  <2>2. Stored(Head(c))' <=> Stored(h)
    BY <1>8, <1>9 DEF Stored
  <2> QED BY <1>1, <1>5, <1>7, <1>8, <1>9, <1>10, <1>11, <2>1, <2>2 DEF PassOK, PassAt
<1> QED BY <1>6, <1>9, <1>12, PassMoves

\* Objects that go disturb nothing: no letter is owed an object.
LEMMA ObjectsGo ==
  ASSUME IInv, object' \subseteq object, UNCHANGED <<letter, row, job, route, listed>>
  PROVE  /\ \A m \in Letters : RouteOK(m)' /\ LetterOK(m)' /\ Calm(m)
         /\ pass' \in [Passes -> PassRec] => TypeOK'
<1>1. ASSUME NEW m \in Letters PROVE RouteOK(m)' /\ LetterOK(m)' /\ Calm(m)
  <2>1. RouteOK(m) /\ LetterOK(m)
    BY DEF IInv
  <2>2. RouteOK(m)'
    BY <2>1 DEF RouteOK, Has, Stored
  <2>3. LetterOK(m)'
    BY <2>1 DEF LetterOK, Has, Settled, Stored
  <2>4. Calm(m)
    BY DEF Calm, Settled, Stored
  <2> QED BY <2>2, <2>3, <2>4
<1>2. pass' \in [Passes -> PassRec] => TypeOK'
  BY DEF IInv, TypeOK, Stored
<1> QED BY <1>1, <1>2

\* With the objects of its keys gone, none that had a row is left of the letter.
LEMMA DeleteObjectsStep ==
  ASSUME IInv, NEW c \in Passes, DeleteObjects(c)
  PROVE  IInv'
<1> DEFINE h == Head(c)
<1>1. /\ pass[c] \in PassRec /\ pass[c].todo # {} /\ h \in Letters /\ \A l \in pass[c].todo : Settled(l)
      /\ \A f \in Files : <<h, f>> \in row => <<h, f>> \in pass[c].keys
  BY PassHere DEF DeleteObjects, PassAt, PassOK
<1>2. PICK q \in PassRec : q = [pass[c] EXCEPT !.pc = "batch"]
  BY <1>1 DEF PassRec
<1>3. q.pc = "batch" /\ q.todo = pass[c].todo
  BY <1>1, <1>2 DEF PassRec
<1>4. pass' = [pass EXCEPT ![c] = q]
  BY <1>2, PassHere DEF DeleteObjects
<1>5. pass'[c] = q /\ pass' \in [Passes -> PassRec]
  BY <1>4, PassHere
<1>6. Head(c)' = h
  BY <1>3, <1>5 DEF Head
<1>7. object' = object \ pass[c].keys /\ object' \subseteq object /\ UNCHANGED <<letter, row, job, route, listed>>
  BY DEF DeleteObjects
<1>8. ASSUME Stored(h), NEW f \in Files PROVE ~(<<h, f>> \in object' /\ <<h, f>> \in listed')
  <2>1. LetterOK(h)
    BY <1>1 DEF IInv
  <2> QED BY <1>1, <1>7, <1>8, <2>1 DEF LetterOK
<1>9. PassOK(c)'
  <2>1. \A l \in q.todo : Settled(l)'
    BY <1>1, <1>3, <1>7 DEF Settled
  <2>2. Stored(Head(c))' <=> Stored(h)
    BY <1>6, <1>7 DEF Stored
  <2> QED BY <1>1, <1>3, <1>5, <1>6, <1>8, <2>1, <2>2 DEF PassOK, PassAt
<1> QED BY <1>4, <1>5, <1>7, <1>9, ObjectsGo, PassStep

\* A failure leaves the letter with its rows; the pass goes on.
LEMMA DeleteFailsStep ==
  ASSUME IInv, NEW c \in Passes, DeleteFails(c)
  PROVE  IInv'
<1>1. object' \subseteq object /\ UNCHANGED <<letter, row, job, route, listed>> /\ NextLetter(c) /\ PassAt(c, "r2")
  BY DEF DeleteFails
<1>2. \A m \in Letters : RouteOK(m)' /\ LetterOK(m)' /\ Calm(m)
  BY <1>1, ObjectsGo
<1>3. PassOK(c)'
  BY <1>1, <1>2, NextLetterOK
<1>4. PICK q \in PassRec : pass' = [pass EXCEPT ![c] = q]
  BY <1>1, <1>2, NextLetterOK
<1>5. TypeOK'
  BY <1>1, <1>4, ObjectsGo, PassHere
<1> QED BY <1>2, <1>3, <1>4, <1>5, PassStep

\* The rows and the text go last, when nothing is left that they name.
LEMMA RedactStep ==
  ASSUME IInv, NEW c \in Passes, Redact(c)
  PROVE  IInv'
<1>1. PICK l \in Letters : l = Head(c) /\ Settled(l)
  BY PassHere DEF Redact, PassAt, PassOK
<1>2. /\ row' = row \ KeysOf(l) /\ letter' = (IF Stored(l) THEN [letter EXCEPT ![l].body = "redacted"] ELSE letter)
      /\ job' = (IF job[l].intro # "none" THEN [job EXCEPT ![l].intro = "redacted"] ELSE job)
      /\ NextLetter(c) /\ UNCHANGED <<object, route, listed>> /\ PassAt(c, "batch")
  BY <1>1 DEF Redact
<1>3. letter \in [Letters -> LetterRec] /\ job \in [Letters -> JobRec] /\ letter[l] \in LetterRec /\ job[l] \in JobRec
  BY DEF IInv, TypeOK
<1>4. PICK n \in LetterRec : n = [letter[l] EXCEPT !.body = "redacted"]
  BY <1>3 DEF LetterRec, Bodies
<1>5. n.state = letter[l].state /\ n.extracted = letter[l].extracted
  BY <1>3, <1>4 DEF LetterRec
<1>6. PICK x \in LetterRec : x = IF Stored(l) THEN n ELSE letter[l]
  BY <1>3
<1>7. letter' = [letter EXCEPT ![l] = x]
  BY <1>2, <1>3, <1>4, <1>6
<1>8. letter' \in [Letters -> LetterRec] /\ letter'[l] = x /\ \A m \in Letters \ {l} : letter'[m] = letter[m]
  BY <1>3, <1>7
<1>9. x.state = letter[l].state /\ x.extracted = letter[l].extracted /\ (Stored(l) => x.body = "redacted")
  BY <1>3, <1>4, <1>5, <1>6 DEF LetterRec
<1>10. PICK i \in JobRec : i = [job[l] EXCEPT !.intro = "redacted"]
  BY <1>3 DEF JobRec, Bodies
<1>11. i.status = job[l].status /\ i.intro = "redacted"
  BY <1>3, <1>10 DEF JobRec
<1>12. PICK j \in JobRec : j = IF job[l].intro # "none" THEN i ELSE job[l]
  BY <1>3
<1>13. job' = [job EXCEPT ![l] = j]
  BY <1>2, <1>3, <1>10, <1>12
<1>14. job' \in [Letters -> JobRec] /\ job'[l] = j /\ \A m \in Letters \ {l} : job'[m] = job[m]
  BY <1>3, <1>13
<1>15. j.status = job[l].status /\ j.intro \in {"none", "redacted"}
  BY <1>11, <1>12
<1>16. \A f \in Files : <<l, f>> \notin row'
  BY <1>2 DEF KeysOf
<1>17. \A m \in Letters \ {l} : \A f \in Files : <<m, f>> \in row' <=> <<m, f>> \in row
  BY <1>2 DEF KeysOf
<1>18. \A m \in Letters : letter'[m].state = letter[m].state
  BY <1>8, <1>9
<1>19. \A m \in Letters \ {l} : RouteOK(m)' /\ LetterOK(m)' /\ Calm(m)
  <2>1. \A m \in Letters \ {l} : Untouched(m)
    BY <1>2, <1>8, <1>14, <1>17 DEF Untouched
  <2> QED BY <2>1, UntouchedKept
<1>20. RouteOK(l) /\ LetterOK(l) /\ PassOK(c)
  BY DEF IInv
<1>21. Stored(l) => \A f \in Files : ~(<<l, f>> \in object /\ <<l, f>> \in listed)
  BY <1>1, <1>2, <1>20 DEF PassOK
<1>22. (Stored(l)' <=> Stored(l)) /\ (Settled(l)' <=> Settled(l))
  BY <1>2, <1>18 DEF Stored, Settled
<1>23. RouteOK(l)'
  BY <1>1, <1>2, <1>20 DEF RouteOK, Settled
<1>24. LetterOK(l)'
  <2>1. CASE Stored(l)
    BY <1>1, <1>2, <1>8, <1>9, <1>14, <1>15, <1>16, <1>20, <1>21, <1>22, <2>1 DEF LetterOK, Has
  <2>2. CASE ~Stored(l)
    <3>1. x = letter[l]
      BY <1>6, <2>2
    <3> QED BY <1>1, <1>2, <1>8, <1>14, <1>15, <1>16, <1>20, <1>22, <2>2, <3>1 DEF LetterOK, Has
  <2> QED BY <2>1, <2>2
<1>25. Calm(l)
  BY <1>2, <1>16, <1>22 DEF Calm
<1>26. \A m \in Letters : RouteOK(m)' /\ LetterOK(m)' /\ Calm(m)
  BY <1>19, <1>23, <1>24, <1>25
<1>27. PassOK(c)'
  BY <1>2, <1>26, NextLetterOK
<1>28. PICK q \in PassRec : pass' = [pass EXCEPT ![c] = q]
  BY <1>2, <1>26, NextLetterOK
<1>29. TypeOK'
  <2>1. row' \subseteq row /\ \A k \in row' : Stored(k[1])'
    BY <1>2, <1>18 DEF IInv, TypeOK, Stored
  <2>2. pass' \in [Passes -> PassRec]
    BY <1>28, PassHere
  <2> QED BY <1>2, <1>8, <1>14, <2>1, <2>2 DEF IInv, TypeOK
<1> QED BY <1>26, <1>27, <1>28, <1>29, PassStep

\* The erasure of the account: the rows go with their letters.
LEMMA EraserSteps ==
  ASSUME IInv, EraseKeys \/ EraseBatch \/ EraseObjects
  PROVE  IInv'
<1>1. UNCHANGED <<route, pass, listed>> /\ pass \in [Passes -> PassRec]
  BY DEF EraseKeys, EraseBatch, EraseObjects, IInv, TypeOK
<1>2. ASSUME \A m \in Letters : RouteOK(m)' /\ LetterOK(m)' /\ Calm(m), TypeOK' PROVE IInv'
  BY <1>1, <1>2, PassKept DEF IInv
<1>3. CASE EraseKeys \/ EraseObjects
  <2>1. object' \subseteq object /\ UNCHANGED <<letter, row, job, route, listed>>
    BY <1>3 DEF EraseKeys, EraseObjects
  <2> QED BY <1>1, <1>2, <2>1, ObjectsGo
<1>4. CASE EraseBatch
  <2>1. row' = {} /\ letter' = [l \in Letters |-> NoLetter] /\ job' = [l \in Letters |-> NoJob] /\ UNCHANGED object
    BY <1>4 DEF EraseBatch
  <2>2. NoLetter \in LetterRec /\ NoLetter.state = "none" /\ NoLetter.body = "none"
    BY DEF NoLetter, LetterRec, Bodies
  <2>3. NoJob \in JobRec /\ NoJob.status = "none"
    <3>1. PICK n \in 0..MaxKeep : n = 0
      BY MaxKeepIs
    <3>2. NoJob = [status |-> "none", keep |-> DefaultKeep, age |-> n, intro |-> "none"]
      BY <3>1 DEF NoJob
    <3> QED BY <3>2, LettersAssumption DEF JobRec, Bodies, LettersAssumption
  <2>4. TypeOK'
    BY <1>1, <2>1, <2>2, <2>3 DEF IInv, TypeOK
  <2>5. ASSUME NEW m \in Letters PROVE RouteOK(m)' /\ LetterOK(m)' /\ Calm(m)
    <3>1. RouteOK(m) /\ letter'[m] = NoLetter /\ job'[m] = NoJob
      BY <2>1 DEF IInv
    <3>2. ~Stored(m)'
      BY <2>2, <3>1 DEF Stored
    <3>3. RouteOK(m)'
      BY <1>1, <3>1, <3>2 DEF RouteOK, Has
    <3>4. LetterOK(m)'
      BY <2>2, <2>3, <3>1, <3>2 DEF LetterOK
    <3>5. Calm(m)
      BY <1>1, <2>1, <3>2 DEF Calm, Settled
    <3> QED BY <3>3, <3>4, <3>5
  <2> QED BY <1>2, <2>4, <2>5
<1> QED BY <1>3, <1>4

-----------------------------------------------------------------------------
\* Old letters are settled, with every file they have listed.
LEMMA InitInvariant == Init => IInv
<1> SUFFICES ASSUME Init PROVE IInv
  OBVIOUS
<1>1. PICK old \in {Letters, Letters \ Posted}, f \in SUBSET Files :
       /\ letter = [l \in Letters |-> IF l \in old THEN [state |-> "live", body |-> "plain", extracted |-> f \cap Extracted] ELSE NoLetter]
       /\ job = [l \in Letters |-> IF l \in old THEN [NoJob EXCEPT !.status = "final"] ELSE NoJob]
       /\ row = old \X f
       /\ route = [l \in Letters |-> IF l \in old THEN [NoRoute EXCEPT !.pc = "end", !.want = f] ELSE NoRoute]
  BY DEF Init
<1>2. object = row /\ listed = row /\ pass = [c \in Passes |-> PassIdle] /\ old \subseteq Letters
  BY <1>1 DEF Init
<1>3. PICK x \in LetterRec : x = [state |-> "live", body |-> "plain", extracted |-> f \cap Extracted]
  BY DEF LetterRec, Bodies
<1>4. x.state = "live" /\ x.body = "plain" /\ x.extracted = f \cap Extracted
  BY <1>3
<1>5. NoLetter \in LetterRec /\ NoLetter.state = "none" /\ NoLetter.body = "none"
  BY DEF NoLetter, LetterRec, Bodies
<1>6. NoJob \in JobRec /\ NoJob.status = "none" /\ NoJob.intro = "none"
  <2>1. PICK n \in 0..MaxKeep : n = 0
    BY MaxKeepIs
  <2>2. NoJob = [status |-> "none", keep |-> DefaultKeep, age |-> n, intro |-> "none"]
    BY <2>1 DEF NoJob
  <2> QED BY <2>2, LettersAssumption DEF JobRec, Bodies, LettersAssumption
<1>7. PICK j \in JobRec : j = [NoJob EXCEPT !.status = "final"]
  BY <1>6 DEF JobRec
<1>8. NoRoute \in RouteRec /\ NoRoute.pc = "idle" /\ NoRoute.want = {} /\ NoRoute.todo = {}
  BY DEF NoRoute, RouteRec
<1>9. PICK r \in RouteRec : r = [NoRoute EXCEPT !.pc = "end", !.want = f]
  BY <1>8 DEF RouteRec
<1>10. r.pc = "end" /\ r.want = f /\ r.todo = {}
  BY <1>8, <1>9 DEF RouteRec
<1>11. \A l \in Letters : /\ letter[l] = (IF l \in old THEN x ELSE NoLetter) /\ job[l] = (IF l \in old THEN j ELSE NoJob)
                          /\ route[l] = IF l \in old THEN r ELSE NoRoute
  BY <1>1, <1>3, <1>7, <1>9
<1>12. letter \in [Letters -> LetterRec] /\ job \in [Letters -> JobRec] /\ route \in [Letters -> RouteRec]
  <2>1. \A l \in Letters : letter[l] \in LetterRec /\ job[l] \in JobRec /\ route[l] \in RouteRec
    BY <1>3, <1>5, <1>6, <1>7, <1>8, <1>9, <1>11
  <2>2. DOMAIN letter = Letters /\ DOMAIN job = Letters /\ DOMAIN route = Letters
    BY <1>1
  <2>3. letter = [l \in Letters |-> letter[l]] /\ job = [l \in Letters |-> job[l]] /\ route = [l \in Letters |-> route[l]]
    BY <1>1
  <2> QED BY <2>1, <2>3
<1>13. PassIdle \in PassRec /\ PassIdle.pc = "idle"
  BY DEF PassIdle, PassRec
<1>14. TypeOK
  <2>1. \A k \in row : k \in Letters \X Files /\ k[1] \in old /\ k[1] \in Letters
    BY <1>1, <1>2
  <2>2. \A k \in row : Stored(k[1])
    BY <1>4, <1>11, <2>1 DEF Stored
  <2> QED BY <1>2, <1>12, <1>13, <2>1, <2>2 DEF TypeOK
<1>15. ASSUME NEW l \in Letters PROVE RouteOK(l) /\ LetterOK(l)
  <2>1. \A g \in Files : <<l, g>> \in listed <=> l \in old /\ g \in f
    BY <1>1, <1>2
  <2>2. CASE l \in old
    <3>1. letter[l] = x /\ job[l] = j /\ route[l] = r
      BY <1>11, <2>2
    <3>2. Has(l, r.want) /\ Settled(l) /\ Stored(l)
      BY <1>4, <1>10, <2>1, <2>2, <3>1 DEF Has, Settled, Stored
    <3>3. RouteOK(l)
      BY <1>10, <3>1 DEF RouteOK
    <3>4. LetterOK(l)
      BY <1>2, <1>4, <1>10, <3>1, <3>2 DEF LetterOK
    <3> QED BY <3>3, <3>4
  <2>3. CASE l \notin old
    BY <1>2, <1>5, <1>6, <1>8, <1>11, <2>1, <2>3 DEF RouteOK, LetterOK, Has, Stored
  <2> QED BY <2>2, <2>3
<1>16. \A c \in Passes : PassOK(c)
  BY <1>2, <1>13 DEF PassOK, PassAt
<1> QED BY <1>14, <1>15, <1>16 DEF IInv

\* Every step keeps the invariant.
LEMMA NextInvariant == IInv /\ [Next]_vars => IInv'
<1> SUFFICES ASSUME IInv, [Next]_vars PROVE IInv'
  OBVIOUS
<1>1. ASSUME NEW l \in Letters, Route(l) PROVE IInv'
  BY <1>1, PostLetterStep, RouteReads, PutObjectStep, InsertRowStep, UpdateBodyStep, CreateJobStep, WriteKeepStep DEF Route
<1>2. ASSUME NEW c \in Passes, PassSteps(c) \/ DeleteFails(c) \/ PassDies(c) PROVE IInv'
  BY <1>2, PassReads, EncryptStep, ReadKeysStep, DeleteObjectsStep, RedactStep, DeleteFailsStep DEF PassSteps
<1>3. CASE UNCHANGED vars
  <2>1. UNCHANGED <<letter, row, job, object, route, pass, listed>>
    BY <1>3 DEF vars
  <2>2. job' \in [Letters -> JobRec] /\ route' \in [Letters -> RouteRec]
    BY <2>1 DEF IInv, TypeOK
  <2> QED BY <2>1, <2>2, JobsMove
<1> QED BY <1>1, <1>2, <1>3, JobSteps, EraserSteps DEF Next

\* The inductive invariant holds in every behaviour.
THEOREM Invariance == Spec => []IInv
BY InitInvariant, NextInvariant, PTL DEF Spec

\* The tables, the objects and what the invocations have in hand are what the
\* code takes them for; a row of an attachment always has its letter.
THEOREM TypesHold == Spec => []TypeOK
<1>1. IInv => TypeOK
  BY DEF IInv
<1> QED BY <1>1, Invariance, PTL

\* A redacted letter has left nothing behind: no object that had a row and no
\* intro text, whatever passes overlap (letter-privacy.ts:28-42).
THEOREM NothingLeft == Spec => []RedactedLeavesNothing
<1>1. ASSUME IInv, NEW l \in Letters, letter[l].body = "redacted"
      PROVE  /\ KeysOf(l) = {} /\ ~ \E f \in Files : <<l, f>> \in object \cap listed
             /\ job[l].intro \in {"none", "redacted"}
  <2>1. LetterOK(l)
    BY <1>1 DEF IInv
  <2>2. ASSUME NEW k \in KeysOf(l) PROVE FALSE
    <3>1. k \in row /\ k \in Letters \X Files /\ k[1] = l
      BY <1>1 DEF KeysOf, IInv, TypeOK
    <3>2. k = <<l, k[2]>> /\ k[2] \in Files
      BY <3>1
    <3> QED BY <1>1, <2>1, <3>1, <3>2 DEF LetterOK
  <2> QED BY <1>1, <2>1, <2>2 DEF LetterOK
<1>2. IInv => RedactedLeavesNothing
  BY <1>1 DEF RedactedLeavesNothing
<1> QED BY <1>2, Invariance, PTL

\* A job's letter has every file its sender attached, as a row or as text
\* (index.ts:149-158, attachments.ts:26-58).
THEOREM NothingMissing == Spec => []JobHasAllFiles
<1>1. ASSUME IInv, NEW l \in Letters, job[l].status # "none", letter[l].body # "redacted"
      PROVE  KeysOf(l) = {l} \X route[l].want /\ letter[l].extracted = route[l].want \cap Extracted
  <2>1. LetterOK(l) /\ route[l].want \subseteq Files
    BY <1>1, RouteHere
  <2>2. ASSUME NEW k \in KeysOf(l) PROVE k \in {l} \X route[l].want
    <3>1. k \in row /\ k \in listed /\ k \in Letters \X Files /\ k[1] = l
      BY <1>1 DEF KeysOf, IInv, TypeOK
    <3>2. k = <<l, k[2]>> /\ k[2] \in Files
      BY <3>1
    <3> QED BY <1>1, <2>1, <3>1, <3>2 DEF LetterOK, Has
  <2>3. ASSUME NEW f \in route[l].want PROVE <<l, f>> \in KeysOf(l)
    <3>1. <<l, f>> \in row
      BY <1>1, <2>1 DEF LetterOK, Has
    <3> QED BY <3>1 DEF KeysOf
  <2>4. KeysOf(l) = {l} \X route[l].want
    BY <2>2, <2>3
  <2> QED BY <1>1, <2>1, <2>4 DEF LetterOK
<1>2. IInv => JobHasAllFiles
  BY <1>1 DEF JobHasAllFiles
<1> QED BY <1>2, Invariance, PTL

\* Once redacted, the text of a letter never comes back: not from an encryption
\* pass that read it before, nor from a route (letter-privacy.ts:21-26).
THEOREM RedactedForever == Spec => RedactedStays
<1>1. ASSUME IInv, Next, NEW l \in Letters, letter[l].body = "redacted" PROVE letter'[l].body \in {"redacted", "none"}
  <2>1. Settled(l) /\ letter \in [Letters -> LetterRec]
    BY <1>1 DEF IInv, LetterOK, TypeOK
  <2>2. CASE UNCHANGED letter
    BY <1>1, <2>2
  <2>3. ASSUME NEW m \in Letters, PostLetter(m) \/ UpdateBody(m) PROVE letter'[l].body = "redacted"
    <3>1. m # l
      BY <2>1, <2>3 DEF PostLetter, UpdateBody, RouteAt, Settled
    <3> QED BY <1>1, <2>1, <2>3, <3>1 DEF PostLetter, UpdateBody
  <2>4. ASSUME NEW c \in Passes, Encrypt(c) PROVE letter'[l].body = "redacted"
    BY <1>1, <2>1, <2>4 DEF Encrypt
  <2>5. ASSUME NEW c \in Passes, Redact(c) PROVE letter'[l].body = "redacted"
    BY <1>1, <2>1, <2>5 DEF Redact, LetterRec
  <2>6. CASE EraseBatch
    BY <2>6 DEF EraseBatch, NoLetter
  <2>7. \/ UNCHANGED letter \/ EraseBatch
        \/ \E m \in Letters : PostLetter(m) \/ UpdateBody(m)
        \/ \E c \in Passes : Encrypt(c) \/ Redact(c)
    BY <1>1 DEF Next, Route, PassSteps, CheckBatch, RefuseFile, PutObject, InsertRow, CreateJob, WriteKeep, RouteDies,
       Finish, Retry, Tick, ListPlain, ListDue, ReadKeys, DeleteObjects, DeleteFails, PassDies, EraseKeys, EraseObjects
  <2> QED BY <2>2, <2>3, <2>4, <2>5, <2>6, <2>7
<1>2. IInv /\ [Next]_vars => [\A l \in Letters : letter[l].body = "redacted" => letter'[l].body \in {"redacted", "none"}]_vars
  BY <1>1
<1> QED BY <1>2, Invariance, PTL DEF Spec, RedactedStays
=============================================================================
