-------------------------- MODULE Issuances_proofs --------------------------
(***************************************************************************)
(* What the catalogue of issuances keeps for any number of issuances,      *)
(* domains, sources and requests.  Three inductive invariants build on     *)
(* each other: Sound, whatever overlaps or dies; Covered, what an included *)
(* issuance has while requests do not overlap; Settled, how the tables     *)
(* agree around the one request of the serial regime.                      *)
(***************************************************************************)
EXTENDS RegulatoryIssuances, FiniteSetTheorems, WellFoundedInduction, TLAPS

-----------------------------------------------------------------------------
(* The sources of an issuance, as values                                   *)

(* A stored source with an id up to n; an uploaded file has no URL.        *)
GoodSource(s, n) == s \in SourceRows(n) /\ (s.file # None => s.url = None)

GoodSources(ss, n) ==
  /\ \A s \in ss : GoodSource(s, n)
  /\ \A s, t \in ss : s.id = t.id => s = t

Same(s, t) == t.id = s.id /\ t.url = s.url /\ t.file = s.file

(* The sources rest are those of ss, or some of them, with other marks.    *)
From(rest, ss, n) ==
  /\ \A t \in rest : GoodSource(t, n) /\ \E s \in ss : Same(s, t)
  /\ \A s, t \in rest : s.id = t.id => s = t

OnePrimary(ss) == \A s, t \in ss : s.primary /\ t.primary => s = t
FileOnce(ss) == \A s, t \in ss : s.file = t.file /\ s.file # None => s = t
Shows(ss, u) == u # None => \E s \in ss : s.primary /\ s.url = u

LEMMA MarkedRow ==
  ASSUME NEW n \in Nat, NEW s \in SourceRows(n), NEW k \in {l.kind : l \in Links} \cup {"uploaded_copy", "official_external"},
         NEW b \in BOOLEAN, NEW v \in BOOLEAN
  PROVE  [id |-> s.id, kind |-> k, url |-> s.url, file |-> s.file, primary |-> b, verified |-> v] \in SourceRows(n)
BY DEF SourceRows

LEMMA Marked ==
  ASSUME NEW n \in Nat, NEW s, GoodSource(s, n), NEW b \in BOOLEAN
  PROVE  LET t == [s EXCEPT !.primary = b]
         IN  GoodSource(t, n) /\ Same(s, t) /\ t.primary = b
<1> DEFINE t == [id |-> s.id, kind |-> s.kind, url |-> s.url, file |-> s.file, primary |-> b, verified |-> s.verified]
<1>1. s.kind \in {l.kind : l \in Links} \cup {"uploaded_copy", "official_external"} /\ s.verified \in BOOLEAN
  BY DEF GoodSource, SourceRows
<1>2. t \in SourceRows(n)
  BY <1>1, MarkedRow DEF GoodSource
<1>3. [s EXCEPT !.primary = b] = t
  BY DEF GoodSource, SourceRows
<1> QED
  BY <1>2, <1>3 DEF GoodSource, Same

LEMMA Marks ==
  ASSUME NEW n \in Nat, NEW s, GoodSource(s, n)
  PROVE  /\ LET t == [s EXCEPT !.primary = TRUE] IN GoodSource(t, n) /\ Same(s, t) /\ t.primary
         /\ LET t == [s EXCEPT !.primary = FALSE] IN GoodSource(t, n) /\ Same(s, t) /\ ~t.primary
<1>1. PICK yes \in BOOLEAN : yes = TRUE
  OBVIOUS
<1>2. PICK no \in BOOLEAN : no = FALSE
  OBVIOUS
<1>3. LET t == [s EXCEPT !.primary = yes] IN GoodSource(t, n) /\ Same(s, t) /\ t.primary = yes
  BY Marked
<1>4. LET t == [s EXCEPT !.primary = no] IN GoodSource(t, n) /\ Same(s, t) /\ t.primary = no
  BY Marked
<1>5. LET t == [s EXCEPT !.primary = TRUE] IN GoodSource(t, n) /\ Same(s, t) /\ t.primary
  BY <1>1, <1>3, Zenon
<1>6. LET t == [s EXCEPT !.primary = FALSE] IN GoodSource(t, n) /\ Same(s, t) /\ ~t.primary
  BY <1>2, <1>4, Zenon
<1> QED
  BY <1>5, <1>6

LEMMA Rewritten ==
  ASSUME NEW n, NEW s, GoodSource(s, n), NEW b \in BOOLEAN, NEW k \in {l.kind : l \in Links} \cup {"uploaded_copy", "official_external"}
  PROVE  [s EXCEPT !.primary = b, !.kind = k] =
           [id |-> s.id, kind |-> k, url |-> s.url, file |-> s.file, primary |-> b, verified |-> s.verified]
<1> DEFINE p == [s EXCEPT !.primary = b]
<1>1. p = [id |-> s.id, kind |-> s.kind, url |-> s.url, file |-> s.file, primary |-> b, verified |-> s.verified]
  BY DEF GoodSource, SourceRows
<1>2. [s EXCEPT !.primary = b, !.kind = k] = [p EXCEPT !.kind = k]
  OBVIOUS
<1> HIDE DEF p
<1>3. [p EXCEPT !.kind = k] =
        [id |-> s.id, kind |-> k, url |-> s.url, file |-> s.file, primary |-> b, verified |-> s.verified]
  BY <1>1
<1> QED
  BY <1>2, <1>3

LEMMA Checked ==
  ASSUME NEW n, NEW s, GoodSource(s, n), NEW b \in BOOLEAN
  PROVE  [s EXCEPT !.verified = b] =
           [id |-> s.id, kind |-> s.kind, url |-> s.url, file |-> s.file, primary |-> s.primary, verified |-> b]
BY DEF GoodSource, SourceRows

LEMMA MarkedOfficial ==
  ASSUME NEW n \in Nat, NEW s, GoodSource(s, n)
  PROVE  LET t == [s EXCEPT !.primary = TRUE, !.kind = "official_external"]
         IN  GoodSource(t, n) /\ Same(s, t) /\ t.primary
<1> DEFINE t == [id |-> s.id, kind |-> "official_external", url |-> s.url, file |-> s.file, primary |-> TRUE,
                 verified |-> s.verified]
<1>1. s.verified \in BOOLEAN
  BY DEF GoodSource, SourceRows
<1>2. t \in SourceRows(n)
  BY <1>1, MarkedRow DEF GoodSource
<1>3. PICK b \in BOOLEAN, k \in {l.kind : l \in Links} \cup {"uploaded_copy", "official_external"} :
        b = TRUE /\ k = "official_external"
  OBVIOUS
<1>4. [s EXCEPT !.primary = b, !.kind = k] =
        [id |-> s.id, kind |-> k, url |-> s.url, file |-> s.file, primary |-> b, verified |-> s.verified]
  BY Rewritten
<1>5. [s EXCEPT !.primary = TRUE, !.kind = "official_external"] = t
  BY <1>3, <1>4, Zenon
<1> QED
  BY <1>2, <1>5 DEF GoodSource, Same

LEMMA MarkedVerified ==
  ASSUME NEW n \in Nat, NEW s, GoodSource(s, n)
  PROVE  LET t == [s EXCEPT !.verified = TRUE]
         IN  GoodSource(t, n) /\ Same(s, t) /\ t.primary = s.primary
<1> DEFINE t == [id |-> s.id, kind |-> s.kind, url |-> s.url, file |-> s.file, primary |-> s.primary, verified |-> TRUE]
<1>1. s.kind \in {l.kind : l \in Links} \cup {"uploaded_copy", "official_external"} /\ s.primary \in BOOLEAN
  BY DEF GoodSource, SourceRows
<1>2. t \in SourceRows(n)
  BY <1>1, MarkedRow DEF GoodSource
<1>3. PICK b \in BOOLEAN : b = TRUE
  OBVIOUS
<1>4. [s EXCEPT !.verified = b] =
        [id |-> s.id, kind |-> s.kind, url |-> s.url, file |-> s.file, primary |-> s.primary, verified |-> b]
  BY Checked
<1>5. [s EXCEPT !.verified = TRUE] = t
  BY <1>3, <1>4, Zenon
<1> QED
  BY <1>2, <1>5 DEF GoodSource, Same

LEMMA IdsGrow ==
  ASSUME NEW n \in Nat, NEW s, GoodSource(s, n)
  PROVE  GoodSource(s, n + 1) /\ s.id # n + 1 /\ s.id \in 1..n /\ s.url \in Urls /\ s.file \in Files \cup {None}
                              /\ s.primary \in BOOLEAN
<1>1. s.id \in 1..n /\ s.url \in Urls /\ s.file \in Files \cup {None} /\ s.primary \in BOOLEAN
  BY DEF GoodSource, SourceRows
<1>2. s.id \in 1..(n + 1) /\ s.id # n + 1
  BY <1>1
<1>3. s \in SourceRows(n + 1)
  BY <1>2 DEF GoodSource, SourceRows
<1> QED
  BY <1>1, <1>2, <1>3 DEF GoodSource

LEMMA NewSource ==
  ASSUME made \in Nat, NEW k \in {l.kind : l \in Links} \cup {"uploaded_copy", "official_external"},
         NEW u \in Urls, NEW f \in Files \cup {None}, NEW b \in BOOLEAN, f = None \/ u = None
  PROVE  LET t == Source(k, u, f, b)
         IN  GoodSource(t, made + 1) /\ t.id = made + 1 /\ t.url = u /\ t.file = f /\ t.primary = b
<1> DEFINE t == [id |-> made + 1, kind |-> k, url |-> u, file |-> f, primary |-> b, verified |-> FALSE]
<1>1. made + 1 \in 1..(made + 1) /\ FALSE \in BOOLEAN
  OBVIOUS
<1>2. t \in SourceRows(made + 1)
  BY <1>1 DEF SourceRows
<1>3. Source(k, u, f, b) = t
  BY DEF Source
<1> QED
  BY <1>2, <1>3 DEF GoodSource

LEMMA UnsetFrom ==
  ASSUME NEW n \in Nat, NEW ss, GoodSources(ss, n)
  PROVE  /\ From(unsetPrimary(ss), ss, n)
         /\ \A t \in unsetPrimary(ss) : ~t.primary
         /\ \A s \in ss : \E t \in unsetPrimary(ss) : Same(s, t)
<1>1. \A s \in ss : LET t == [s EXCEPT !.primary = FALSE] IN GoodSource(t, n) /\ Same(s, t) /\ ~t.primary
  BY Marks DEF GoodSources
<1>2. \A t \in unsetPrimary(ss) : \E s \in ss : t = [s EXCEPT !.primary = FALSE]
  BY DEF unsetPrimary
<1>3. \A t \in unsetPrimary(ss) : GoodSource(t, n) /\ (\E s \in ss : Same(s, t) /\ t = [s EXCEPT !.primary = FALSE]) /\ ~t.primary
  <2> TAKE t \in unsetPrimary(ss)
  <2>1. PICK s \in ss : t = [s EXCEPT !.primary = FALSE]
    BY <1>2
  <2> QED
    BY <1>1, <2>1
<1>4. ASSUME NEW t \in unsetPrimary(ss), NEW u \in unsetPrimary(ss), t.id = u.id
      PROVE  t = u
  <2>1. PICK s \in ss : Same(s, t) /\ t = [s EXCEPT !.primary = FALSE]
    BY <1>3
  <2>2. PICK q \in ss : Same(q, u) /\ u = [q EXCEPT !.primary = FALSE]
    BY <1>3
  <2>3. s = q
    BY <1>4, <2>1, <2>2 DEF Same, GoodSources
  <2> QED
    BY <2>1, <2>2, <2>3
<1>5. \A s \in ss : \E t \in unsetPrimary(ss) : Same(s, t)
  BY <1>1 DEF unsetPrimary
<1> QED
  BY <1>3, <1>4, <1>5 DEF From

(* One source of ss, or a new one, is replaced by t and the others keep     *)
(* what identifies them.                                                    *)
LEMMA Replaced ==
  ASSUME NEW n \in Nat, NEW ss, GoodSources(ss, n), NEW s, NEW t, GoodSource(t, n), Same(s, t),
         s \in ss \/ \A q \in ss : q.id # s.id,
         NEW rest, From(rest, ss \ {s}, n)
  PROVE  /\ GoodSources(rest \cup {t}, n)
         /\ FileOnce(ss) /\ (s \in ss \/ \A q \in ss : s.file = None \/ q.file # s.file) => FileOnce(rest \cup {t})
<1>1. \A r \in rest : r.id # t.id
  BY DEF From, Same, GoodSources
<1>2. GoodSources(rest \cup {t}, n)
  BY <1>1 DEF From, GoodSources
<1>3. ASSUME FileOnce(ss), s \in ss \/ \A q \in ss : s.file = None \/ q.file # s.file
      PROVE  FileOnce(rest \cup {t})
  <2>1. \A r \in rest : r.file # None => r.file # t.file
    BY <1>3 DEF From, Same, FileOnce
  <2>2. \A q, r \in rest : q.file = r.file /\ q.file # None => q = r
    BY <1>3 DEF From, Same, FileOnce
  <2> QED
    BY <2>1, <2>2 DEF FileOnce
<1> QED
  BY <1>2, <1>3

LEMMA OnlyOnePrimary ==
  ASSUME NEW rest, NEW t, \A r \in rest : ~r.primary
  PROVE  OnePrimary(rest \cup {t})
BY DEF OnePrimary

-----------------------------------------------------------------------------
(* What the requests make of them                                          *)
LEMMA NewestIsThere ==
  ASSUME NEW n \in Nat, NEW ss, GoodSources(ss, n), ss # {}
  PROVE  Newest(ss) \in ss
<1> DEFINE R == OpToRel(<, Nat)
           ages == {k \in Nat : \E s \in ss : k = n - s.id}
<1>1. IsWellFoundedOn(R, Nat)
  BY NatLessThanWellFounded
<1>2. \A x, y \in Nat : <<y, x>> \in R <=> y < x
  BY DEF OpToRel
<1>3. \A s \in ss : s.id \in 1..n /\ n - s.id \in ages
  BY IdsGrow DEF GoodSources
<1>4. ages \subseteq Nat /\ ages # {}
  BY <1>3
<1> HIDE DEF R
<1>5. PICK k \in ages : \A j \in ages : ~ (<<j, k>> \in R)
  BY <1>1, <1>4, WFMin
<1>6. PICK s \in ss : k = n - s.id
  OBVIOUS
<1>7. \A t \in ss : t.id <= s.id
  <2> TAKE t \in ss
  <2>1. n - t.id \in Nat /\ k \in Nat /\ ~ (n - t.id < k)
    BY <1>2, <1>3, <1>5
  <2>2. s.id \in 1..n /\ t.id \in 1..n
    BY <1>3
  <2> HIDE DEF ages
  <2> QED
    BY <1>6, <2>1, <2>2
<1> QED
  BY <1>7 DEF Newest

LEMMA WithoutUrlFits ==
  ASSUME NEW n \in Nat, NEW ss, GoodSources(ss, n)
  PROVE  /\ GoodSources(withoutUrl(ss), n)
         /\ FileOnce(ss) => FileOnce(withoutUrl(ss))
         /\ OnePrimary(ss) => OnePrimary(withoutUrl(ss))
         /\ ss # {} => withoutUrl(ss) # {}
<1>1. CASE Uploads(ss) # {}
  <2> DEFINE s == Newest(Uploads(ss))
             t == [s EXCEPT !.primary = TRUE]
             rest == unsetPrimary(ss \ {s})
  <2>1. s \in ss
    <3>1. Uploads(ss) \subseteq ss
      BY DEF Uploads
    <3>2. GoodSources(Uploads(ss), n)
      BY <3>1 DEF GoodSources
    <3> QED
      BY <1>1, <3>1, <3>2, NewestIsThere
  <2>2. GoodSources(ss \ {s}, n)
    BY DEF GoodSources
  <2>3. From(rest, ss \ {s}, n) /\ \A r \in rest : ~r.primary
    BY <2>2, UnsetFrom
  <2>4. GoodSource(t, n) /\ Same(s, t)
    BY <2>1, Marks DEF GoodSources
  <2>5. withoutUrl(ss) = rest \cup {t}
    BY <1>1 DEF withoutUrl
  <2> HIDE DEF s, t, rest
  <2>6. GoodSources(rest \cup {t}, n) /\ (FileOnce(ss) => FileOnce(rest \cup {t}))
    BY <2>1, <2>3, <2>4, Replaced
  <2>7. OnePrimary(rest \cup {t})
    BY <2>3, OnlyOnePrimary
  <2> QED
    BY <2>5, <2>6, <2>7
<1>2. CASE Uploads(ss) = {}
  <2> DEFINE f(s) == IF s.kind = "official_external" THEN [s EXCEPT !.primary = FALSE] ELSE s
  <2>1. \A s \in ss : GoodSource(f(s), n) /\ Same(s, f(s)) /\ (f(s).primary => f(s) = s)
    <3> TAKE s \in ss
    <3>1. GoodSource(s, n) /\ Same(s, s)
      BY DEF GoodSources, Same
    <3>2. LET t == [s EXCEPT !.primary = FALSE] IN GoodSource(t, n) /\ Same(s, t) /\ ~t.primary
      BY <3>1, Marks
    <3> QED
      BY <3>1, <3>2
  <2>2. withoutUrl(ss) = {f(s) : s \in ss}
    BY <1>2 DEF withoutUrl
  <2> HIDE DEF f
  <2>3. \A t \in withoutUrl(ss) : \E s \in ss : t = f(s)
    BY <2>2
  <2>4. \A t \in withoutUrl(ss) : GoodSource(t, n) /\ \E s \in ss : t = f(s) /\ Same(s, t)
    BY <2>1, <2>3
  <2>5. \A t, u \in withoutUrl(ss) : t.id = u.id => t = u
    BY <2>4 DEF Same, GoodSources
  <2>6. FileOnce(ss) => FileOnce(withoutUrl(ss))
    BY <2>4 DEF Same, FileOnce
  <2>7. OnePrimary(ss) => OnePrimary(withoutUrl(ss))
    BY <2>1, <2>3 DEF OnePrimary
  <2>8. ss # {} => withoutUrl(ss) # {}
    BY <2>2
  <2> QED
    BY <2>4, <2>5, <2>6, <2>7, <2>8 DEF GoodSources
<1> QED
  BY <1>1, <1>2

LEMMA WithUrlFits ==
  ASSUME made \in Nat, NEW ss, GoodSources(ss, made), NEW u \in Urls, u # None,
         NEW m, m = IF \A s \in ss : s.url # u THEN made + 1 ELSE made
  PROVE  /\ GoodSources(withUrl(ss, u), m)
         /\ FileOnce(ss) => FileOnce(withUrl(ss, u))
         /\ OnePrimary(withUrl(ss, u)) /\ Shows(withUrl(ss, u), u) /\ withUrl(ss, u) # {}
<1> DEFINE found == {s \in ss : s.url = u}
           s0 == IF found = {} THEN Source("official_external", u, None, TRUE) ELSE CHOOSE s \in found : TRUE
           t == [s0 EXCEPT !.primary = TRUE, !.kind = "official_external"]
           rest == unsetPrimary(ss \ {s0})
<1>1. withUrl(ss, u) = rest \cup {t}
  BY DEF withUrl
<1>2. m \in Nat /\ GoodSources(ss, m)
  BY IdsGrow DEF GoodSources
<1>3. GoodSource(s0, m) /\ s0.url = u /\ (s0 \in ss \/ (s0.file = None /\ \A q \in ss : q.id # s0.id))
  <2>1. CASE found = {}
    <3> DEFINE s1 == Source("official_external", u, None, TRUE)
    <3>1. m = made + 1
      BY <2>1
    <3>2. GoodSource(s1, made + 1) /\ s1.id = made + 1 /\ s1.url = u /\ s1.file = None
      <4>1. None \in Files \cup {None} /\ "official_external" \in {l.kind : l \in Links} \cup {"uploaded_copy", "official_external"}
        OBVIOUS
      <4>2. PICK b \in BOOLEAN : b = TRUE
        OBVIOUS
      <4>3. LET v == Source("official_external", u, None, b) IN GoodSource(v, made + 1) /\ v.id = made + 1 /\ v.url = u /\ v.file = None
        BY <4>1, NewSource
      <4> QED
        BY <4>2, <4>3, Zenon
    <3>3. s0 = s1
      BY <2>1
    <3>4. \A q \in ss : q.id # made + 1
      BY IdsGrow DEF GoodSources
    <3> QED
      BY <3>1, <3>2, <3>3, <3>4
  <2>2. CASE found # {}
    <3>1. s0 \in found
      BY <2>2
    <3> QED
      BY <3>1, <1>2 DEF GoodSources
  <2> QED
    BY <2>1, <2>2
<1> HIDE DEF s0, found
<1>4. GoodSource(t, m) /\ Same(s0, t) /\ t.primary
  BY <1>2, <1>3, MarkedOfficial
<1>5. GoodSources(ss \ {s0}, m)
  BY <1>2 DEF GoodSources
<1>6. From(rest, ss \ {s0}, m) /\ \A r \in rest : ~r.primary
  BY <1>2, <1>5, UnsetFrom
<1> HIDE DEF t, rest
<1>7. GoodSources(rest \cup {t}, m) /\ (FileOnce(ss) => FileOnce(rest \cup {t}))
  BY <1>2, <1>3, <1>4, <1>6, Replaced
<1>8. OnePrimary(rest \cup {t})
  BY <1>6, OnlyOnePrimary
<1>9. Shows(rest \cup {t}, u)
  BY <1>3, <1>4 DEF Shows, Same
<1> QED
  BY <1>1, <1>7, <1>8, <1>9

(* deleteAttachment: another source becomes primary.                       *)
LEMMA MarkFits ==
  ASSUME NEW n \in Nat, NEW ss, GoodSources(ss, n), NEW s \in ss
  PROVE  LET tt == (ss \ {s}) \cup {[s EXCEPT !.primary = TRUE]}
         IN  /\ GoodSources(tt, n) /\ (FileOnce(ss) => FileOnce(tt)) /\ tt # {}
             /\ (\A q \in ss : ~q.primary) => OnePrimary(tt) /\ Shows(tt, s.url)
<1> DEFINE t == [s EXCEPT !.primary = TRUE]
           rest == ss \ {s}
<1>1. GoodSource(t, n) /\ Same(s, t) /\ t.primary
  BY Marks DEF GoodSources
<1>2. From(rest, ss \ {s}, n)
  BY DEF From, GoodSources, Same
<1> HIDE DEF t
<1>3. GoodSources(rest \cup {t}, n) /\ (FileOnce(ss) => FileOnce(rest \cup {t}))
  BY <1>1, <1>2, Replaced
<1>4. (\A q \in ss : ~q.primary) => OnePrimary(rest \cup {t}) /\ Shows(rest \cup {t}, s.url)
  BY <1>1, OnlyOnePrimary DEF Shows, Same
<1> QED
  BY <1>3, <1>4 DEF t

(* A new source beside the ones there are, which lose their mark to it.     *)
Beside(ss, p) == IF p THEN unsetPrimary(ss) ELSE ss

LEMMA AddedFits ==
  ASSUME made \in Nat, NEW ss, GoodSources(ss, made), NEW p \in BOOLEAN, NEW t,
         GoodSource(t, made + 1), t.id = made + 1, t.primary = p,
         NEW tt, tt = Beside(ss, p) \cup {t}
  PROVE  /\ GoodSources(tt, made + 1) /\ tt # {}
         /\ FileOnce(ss) /\ (\A q \in ss : q.file = t.file => t.file = None) => FileOnce(tt)
         /\ OnePrimary(ss) => OnePrimary(tt)
         /\ p => Shows(tt, t.url)
         /\ ~p => \A u : Shows(ss, u) => Shows(tt, u)
<1> DEFINE rest == Beside(ss, p)
<1>1. GoodSources(ss, made + 1) /\ made + 1 \in Nat /\ \A q \in ss : q.id # t.id
  BY IdsGrow DEF GoodSources
<1>2. t \notin ss /\ ss \ {t} = ss
  BY <1>1
<1>3. From(rest, ss \ {t}, made + 1) /\ (p => \A r \in rest : ~r.primary) /\ (~p => rest = ss)
  <2>1. CASE p = TRUE
    BY <1>1, <1>2, <2>1, UnsetFrom DEF Beside
  <2>2. CASE p = FALSE
    BY <1>1, <1>2, <2>2 DEF Beside, From, GoodSources, Same
  <2> QED
    BY <2>1, <2>2
<1> HIDE DEF rest
<1>4. Same(t, t)
  BY DEF Same
<1>5. GoodSources(rest \cup {t}, made + 1)
  BY <1>1, <1>3, <1>4, Replaced
<1>6. FileOnce(ss) /\ (\A q \in ss : q.file = t.file => t.file = None) => FileOnce(rest \cup {t})
  <2>1. (\A q \in ss : q.file = t.file => t.file = None) => \A q \in ss : t.file = None \/ q.file # t.file
    OBVIOUS
  <2> QED
    BY <1>1, <1>3, <1>4, <2>1, Replaced
<1>7. OnePrimary(ss) => OnePrimary(rest \cup {t})
  <2>1. CASE p = TRUE
    BY <1>3, <2>1, OnlyOnePrimary
  <2>2. CASE p = FALSE
    BY <1>3, <2>2 DEF OnePrimary
  <2> QED
    BY <2>1, <2>2
<1>8. p => Shows(rest \cup {t}, t.url)
  BY DEF Shows
<1>9. ~p => \A u : Shows(ss, u) => Shows(rest \cup {t}, u)
  BY <1>3 DEF Shows
<1> QED
  BY <1>5, <1>6, <1>7, <1>8, <1>9 DEF rest

(* An uploaded file that is a source already gives its source a new mark.   *)
Remarked(ss, dup, p) ==
  {s \in Beside(ss, p) : \A d \in dup : d.id # s.id} \cup {[d EXCEPT !.primary = p] : d \in dup}

LEMMA RemarkedFits ==
  ASSUME NEW n \in Nat, NEW ss, GoodSources(ss, n), NEW dup, GoodSources(dup, n), NEW p \in BOOLEAN, dup # {}
  PROVE  /\ GoodSources(Remarked(ss, dup, p), n) /\ Remarked(ss, dup, p) # {}
         /\ \A f \in Files : \A u :
              dup = {s \in ss : s.file = f} /\ FileOnce(ss) /\ OnePrimary(ss) /\ Shows(ss, u) /\ (p <=> u = None) /\ f # None
                => FileOnce(Remarked(ss, dup, p)) /\ OnePrimary(Remarked(ss, dup, p)) /\ Shows(Remarked(ss, dup, p), u)
<1> DEFINE kept == {s \in Beside(ss, p) : \A d \in dup : d.id # s.id}
           marked == {[d EXCEPT !.primary = p] : d \in dup}
           tt == kept \cup marked
<1>1. From(Beside(ss, p), ss, n) /\ (p => \A r \in Beside(ss, p) : ~r.primary) /\ (~p => Beside(ss, p) = ss)
  <2>1. CASE p = TRUE
    BY <2>1, UnsetFrom DEF Beside
  <2>2. CASE p = FALSE
    BY <2>2 DEF Beside, From, GoodSources, Same
  <2> QED
    BY <2>1, <2>2
<1>2. From(kept, ss, n) /\ \A s \in kept : \A d \in dup : d.id # s.id
  BY <1>1 DEF From
<1>3. \A d \in dup : LET t == [d EXCEPT !.primary = p] IN GoodSource(t, n) /\ Same(d, t) /\ t.primary = p
  BY Marked DEF GoodSources
<1>4. \A t \in marked : \E d \in dup : t = [d EXCEPT !.primary = p]
  OBVIOUS
<1>5. \A t \in marked : GoodSource(t, n) /\ t.primary = p /\ \E d \in dup : Same(d, t) /\ t = [d EXCEPT !.primary = p]
  <2> TAKE t \in marked
  <2>1. PICK d \in dup : t = [d EXCEPT !.primary = p]
    BY <1>4
  <2> HIDE DEF marked
  <2> QED
    BY <1>3, <2>1
<1>6. marked # {}
  OBVIOUS
<1> HIDE DEF marked
<1>7. \A t, u \in marked : t.id = u.id => t = u
  BY <1>5 DEF GoodSources, Same
<1>8. \A t \in marked, s \in kept : t.id # s.id
  BY <1>2, <1>5 DEF Same
<1>9. GoodSources(tt, n) /\ tt # {}
  BY <1>2, <1>5, <1>6, <1>7, <1>8 DEF GoodSources, From
<1>10. ASSUME NEW f \in Files, NEW u, dup = {s \in ss : s.file = f}, FileOnce(ss), OnePrimary(ss), Shows(ss, u),
              p <=> u = None, f # None
       PROVE  FileOnce(tt) /\ OnePrimary(tt) /\ Shows(tt, u)
  <2>1. \A d, e \in dup : d = e
    BY <1>10 DEF FileOnce
  <2>2. \A t \in marked : t.file = f
    BY <1>5, <1>10 DEF Same
  <2>3. \A s \in kept : s.file # f
    BY <1>2, <1>10 DEF From, Same
  <2>4. \A s, t \in kept : s.file = t.file /\ s.file # None => s = t
    BY <1>2, <1>10 DEF From, Same, FileOnce
  <2>5. \A s, t \in marked : s = t
    BY <1>5, <2>1
  <2>6. FileOnce(tt)
    BY <2>2, <2>3, <2>4, <2>5 DEF FileOnce
  <2>7. CASE p = TRUE
    <3>1. \A s \in kept : ~s.primary
      BY <1>1, <2>7
    <3>2. u = None
      BY <1>10, <2>7
    <3>3. OnePrimary(tt)
      BY <2>5, <3>1 DEF OnePrimary
    <3> QED
      BY <2>6, <3>2, <3>3 DEF Shows
  <2>8. CASE p = FALSE
    <3>1. kept \subseteq ss /\ \A t \in marked : ~t.primary
      BY <1>1, <1>5, <2>8
    <3>2. OnePrimary(tt)
      BY <1>10, <3>1 DEF OnePrimary
    <3>3. PICK s \in ss : s.primary /\ s.url = u /\ u # None
      BY <1>10, <2>8 DEF Shows
    <3>4. s.file = None
      BY <3>3 DEF GoodSources, GoodSource
    <3>5. s \in kept
      <4>1. \A d \in dup : d # s /\ d \in ss
        BY <1>10, <3>4
      <4> QED
        BY <1>1, <2>8, <4>1 DEF GoodSources
    <3> QED
      BY <2>6, <3>2, <3>3, <3>5 DEF Shows
  <2> QED
    BY <2>7, <2>8
<1> QED
  BY <1>9, <1>10 DEF Remarked, marked

(* verifySource saves the source it read.                                   *)
LEMMA VerifiedFits ==
  ASSUME NEW n \in Nat, NEW ss, GoodSources(ss, n), NEW s, GoodSource(s, n),
         NEW tt, tt = {t \in ss : t.id # s.id} \cup {[s EXCEPT !.verified = TRUE]}
  PROVE  /\ GoodSources(tt, n) /\ tt # {}
         /\ s \in ss => /\ FileOnce(ss) => FileOnce(tt)
                        /\ OnePrimary(ss) => OnePrimary(tt)
                        /\ \A u : Shows(ss, u) => Shows(tt, u)
<1> DEFINE v == [s EXCEPT !.verified = TRUE]
           rest == {t \in ss : t.id # s.id}
<1>1. GoodSource(v, n) /\ Same(s, v) /\ v.primary = s.primary
  BY MarkedVerified
<1> HIDE DEF v
<1>2. GoodSources(rest \cup {v}, n) /\ rest \cup {v} # {}
  BY <1>1 DEF GoodSources, Same
<1>3. ASSUME s \in ss
      PROVE  /\ FileOnce(ss) => FileOnce(rest \cup {v})
             /\ OnePrimary(ss) => OnePrimary(rest \cup {v})
             /\ \A u : Shows(ss, u) => Shows(rest \cup {v}, u)
  <2>1. rest = ss \ {s}
    BY <1>3 DEF GoodSources
  <2>2. FileOnce(ss) => FileOnce(rest \cup {v})
    BY <1>1, <1>3, <2>1 DEF FileOnce, Same
  <2>3. OnePrimary(ss) => OnePrimary(rest \cup {v})
    BY <1>1, <1>3, <2>1 DEF OnePrimary
  <2>4. \A u : Shows(ss, u) => Shows(rest \cup {v}, u)
    BY <1>1, <1>3, <2>1 DEF Shows, Same
  <2> QED
    BY <2>2, <2>3, <2>4
<1> QED
  BY <1>2, <1>3 DEF v

-----------------------------------------------------------------------------
(* Rows                                                                    *)
Decisions == {"pending", "included", "excluded"}

(* A row may only say that it is included while it is in force.             *)
RowOK(i, w) ==
  /\ w \in Row /\ (w.active <=> w.life = "active")
  /\ w.dec = "included" => w.life = "active" /\ w.appl = "applicable"
  /\ w.amend # i

LEMMA RowMade ==
  ASSUME NEW l \in Lives, NEW a \in Applicability, NEW d \in Decisions, NEW b \in BOOLEAN,
         NEW u \in Urls, NEW m \in Issuances \cup {None}, NEW n \in Files \cup {None}
  PROVE  [life |-> l, appl |-> a, dec |-> d, active |-> b, url |-> u, amend |-> m, name |-> n] \in Row
BY DEF Row, Decisions

LEMMA RowFields ==
  ASSUME NEW w \in Row
  PROVE  /\ w = [life |-> w.life, appl |-> w.appl, dec |-> w.dec, active |-> w.active, url |-> w.url,
                 amend |-> w.amend, name |-> w.name]
         /\ w.life \in Lives /\ w.appl \in Applicability /\ w.dec \in Decisions /\ w.active \in BOOLEAN
         /\ w.url \in Urls /\ w.amend \in Issuances \cup {None} /\ w.name \in Files \cup {None}
BY DEF Row, Decisions

LEMMA Rewrites ==
  ASSUME NEW l, NEW a, NEW d, NEW b, NEW u, NEW m, NEW n, NEW x,
         NEW w, w = [life |-> l, appl |-> a, dec |-> d, active |-> b, url |-> u, amend |-> m, name |-> n]
  PROVE  /\ [w EXCEPT !.life = x] = [life |-> x, appl |-> a, dec |-> d, active |-> b, url |-> u, amend |-> m, name |-> n]
         /\ [w EXCEPT !.appl = x] = [life |-> l, appl |-> x, dec |-> d, active |-> b, url |-> u, amend |-> m, name |-> n]
         /\ [w EXCEPT !.dec = x] = [life |-> l, appl |-> a, dec |-> x, active |-> b, url |-> u, amend |-> m, name |-> n]
         /\ [w EXCEPT !.active = x] = [life |-> l, appl |-> a, dec |-> d, active |-> x, url |-> u, amend |-> m, name |-> n]
         /\ [w EXCEPT !.url = x] = [life |-> l, appl |-> a, dec |-> d, active |-> b, url |-> x, amend |-> m, name |-> n]
         /\ [w EXCEPT !.amend = x] = [life |-> l, appl |-> a, dec |-> d, active |-> b, url |-> u, amend |-> x, name |-> n]
         /\ [w EXCEPT !.name = x] = [life |-> l, appl |-> a, dec |-> d, active |-> b, url |-> u, amend |-> m, name |-> x]
<1>1. [w EXCEPT !.life = x] = [life |-> x, appl |-> a, dec |-> d, active |-> b, url |-> u, amend |-> m, name |-> n]
  OBVIOUS
<1>2. [w EXCEPT !.appl = x] = [life |-> l, appl |-> x, dec |-> d, active |-> b, url |-> u, amend |-> m, name |-> n]
  OBVIOUS
<1>3. [w EXCEPT !.dec = x] = [life |-> l, appl |-> a, dec |-> x, active |-> b, url |-> u, amend |-> m, name |-> n]
  OBVIOUS
<1>4. [w EXCEPT !.active = x] = [life |-> l, appl |-> a, dec |-> d, active |-> x, url |-> u, amend |-> m, name |-> n]
  OBVIOUS
<1>5. [w EXCEPT !.url = x] = [life |-> l, appl |-> a, dec |-> d, active |-> b, url |-> x, amend |-> m, name |-> n]
  OBVIOUS
<1>6. [w EXCEPT !.amend = x] = [life |-> l, appl |-> a, dec |-> d, active |-> b, url |-> u, amend |-> x, name |-> n]
  OBVIOUS
<1>7. [w EXCEPT !.name = x] = [life |-> l, appl |-> a, dec |-> d, active |-> b, url |-> u, amend |-> m, name |-> x]
  OBVIOUS
<1> QED
  BY <1>1, <1>2, <1>3, <1>4, <1>5, <1>6, <1>7

(* One column written by an update of the repository.                       *)
LEMMA NamedRow ==
  ASSUME NEW i, NEW w, RowOK(i, w), NEW n \in Files \cup {None}
  PROVE  LET z == [w EXCEPT !.name = n]
         IN  RowOK(i, z) /\ z.dec = w.dec /\ z.url = w.url /\ z.amend = w.amend /\ z.life = w.life /\ z.name = n
<1> DEFINE z == [life |-> w.life, appl |-> w.appl, dec |-> w.dec, active |-> w.active, url |-> w.url,
                 amend |-> w.amend, name |-> n]
<1>1. z \in Row
  BY RowFields, RowMade DEF RowOK
<1>2. [w EXCEPT !.name = n] = z
  BY RowFields, Rewrites DEF RowOK
<1> QED
  BY <1>1, <1>2 DEF RowOK

LEMMA LinkedRow ==
  ASSUME NEW i, NEW w, RowOK(i, w), NEW u \in Urls
  PROVE  LET z == [w EXCEPT !.url = u]
         IN  RowOK(i, z) /\ z.dec = w.dec /\ z.url = u /\ z.amend = w.amend /\ z.life = w.life
<1> DEFINE z == [life |-> w.life, appl |-> w.appl, dec |-> w.dec, active |-> w.active, url |-> u,
                 amend |-> w.amend, name |-> w.name]
<1>1. z \in Row
  BY RowFields, RowMade DEF RowOK
<1>2. [w EXCEPT !.url = u] = z
  BY RowFields, Rewrites DEF RowOK
<1> QED
  BY <1>1, <1>2 DEF RowOK

LEMMA AmendedRow ==
  ASSUME NEW i, NEW w, RowOK(i, w), NEW m \in Issuances \cup {None}, m # i
  PROVE  LET z == [w EXCEPT !.amend = m]
         IN  RowOK(i, z) /\ z.dec = w.dec /\ z.url = w.url /\ z.amend = m /\ z.life = w.life
<1> DEFINE z == [life |-> w.life, appl |-> w.appl, dec |-> w.dec, active |-> w.active, url |-> w.url,
                 amend |-> m, name |-> w.name]
<1>1. z \in Row
  BY RowFields, RowMade DEF RowOK
<1>2. [w EXCEPT !.amend = m] = z
  BY RowFields, Rewrites DEF RowOK
<1> QED
  BY <1>1, <1>2 DEF RowOK

LEMMA DecidedRow ==
  ASSUME NEW i, NEW w, RowOK(i, w), NEW a \in Applicability, NEW d \in Decisions,
         d = "included" => w.life = "active" /\ a = "applicable",
         NEW z, z = [w EXCEPT !.appl = a, !.dec = d]
  PROVE  RowOK(i, z) /\ z.dec = d /\ z.url = w.url /\ z.amend = w.amend /\ z.life = w.life
<1> DEFINE y == [life |-> w.life, appl |-> a, dec |-> w.dec, active |-> w.active, url |-> w.url,
                 amend |-> w.amend, name |-> w.name]
           x == [life |-> w.life, appl |-> a, dec |-> d, active |-> w.active, url |-> w.url,
                 amend |-> w.amend, name |-> w.name]
<1>1. x \in Row
  BY RowFields, RowMade DEF RowOK
<1>2. [w EXCEPT !.appl = a] = y
  BY RowFields, Rewrites DEF RowOK
<1>3. [y EXCEPT !.dec = d] = x
  BY Rewrites
<1>4. [w EXCEPT !.appl = a, !.dec = d] = [[w EXCEPT !.appl = a] EXCEPT !.dec = d]
  OBVIOUS
<1> HIDE DEF y
<1>5. z = x
  BY <1>2, <1>3, <1>4
<1> QED
  BY <1>1, <1>5 DEF RowOK

LEMMA RetiredRow ==
  ASSUME NEW i, NEW w, RowOK(i, w)
  PROVE  LET z == [w EXCEPT !.life = "retired", !.dec = "excluded", !.active = FALSE]
         IN  RowOK(i, z) /\ z.dec = "excluded" /\ z.url = w.url /\ z.amend = w.amend /\ z.life = "retired"
<1>1. PICK l \in Lives, d \in Decisions, b \in BOOLEAN : l = "retired" /\ d = "excluded" /\ b = FALSE
  BY DEF Lives, Decisions
<1> DEFINE x == [life |-> l, appl |-> w.appl, dec |-> w.dec, active |-> w.active, url |-> w.url,
                 amend |-> w.amend, name |-> w.name]
           y == [life |-> l, appl |-> w.appl, dec |-> d, active |-> w.active, url |-> w.url,
                 amend |-> w.amend, name |-> w.name]
           z == [life |-> l, appl |-> w.appl, dec |-> d, active |-> b, url |-> w.url,
                 amend |-> w.amend, name |-> w.name]
<1>2. z \in Row
  BY RowFields, RowMade DEF RowOK
<1>3. [w EXCEPT !.life = l] = x
  BY RowFields, Rewrites DEF RowOK
<1>4. [x EXCEPT !.dec = d] = y
  BY Rewrites
<1>5. [y EXCEPT !.active = b] = z
  BY Rewrites
<1>6. [w EXCEPT !.life = l, !.dec = d, !.active = b] = [[[w EXCEPT !.life = l] EXCEPT !.dec = d] EXCEPT !.active = b]
  OBVIOUS
<1>7. z.life = l /\ z.dec = d /\ z.active = b /\ z.url = w.url /\ z.amend = w.amend
  OBVIOUS
<1> HIDE DEF x, y, z
<1>8. [w EXCEPT !.life = l, !.dec = d, !.active = b] = z
  BY <1>3, <1>4, <1>5, <1>6
<1>9. [w EXCEPT !.life = "retired", !.dec = "excluded", !.active = FALSE] = z
  BY <1>1, <1>8, Zenon
<1>10. z.life = "retired" /\ z.dec = "excluded" /\ ~z.active
  BY <1>1, <1>7
<1>11. RowOK(i, z)
  BY <1>2, <1>7, <1>10 DEF RowOK
<1> QED
  BY <1>7, <1>9, <1>10, <1>11

(* createIssuance stores a row nobody decided on.                           *)
LEMMA CreatedRow ==
  ASSUME NEW i, NEW e \in Forms, e.amend # i
  PROVE  LET z == [life |-> e.life, appl |-> e.appl, dec |-> "pending", active |-> e.life = "active",
                   url |-> e.url, amend |-> e.amend, name |-> None]
         IN  RowOK(i, z) /\ z.dec = "pending" /\ z.url = e.url /\ z.amend = e.amend /\ z.life = e.life
<1>1. PICK b \in BOOLEAN : b = (e.life = "active")
  BY Zenon
<1>2. PICK d \in Decisions : d = "pending"
  BY DEF Decisions
<1>3. None \in Files \cup {None}
  OBVIOUS
<1>4. /\ e.life \in Lives /\ e.appl \in Applicability /\ e.doms \in SUBSET Domains
      /\ e.url \in Urls /\ e.amend \in Issuances \cup {None}
  BY IssuancesAssumption
<1> DEFINE z == [life |-> e.life, appl |-> e.appl, dec |-> d, active |-> b, url |-> e.url, amend |-> e.amend, name |-> None]
<1>5. z \in Row
  BY <1>3, <1>4, RowMade
<1>6. z.life = e.life /\ z.dec = d /\ z.active = b /\ z.url = e.url /\ z.amend = e.amend
  OBVIOUS
<1>7. z = [life |-> e.life, appl |-> e.appl, dec |-> "pending", active |-> e.life = "active",
           url |-> e.url, amend |-> e.amend, name |-> None]
  BY <1>1, <1>2, Zenon
<1> HIDE DEF z
<1>8. z.active <=> z.life = "active"
  BY <1>1, <1>6, Zenon
<1>9. RowOK(i, z)
  BY <1>2, <1>5, <1>6, <1>8 DEF RowOK
<1> QED
  BY <1>2, <1>6, <1>7, <1>9

LEMMA FollowingRow ==
  ASSUME NEW w \in Row, NEW b, NEW d
  PROVE  [w EXCEPT !.active = b, !.dec = d] =
           [life |-> w.life, appl |-> w.appl, dec |-> d, active |-> b, url |-> w.url, amend |-> w.amend, name |-> w.name]
<1> DEFINE y == [life |-> w.life, appl |-> w.appl, dec |-> w.dec, active |-> b, url |-> w.url,
                 amend |-> w.amend, name |-> w.name]
           z == [life |-> w.life, appl |-> w.appl, dec |-> d, active |-> b, url |-> w.url,
                 amend |-> w.amend, name |-> w.name]
<1>1. [w EXCEPT !.active = b] = y
  BY RowFields, Rewrites
<1>2. [y EXCEPT !.dec = d] = z
  OBVIOUS
<1>3. [w EXCEPT !.active = b, !.dec = d] = [[w EXCEPT !.active = b] EXCEPT !.dec = d]
  OBVIOUS
<1> HIDE DEF y
<1> QED
  BY <1>1, <1>2, <1>3

(* updateIssuance: the form carries no decision, and the decision follows   *)
(* the life cycle.                                                          *)
LEMMA UpdatedRow ==
  ASSUME NEW i, NEW w, RowOK(i, w), NEW e \in Edits, NEW z, z = followLifecycle(Patch(w, payload(e)), w.life),
         z.amend # i, z.dec = "included" => z.life = "active" /\ z.appl = "applicable"
  PROVE  RowOK(i, z) /\ (z.dec = "included" => w.dec = "included")
<1> DEFINE p == Patch(w, payload(e))
           d == IF p.life # "active" /\ p.dec = "included" THEN "excluded"
                ELSE IF p.life = "active" /\ w.life # "active" /\ p.dec = "excluded" THEN "pending" ELSE p.dec
<1>1. p \in Row /\ p.dec = w.dec
  <2>1. \A c \in DOMAIN e \ {"dec"} : payload(e)[c] = e[c]
    BY DEF payload
  <2>2. DOMAIN payload(e) = DOMAIN e \ {"dec"}
    BY DEF payload
  <2>3. DOMAIN w = {"life", "appl", "dec", "active", "url", "amend", "name"}
    BY RowFields DEF RowOK
  <2>4. p = [c \in {"life", "appl", "dec", "active", "url", "amend", "name"} |->
               IF c \in DOMAIN e \ {"dec"} THEN e[c] ELSE w[c]]
    BY <2>1, <2>2, <2>3 DEF Patch
  <2>5. p.life \in Lives /\ p.appl \in Applicability
    BY <2>4, RowFields, IssuancesAssumption DEF RowOK
  <2>6. p.dec = w.dec /\ p.dec \in Decisions
    BY <2>4, RowFields DEF RowOK
  <2>7. p.active \in BOOLEAN /\ p.name \in Files \cup {None}
    BY <2>4, RowFields, IssuancesAssumption DEF RowOK
  <2>8. p.url \in Urls /\ p.amend \in Issuances \cup {None}
    BY <2>4, RowFields, IssuancesAssumption DEF RowOK
  <2>9. p = [life |-> p.life, appl |-> p.appl, dec |-> p.dec, active |-> p.active, url |-> p.url,
             amend |-> p.amend, name |-> p.name]
    BY <2>4
  <2> HIDE DEF p
  <2> QED
    BY <2>5, <2>6, <2>7, <2>8, <2>9, RowMade
<1> HIDE DEF p
<1>2. PICK b : b = (p.life = "active")
  OBVIOUS
<1>13. b \in BOOLEAN
  BY <1>2, Zenon
<1>3. d \in Decisions /\ (d = "included" => p.dec = "included")
  BY <1>1, RowFields DEF Decisions
<1> DEFINE x == [life |-> p.life, appl |-> p.appl, dec |-> d, active |-> b, url |-> p.url,
                 amend |-> p.amend, name |-> p.name]
<1> HIDE DEF d
<1>4. x \in Row
  BY <1>1, <1>3, <1>13, RowFields, RowMade
<1>8. x.life = p.life /\ x.dec = d /\ x.active = b
  OBVIOUS
<1>9. [p EXCEPT !.active = b, !.dec = d] = x
  <2>1. PICK q \in Row, c \in {d} : q = p /\ c = d
    BY <1>1
  <2>2. [q EXCEPT !.active = b, !.dec = c] =
          [life |-> q.life, appl |-> q.appl, dec |-> c, active |-> b, url |-> q.url, amend |-> q.amend, name |-> q.name]
    BY FollowingRow
  <2> QED
    BY <2>1, <2>2, Zenon
<1> HIDE DEF x
<1>10. z = [p EXCEPT !.active = (p.life = "active"), !.dec = d]
  BY DEF followLifecycle, p, d
<1>11. z = x
  BY <1>2, <1>9, <1>10, Zenon
<1>12. x.active <=> x.life = "active"
  BY <1>2, <1>8, Zenon
<1> QED
  BY <1>1, <1>3, <1>4, <1>8, <1>11, <1>12 DEF RowOK

-----------------------------------------------------------------------------
(* Sound: whatever requests overlap or die                                 *)
Saving == {"create", "update", "decide", "retire", "upload", "detach"}

(* What a request holds could be stored as it is.                           *)
JobOK(j) ==
  /\ j = Job(j.op, j.at, j.i, j.row, j.doms, j.arg) /\ j.op # "idle"
  /\ j.op \in Saving => j.i \in Issuances /\ RowOK(j.i, j.row)
  /\ j.op \in {"create", "update", "decide"} => j.doms \in SUBSET Domains
  /\ j.op \in {"erase", "add", "verify"} => j.i \in Issuances
  /\ j.op = "upload" => /\ j.arg.file \in Files /\ GoodSources(j.arg.dup, made)
  /\ j.op = "detach" => \A d \in j.arg : d.file # None
  /\ j.op = "add" => j.arg.l \in Links /\ j.arg.primary \in BOOLEAN
  /\ j.op = "verify" => GoodSource(j.arg, made)
  /\ j.op \in {"relate", "unrelate"} => j.arg \in Relations /\ j.arg.from # j.arg.to /\ j.i = j.arg.from
  /\ j.op = "domain" => j.i \in Domains /\ j.arg \in {"active", "inactive"}

RowsOK ==
  /\ row \in [Issuances -> Row \cup {None}]
  /\ \A i \in Issuances : row[i] # None => RowOK(i, row[i])
ListsOK ==
  /\ blob \in [Issuances -> Files \cup {None}] /\ doms \in [Issuances -> SUBSET Domains]
  /\ domain \in [Domains -> {"absent", "active", "inactive"}]
  /\ rel \in SUBSET Relations /\ \A x \in rel : x.from # x.to
  /\ hist = [i \in Issuances |-> hist[i]]
SourcesOK ==
  /\ made \in Nat /\ src = [i \in Issuances |-> src[i]]
  /\ \A i \in Issuances : GoodSources(src[i], made)
JobsOK ==
  /\ job = [r \in Requests |-> job[r]]
  /\ \A r \in Requests : job[r] # Idle => JobOK(job[r])

Sound == RowsOK /\ ListsOK /\ SourcesOK /\ JobsOK

MadeGrows == made' = made \/ made' = made + 1

LEMMA MovedJob ==
  ASSUME NEW j, JobOK(j), NEW s
  PROVE  LET k == [j EXCEPT !.at = s]
         IN  /\ JobOK(k) /\ k.at = s /\ k.op = j.op /\ k.i = j.i /\ k.row = j.row /\ k.doms = j.doms /\ k.arg = j.arg
             /\ k = Job(j.op, s, j.i, j.row, j.doms, j.arg)
<1> DEFINE k == Job(j.op, s, j.i, j.row, j.doms, j.arg)
<1>1. [j EXCEPT !.at = s] = k
  BY DEF JobOK, Job
<1>2. k.at = s /\ k.op = j.op /\ k.i = j.i /\ k.row = j.row /\ k.doms = j.doms /\ k.arg = j.arg
  BY DEF Job
<1> HIDE DEF k
<1>3. k = Job(k.op, k.at, k.i, k.row, k.doms, k.arg)
  BY <1>2 DEF k
<1>4. JobOK(k)
  BY <1>2, <1>3 DEF JobOK
<1> QED
  BY <1>1, <1>2, <1>4 DEF k

LEMMA KeptJob ==
  ASSUME NEW j, JobOK(j), made \in Nat, MadeGrows
  PROVE  JobOK(j)'
<1>1. \A s : GoodSource(s, made) => GoodSource(s, made')
  BY IdsGrow DEF MadeGrows
<1>2. j.op = "upload" => GoodSources(j.arg.dup, made')
  BY <1>1 DEF JobOK, GoodSources
<1>3. j.op = "verify" => GoodSource(j.arg, made')
  BY <1>1 DEF JobOK
<1> QED
  BY <1>2, <1>3 DEF JobOK

(* A request that is entered, left or goes on, and the others with it.      *)
LEMMA JobsKept ==
  ASSUME JobsOK, made \in Nat, MadeGrows, NEW r \in Requests, NEW j, JobOK(j) \/ j = Idle, job' = [job EXCEPT ![r] = j]
  PROVE  JobsOK'
<1>1. job' = [q \in Requests |-> job'[q]] /\ \A q \in Requests : job'[q] = IF q = r THEN j ELSE job[q]
  BY DEF JobsOK
<1>2. ASSUME NEW q \in Requests, job'[q] # Idle
      PROVE  JobOK(job[q])'
  <2>1. PICK k : k = job'[q]
    OBVIOUS
  <2>2. JobOK(k)
    BY <1>1, <1>2, <2>1 DEF JobsOK
  <2>3. JobOK(k)'
    BY <2>2, KeptJob
  <2> QED
    BY <2>1, <2>3
<1> QED
  BY <1>1, <1>2 DEF JobsOK

LEMMA JobGoesOn ==
  ASSUME JobsOK, made \in Nat, MadeGrows, NEW r \in Requests, job[r] # Idle, Leave(r) \/ \E s : Goto(r, s)
  PROVE  JobsOK'
<1>1. CASE Leave(r)
  BY <1>1, JobsKept DEF Leave
<1>2. CASE \E s : Goto(r, s)
  <2>1. PICK s : Goto(r, s)
    BY <1>2
  <2>2. PICK j : j = job[r]
    OBVIOUS
  <2>3. JobOK([j EXCEPT !.at = s])
    BY <2>2, MovedJob DEF JobsOK
  <2>4. job' = [job EXCEPT ![r] = [j EXCEPT !.at = s]]
    BY <2>1, <2>2 DEF Goto
  <2> QED
    BY <2>3, <2>4, JobsKept
<1> QED
  BY <1>1, <1>2

LEMMA EnteredSound ==
  ASSUME Sound, NEW r \in Requests, NEW j, JobOK(j), Enter(r, j)
  PROVE  Sound'
<1>1. UNCHANGED tables /\ job' = [job EXCEPT ![r] = j]
  BY DEF Enter
<1>2. JobsOK'
  BY <1>1, JobsKept DEF Sound, SourcesOK, MadeGrows, tables
<1>3. RowsOK' /\ ListsOK'
  BY <1>1 DEF Sound, RowsOK, ListsOK, tables
<1>4. SourcesOK'
  BY <1>1 DEF Sound, SourcesOK, tables
<1> QED
  BY <1>2, <1>3, <1>4 DEF Sound

LEMMA RowStored ==
  ASSUME RowsOK, NEW i \in Issuances, NEW w, RowOK(i, w) \/ w = None, row' = [row EXCEPT ![i] = w]
  PROVE  RowsOK'
<1>1. w \in Row \cup {None}
  BY DEF RowOK
<1>2. row' \in [Issuances -> Row \cup {None}] /\ \A k \in Issuances : row'[k] = IF k = i THEN w ELSE row[k]
  BY <1>1 DEF RowsOK
<1> QED
  BY <1>2 DEF RowsOK

LEMMA SourcesStored ==
  ASSUME SourcesOK, NEW i \in Issuances, NEW ss, GoodSources(ss, made'), src' = [src EXCEPT ![i] = ss], MadeGrows
  PROVE  SourcesOK'
<1>1. made' \in Nat
  BY DEF MadeGrows, SourcesOK
<1>2. \A s : GoodSource(s, made) => GoodSource(s, made')
  BY IdsGrow DEF MadeGrows, SourcesOK
<1>3. src' = [k \in Issuances |-> src'[k]] /\ \A k \in Issuances : src'[k] = IF k = i THEN ss ELSE src[k]
  BY DEF SourcesOK
<1>4. \A k \in Issuances : GoodSources(src'[k], made')
  BY <1>2, <1>3 DEF SourcesOK, GoodSources
<1> QED
  BY <1>1, <1>3, <1>4 DEF SourcesOK

-----------------------------------------------------------------------------
(* Covered: while requests do not overlap                                  *)
Included(i) == row[i] # None /\ row[i].dec = "included"

(* The row and the domains a request will store still satisfy what it       *)
(* checked; an edit includes nothing, and a detached file was not the last  *)
(* source of an included issuance.                                          *)
Prepared(j) ==
  /\ j.op \in {"create", "update", "decide"} /\ j.at = "save" /\ j.row.dec = "included" =>
       /\ \E d \in j.doms : domain[d] = "active"
       /\ src[j.i] # {} \/ j.row.url # None
  /\ j.op \in {"create", "update", "retire", "upload", "detach"} /\ j.at = "save" /\ j.row.dec = "included" => Included(j.i)
  /\ j.op \in {"upload", "detach", "retire"} /\ j.at = "save" => row[j.i] # None /\ j.row.url = row[j.i].url
  /\ j.op \in {"create", "update"} /\ j.at \in {"amends", "source"} => row[j.i] = j.row
  /\ j.op = "detach" /\ j.at \in {"save", "source"} =>
       j.arg \subseteq src[j.i] /\ (Included(j.i) => src[j.i] \ j.arg # {})
  /\ j.op = "domain" /\ j.arg # "active" => mayClose(j.i)

Covered ==
  /\ \A q, r \in Requests : job[q] # Idle /\ job[r] # Idle => q = r
  /\ \A i \in Issuances : Included(i) => /\ \E d \in doms[i] : domain[d] = "active"
                                         /\ src[i] # {} \/ row[i].url # None
  /\ \A r \in Requests : job[r] # Idle => Prepared(job[r])

-----------------------------------------------------------------------------
(* Settled: while one request runs at a time and to its end                *)
Amendment(i, t) == [from |-> i, to |-> t, type |-> "amends"]

UrlAgrees(i) == Shows(src[i], row[i].url)
AmendAgrees(i) == \A t \in Issuances : Amendment(i, t) \in rel <=> row[i].amend = t
HistAgrees(i) == hist[i] = row[i].life

(* What the request has written of issuance i waits for its next statement. *)
Busy(i, ops, steps) == \E r \in Requests : job[r] # Idle /\ job[r].i = i /\ job[r].op \in ops /\ job[r].at \in steps

(* How far a request has come, and what it will still bring into line.      *)
Phase(j) ==
  /\ j.op \in {"create", "update"} /\ j.at = "save" =>
       /\ j.row.amend # None => Exists(j.row.amend)
       /\ j.arg # None => j.arg = j.row.life
       /\ j.arg = None => j.op = "update" /\ Exists(j.i) /\ j.row.life = row[j.i].life
  /\ j.op \in {"create", "update"} /\ j.at \in {"amends", "source"} =>
       /\ j.arg # None => j.arg = j.row.life
       /\ j.arg = None => HistAgrees(j.i)
  /\ j.at = "history" => Exists(j.i) /\ j.arg = row[j.i].life
  /\ j.op \in {"decide", "upload", "detach", "retire"} /\ j.at = "save" =>
       /\ Exists(j.i) /\ j.row.url = row[j.i].url /\ j.row.amend = row[j.i].amend
       /\ j.row.life = IF j.op = "retire" THEN j.arg ELSE row[j.i].life
  /\ j.op = "erase" => /\ \A x \in rel : j.i # x.from /\ j.i # x.to
                       /\ \A k \in Issuances : Exists(k) => row[k].amend # j.i
  /\ j.op = "upload" => j.arg.dup = {s \in src[j.i] : s.file = j.arg.file}
  /\ j.op = "upload" /\ j.at = "source" => Exists(j.i) /\ row[j.i].url = j.row.url
  /\ j.op \in {"detach", "add", "verify"} => Exists(j.i)
  /\ j.op = "add" /\ j.at = "url" => Shows(src[j.i], j.arg.l.url)
  /\ j.op = "verify" => j.arg \in src[j.i]
  /\ j.op \in {"relate", "unrelate"} => Exists(j.arg.from) /\ Exists(j.arg.to)
  /\ j.op = "relate" /\ j.at = "rel" /\ j.arg.type = "amends" => \A t \in Issuances : Amendment(j.i, t) \notin rel
  /\ j.op = "unrelate" /\ j.at = "rel" => j.arg \in rel
  /\ j.op = "relate" /\ j.at = "row" => \A t \in Issuances : Amendment(j.i, t) \in rel <=> t = j.arg.to
  /\ j.op = "unrelate" /\ j.at = "row" => \A t \in Issuances : Amendment(j.i, t) \notin rel

Settled ==
  /\ \A i \in Issuances : (~Exists(i) => src[i] = {}) /\ OnePrimary(src[i]) /\ FileOnce(src[i])
  /\ \A x \in rel : Exists(x.from) /\ Exists(x.to)
  /\ \A i \in Issuances : Exists(i) =>
       /\ row[i].amend # None => Exists(row[i].amend)
       /\ UrlAgrees(i) \/ Busy(i, {"create", "update"}, {"amends", "source"}) \/ Busy(i, {"add"}, {"url"})
       /\ AmendAgrees(i) \/ Busy(i, {"create", "update"}, {"amends"}) \/ Busy(i, {"relate", "unrelate"}, {"row"})
       /\ HistAgrees(i) \/ Busy(i, {"create", "update", "retire"}, {"amends", "source", "history"})
  /\ \A r \in Requests : job[r] # Idle => Phase(job[r])

IssuanceInv ==
  /\ Sound
  /\ regime # "overlap" => Covered
  /\ regime = "serial" => Settled

-----------------------------------------------------------------------------
(* What a request holds when it is entered                                 *)
Ready(j) ==
  /\ JobOK(j)
  /\ regime # "overlap" => Prepared(j)
  /\ regime = "serial" => Phase(j)

LEMMA JobFields ==
  ASSUME NEW op, NEW step, NEW i, NEW w, NEW ds, NEW x, NEW j, j = Job(op, step, i, w, ds, x)
  PROVE  /\ j.op = op /\ j.at = step /\ j.i = i /\ j.row = w /\ j.doms = ds /\ j.arg = x
         /\ j = Job(j.op, j.at, j.i, j.row, j.doms, j.arg)
BY DEF Job

LEMMA RestAgrees ==
  ASSUME Settled, \A q \in Requests : job[q] = Idle, NEW i \in Issuances, Exists(i)
  PROVE  UrlAgrees(i) /\ AmendAgrees(i) /\ HistAgrees(i) /\ (row[i].amend # None => Exists(row[i].amend))
BY DEF Settled, Busy

LEMMA EnteredAlone ==
  ASSUME NEW r \in Requests, NEW j, Enter(r, j), regime # "overlap"
  PROVE  \A q \in Requests : job[q] = Idle
BY DEF Enter

LEMMA Counted ==
  ASSUME NEW S, Cardinality(S) > 0
  PROVE  S # {}
BY FS_EmptySet

LEMMA IncludesWithSource ==
  ASSUME NEW w, NEW ds, NEW S, mayInclude(w, ds, Cardinality(S))
  PROVE  /\ w.life = "active" /\ w.appl = "applicable"
         /\ \E d \in ds : domain[d] = "active"
         /\ S # {} \/ w.url # None
BY Counted DEF mayInclude

LEMMA KnownRow ==
  ASSUME Sound, NEW i \in Issuances, Exists(i)
  PROVE  RowOK(i, row[i]) /\ row[i] \in Row /\ doms[i] \in SUBSET Domains
BY DEF Sound, RowsOK, ListsOK, Exists, RowOK

LEMMA CreateReady ==
  ASSUME IssuanceInv, NEW r \in Requests, CreateRead(r)
  PROVE  \E j : Enter(r, j) /\ Ready(j)
<1>1. PICK i \in Issuances, e \in Forms :
        /\ ~Exists(i) /\ resolveDomains(e.doms, {}) /\ assertAmendmentTarget(i, e.amend)
        /\ Enter(r, Job("create", "save", i,
                        [life |-> e.life, appl |-> e.appl, dec |-> "pending",
                         active |-> e.life = "active", url |-> e.url, amend |-> e.amend,
                         name |-> None],
                        e.doms, e.life))
  BY DEF CreateRead
<1>2. PICK w : w = [life |-> e.life, appl |-> e.appl, dec |-> "pending", active |-> e.life = "active",
                    url |-> e.url, amend |-> e.amend, name |-> None]
  OBVIOUS
<1>3. e.amend # i /\ (e.amend # None => Exists(e.amend)) /\ e.life # None /\ e.doms \in SUBSET Domains
  BY <1>1, IssuancesAssumption DEF assertAmendmentTarget
<1>4. RowOK(i, w) /\ w.dec = "pending" /\ w.url = e.url /\ w.amend = e.amend /\ w.life = e.life
  BY <1>2, <1>3, CreatedRow
<1>5. PICK j : j = Job("create", "save", i, w, e.doms, e.life)
  OBVIOUS
<1>6. /\ j.op = "create" /\ j.at = "save" /\ j.i = i /\ j.row = w /\ j.doms = e.doms /\ j.arg = e.life
      /\ j = Job(j.op, j.at, j.i, j.row, j.doms, j.arg)
  BY <1>5, JobFields
<1>7. JobOK(j)
  BY <1>3, <1>4, <1>6 DEF JobOK
<1>8. Prepared(j)
  BY <1>4, <1>6 DEF Prepared
<1>9. Phase(j)
  BY <1>3, <1>4, <1>6 DEF Phase
<1> QED
  BY <1>1, <1>2, <1>5, <1>7, <1>8, <1>9 DEF Ready

LEMMA UpdateReady ==
  ASSUME IssuanceInv, NEW r \in Requests, UpdateRead(r)
  PROVE  \E j : Enter(r, j) /\ Ready(j)
<1>0. PICK i \in Issuances, form \in Edits :
        \E w, ds :
          /\ Exists(i)
          /\ w = followLifecycle(Patch(row[i], payload(form)), row[i].life)
          /\ ds = IF "doms" \in DOMAIN form THEN form.doms ELSE doms[i]
          /\ assertAmendmentTarget(i, w.amend)
          /\ w.dec = "included" => mayInclude(w, ds, Cardinality(src[i]))
          /\ Enter(r, Job("update", "save", i, w, ds, IF w.life # row[i].life THEN w.life ELSE None))
  BY DEF UpdateRead
<1>1. PICK w, ds :
        /\ Exists(i)
        /\ w = followLifecycle(Patch(row[i], payload(form)), row[i].life)
        /\ ds = IF "doms" \in DOMAIN form THEN form.doms ELSE doms[i]
        /\ assertAmendmentTarget(i, w.amend)
        /\ w.dec = "included" => mayInclude(w, ds, Cardinality(src[i]))
        /\ Enter(r, Job("update", "save", i, w, ds, IF w.life # row[i].life THEN w.life ELSE None))
  BY <1>0, Zenon
<1>2. RowOK(i, row[i]) /\ doms[i] \in SUBSET Domains
  BY <1>1, KnownRow DEF IssuanceInv
<1>3. w.amend # i /\ (w.amend # None => Exists(w.amend)) /\ ds \in SUBSET Domains
  BY <1>1, <1>2, IssuancesAssumption DEF assertAmendmentTarget, RowOK
<1>4. w.dec = "included" => /\ w.life = "active" /\ w.appl = "applicable"
                            /\ \E d \in ds : domain[d] = "active"
                            /\ src[i] # {} \/ w.url # None
  BY <1>1, IncludesWithSource
<1>5. RowOK(i, w) /\ (w.dec = "included" => row[i].dec = "included")
  BY <1>1, <1>2, <1>3, <1>4, UpdatedRow
<1>6. PICK x : x = IF w.life # row[i].life THEN w.life ELSE None
  OBVIOUS
<1>7. PICK j : j = Job("update", "save", i, w, ds, x)
  OBVIOUS
<1>8. /\ j.op = "update" /\ j.at = "save" /\ j.i = i /\ j.row = w /\ j.doms = ds /\ j.arg = x
      /\ j = Job(j.op, j.at, j.i, j.row, j.doms, j.arg)
  BY <1>7, JobFields
<1>9. JobOK(j)
  BY <1>3, <1>5, <1>8 DEF JobOK
<1>10. Prepared(j)
  BY <1>1, <1>4, <1>5, <1>8 DEF Prepared, Included, Exists
<1>11. w.life # None
  BY <1>5, RowFields, IssuancesAssumption DEF RowOK
<1>12. Phase(j)
  BY <1>1, <1>3, <1>6, <1>8, <1>11 DEF Phase
<1> QED
  BY <1>1, <1>6, <1>7, <1>9, <1>10, <1>12 DEF Ready

LEMMA DecideReady ==
  ASSUME IssuanceInv, NEW r \in Requests, DecideRead(r)
  PROVE  \E j : Enter(r, j) /\ Ready(j)
<1>1. PICK i \in Issuances, d \in {"included", "excluded"}, a \in Applicability, ds \in SUBSET Domains :
        /\ Exists(i)
        /\ d = "included" => mayInclude([row[i] EXCEPT !.appl = a], ds, Cardinality(src[i]))
        /\ Enter(r, Job("decide", "save", i, [row[i] EXCEPT !.appl = a, !.dec = d], ds, d))
  BY DEF DecideRead
<1>2. RowOK(i, row[i]) /\ row[i] \in Row
  BY <1>1, KnownRow DEF IssuanceInv
<1>3. PICK w0 : w0 = row[i]
  OBVIOUS
<1>4. LET y == [w0 EXCEPT !.appl = a] IN y.life = w0.life /\ y.appl = a /\ y.url = w0.url
  BY <1>2, <1>3, RowFields DEF Row
<1>5. d = "included" => /\ w0.life = "active" /\ a = "applicable"
                        /\ \E o \in ds : domain[o] = "active"
                        /\ src[i] # {} \/ w0.url # None
  BY <1>1, <1>3, <1>4, IncludesWithSource
<1>6. PICK w : w = [w0 EXCEPT !.appl = a, !.dec = d]
  OBVIOUS
<1>7. d \in Decisions
  BY DEF Decisions
<1>8. RowOK(i, w) /\ w.dec = d /\ w.url = w0.url /\ w.amend = w0.amend /\ w.life = w0.life
  <2>1. RowOK(i, w0) /\ (d = "included" => w0.life = "active" /\ a = "applicable")
    BY <1>2, <1>3, <1>5
  <2> QED
    <3>1. RowOK(i, w0)
      BY <2>1
    <3>2. d \in Decisions
      BY <1>7
    <3>3. a \in Applicability
      OBVIOUS
    <3>4. d = "included" => w0.life = "active" /\ a = "applicable"
      BY <2>1
    <3>5. RowOK(i, w)
      BY <1>6, <3>1, <3>2, <3>3, <3>4, DecidedRow
    <3>6. w.dec = d /\ w.url = w0.url /\ w.amend = w0.amend /\ w.life = w0.life
      BY <1>6, <3>1 DEF RowOK, Row
    <3> QED
      BY <3>5, <3>6
<1>9. PICK j : j = Job("decide", "save", i, w, ds, d)
  OBVIOUS
<1>10. /\ j.op = "decide" /\ j.at = "save" /\ j.i = i /\ j.row = w /\ j.doms = ds /\ j.arg = d
       /\ j = Job(j.op, j.at, j.i, j.row, j.doms, j.arg)
  BY <1>9, JobFields
<1>11. JobOK(j)
  BY <1>8, <1>10 DEF JobOK
<1>12. Prepared(j)
  BY <1>5, <1>8, <1>10 DEF Prepared
<1>13. Phase(j)
  BY <1>1, <1>3, <1>8, <1>10 DEF Phase
<1> QED
  BY <1>1, <1>3, <1>6, <1>9, <1>11, <1>12, <1>13 DEF Ready

LEMMA DeleteReady ==
  ASSUME IssuanceInv, NEW r \in Requests, DeleteRead(r)
  PROVE  \E j : Enter(r, j) /\ Ready(j)
<1>1. PICK i \in Issuances :
        /\ Exists(i)
        /\ \/ unusedDraft(i) /\ Enter(r, Job("erase", "save", i, None, {}, None))
           \/ Enter(r, Job("retire", "save", i,
                           [row[i] EXCEPT !.life = "retired", !.dec = "excluded", !.active = FALSE],
                           {}, "retired"))
  BY DEF DeleteRead
<1>2. CASE unusedDraft(i) /\ Enter(r, Job("erase", "save", i, None, {}, None))
  <2>1. PICK j : j = Job("erase", "save", i, None, {}, None)
    OBVIOUS
  <2>2. /\ j.op = "erase" /\ j.at = "save" /\ j.i = i
        /\ j = Job(j.op, j.at, j.i, j.row, j.doms, j.arg)
    BY <2>1, JobFields
  <2>3. JobOK(j)
    BY <2>2 DEF JobOK, Saving
  <2>4. Prepared(j)
    BY <2>2 DEF Prepared
  <2>5. ASSUME regime = "serial"
        PROVE  Phase(j)
    <3>1. \A x \in rel : i # x.from /\ i # x.to
      BY <1>2 DEF unusedDraft
    <3>2. ASSUME NEW k \in Issuances, Exists(k), row[k].amend = i
          PROVE  FALSE
      <4>1. AmendAgrees(k)
        BY <1>2, <2>5, <3>2, EnteredAlone, RestAgrees DEF IssuanceInv
      <4>2. Amendment(k, i) \in rel /\ Amendment(k, i).to = i
        BY <3>2, <4>1 DEF AmendAgrees, Amendment
      <4> QED
        BY <3>1, <4>2
    <3> QED
      BY <2>2, <3>1, <3>2 DEF Phase
  <2> QED
    BY <1>2, <2>1, <2>3, <2>4, <2>5 DEF Ready
<1>3. CASE Enter(r, Job("retire", "save", i, [row[i] EXCEPT !.life = "retired", !.dec = "excluded", !.active = FALSE],
                        {}, "retired"))
  <2>1. PICK w0 : w0 = row[i]
    OBVIOUS
  <2>2. PICK w : w = [w0 EXCEPT !.life = "retired", !.dec = "excluded", !.active = FALSE]
    OBVIOUS
  <2>3. RowOK(i, w) /\ w.dec = "excluded" /\ w.url = w0.url /\ w.amend = w0.amend /\ w.life = "retired"
    <3>1. RowOK(i, w0)
      BY <1>1, <2>1, KnownRow DEF IssuanceInv
    <3>2. LET z == [w0 EXCEPT !.life = "retired", !.dec = "excluded", !.active = FALSE]
          IN  RowOK(i, z) /\ z.dec = "excluded" /\ z.url = w0.url /\ z.amend = w0.amend /\ z.life = "retired"
      BY <3>1, RetiredRow
    <3> QED
      BY <2>2, <3>2, Zenon
  <2>4. PICK j : j = Job("retire", "save", i, w, {}, "retired")
    OBVIOUS
  <2>5. /\ j.op = "retire" /\ j.at = "save" /\ j.i = i /\ j.row = w /\ j.arg = "retired"
        /\ j = Job(j.op, j.at, j.i, j.row, j.doms, j.arg)
    BY <2>4, JobFields
  <2>6. JobOK(j)
    BY <2>3, <2>5 DEF JobOK, Saving
  <2>7. Prepared(j)
    BY <1>1, <2>1, <2>3, <2>5 DEF Prepared, Exists
  <2>8. Phase(j)
    BY <1>1, <2>1, <2>3, <2>5 DEF Phase
  <2> QED
    BY <1>3, <2>1, <2>2, <2>4, <2>6, <2>7, <2>8 DEF Ready
<1> QED
  BY <1>1, <1>2, <1>3

LEMMA UploadReady ==
  ASSUME IssuanceInv, NEW r \in Requests, UploadRead(r)
  PROVE  \E j : Enter(r, j) /\ Ready(j)
<1>0. PICK i \in Issuances, f \in Files :
        \E dup : /\ Exists(i) /\ dup = {s \in src[i] : s.file = f}
                /\ Enter(r, Job("upload", "save", i, [row[i] EXCEPT !.name = f], {}, [file |-> f, dup |-> dup]))
  BY DEF UploadRead
<1>1. PICK dup :
        /\ Exists(i) /\ dup = {s \in src[i] : s.file = f}
        /\ Enter(r, Job("upload", "save", i, [row[i] EXCEPT !.name = f], {}, [file |-> f, dup |-> dup]))
  BY <1>0, Zenon
<1>2. PICK w0 : w0 = row[i]
  OBVIOUS
<1>3. PICK w : w = [w0 EXCEPT !.name = f]
  OBVIOUS
<1>4. RowOK(i, w0) /\ f \in Files \cup {None}
  BY <1>1, <1>2, KnownRow DEF IssuanceInv
<1>5. RowOK(i, w) /\ w.dec = w0.dec /\ w.url = w0.url /\ w.amend = w0.amend /\ w.life = w0.life
  <2>1. LET z == [w0 EXCEPT !.name = f]
        IN  RowOK(i, z) /\ z.dec = w0.dec /\ z.url = w0.url /\ z.amend = w0.amend /\ z.life = w0.life
    BY <1>4, NamedRow
  <2> QED
    BY <1>3, <2>1, Zenon
<1>6. PICK x : x = [file |-> f, dup |-> dup]
  OBVIOUS
<1>7. PICK j : j = Job("upload", "save", i, w, {}, x)
  OBVIOUS
<1>8. /\ j.op = "upload" /\ j.at = "save" /\ j.i = i /\ j.row = w /\ j.arg = x
      /\ j = Job(j.op, j.at, j.i, j.row, j.doms, j.arg)
  BY <1>7, JobFields
<1>9. GoodSources(dup, made)
  BY <1>1 DEF IssuanceInv, Sound, SourcesOK, GoodSources
<1>10. JobOK(j)
  BY <1>5, <1>6, <1>8, <1>9 DEF JobOK, Saving
<1>11. Prepared(j)
  BY <1>1, <1>2, <1>5, <1>8 DEF Prepared, Included, Exists
<1>12. Phase(j)
  BY <1>1, <1>2, <1>5, <1>6, <1>8 DEF Phase
<1>13. Enter(r, j)
  BY <1>1, <1>2, <1>3, <1>6, <1>7
<1> QED
  BY <1>10, <1>11, <1>12, <1>13 DEF Ready

LEMMA DetachReady ==
  ASSUME IssuanceInv, NEW r \in Requests, DetachRead(r)
  PROVE  \E j : Enter(r, j) /\ Ready(j)
<1>0. PICK i \in Issuances :
        \E own : /\ Exists(i) /\ blob[i] # None /\ mayDetach(i, own)
                /\ own = {s \in src[i] : s.kind = "uploaded_copy" /\ s.file = blob[i]}
                /\ Enter(r, Job("detach", "save", i, [row[i] EXCEPT !.name = None], {}, own))
  BY DEF DetachRead
<1>1. PICK own :
        /\ Exists(i) /\ blob[i] # None /\ mayDetach(i, own)
        /\ own = {s \in src[i] : s.kind = "uploaded_copy" /\ s.file = blob[i]}
        /\ Enter(r, Job("detach", "save", i, [row[i] EXCEPT !.name = None], {}, own))
  BY <1>0, Zenon
<1>2. PICK w0 : w0 = row[i]
  OBVIOUS
<1>3. PICK w : w = [w0 EXCEPT !.name = None]
  OBVIOUS
<1>4. RowOK(i, w0)
  BY <1>1, <1>2, KnownRow DEF IssuanceInv
<1>5. RowOK(i, w) /\ w.dec = w0.dec /\ w.url = w0.url /\ w.amend = w0.amend /\ w.life = w0.life
  <2>1. PICK n \in Files \cup {None} : n = None
    OBVIOUS
  <2>2. LET z == [w0 EXCEPT !.name = n]
        IN  RowOK(i, z) /\ z.dec = w0.dec /\ z.url = w0.url /\ z.amend = w0.amend /\ z.life = w0.life
    BY <1>4, <2>1, NamedRow
  <2> QED
    BY <1>3, <2>1, <2>2, Zenon
<1>6. PICK j : j = Job("detach", "save", i, w, {}, own)
  OBVIOUS
<1>7. /\ j.op = "detach" /\ j.at = "save" /\ j.i = i /\ j.row = w /\ j.arg = own
      /\ j = Job(j.op, j.at, j.i, j.row, j.doms, j.arg)
  BY <1>6, JobFields
<1>8. own \subseteq src[i] /\ \A d \in own : d.file # None
  BY <1>1
<1>9. JobOK(j)
  BY <1>5, <1>7, <1>8 DEF JobOK, Saving
<1>10. Included(i) => src[i] \ own # {}
  BY <1>1 DEF mayDetach, Included
<1>11. Prepared(j)
  BY <1>1, <1>2, <1>5, <1>7, <1>8, <1>10 DEF Prepared, Included, Exists
<1>12. Phase(j)
  BY <1>1, <1>2, <1>5, <1>7 DEF Phase
<1>13. Enter(r, j)
  BY <1>1, <1>2, <1>3, <1>6
<1> QED
  BY <1>9, <1>11, <1>12, <1>13 DEF Ready

LEMMA AddSourceReady ==
  ASSUME IssuanceInv, NEW r \in Requests, AddSourceRead(r)
  PROVE  \E j : Enter(r, j) /\ Ready(j)
<1>1. PICK i \in Issuances, l \in Links, p \in BOOLEAN :
        /\ Exists(i)
        /\ Enter(r, Job("add", "source", i, None, {}, [l |-> l, primary |-> p \/ \A s \in src[i] : ~s.primary]))
  BY DEF AddSourceRead
<1>2. PICK b \in BOOLEAN : b = (p \/ \A s \in src[i] : ~s.primary)
  BY Zenon
<1>3. PICK x : x = [l |-> l, primary |-> b]
  OBVIOUS
<1>4. x = [l |-> l, primary |-> p \/ \A s \in src[i] : ~s.primary]
  BY <1>2, <1>3, Zenon
<1>5. PICK j : j = Job("add", "source", i, None, {}, x)
  OBVIOUS
<1>6. /\ j.op = "add" /\ j.at = "source" /\ j.i = i /\ j.arg = x
      /\ j = Job(j.op, j.at, j.i, j.row, j.doms, j.arg)
  BY <1>5, JobFields
<1>7. x.l \in Links /\ x.primary \in BOOLEAN
  BY <1>3
<1>8. JobOK(j)
  BY <1>6, <1>7 DEF JobOK, Saving
<1>9. Prepared(j)
  BY <1>6 DEF Prepared
<1>10. Phase(j)
  BY <1>1, <1>6 DEF Phase
<1> QED
  BY <1>1, <1>4, <1>5, <1>8, <1>9, <1>10, Zenon DEF Ready

LEMMA VerifyReady ==
  ASSUME IssuanceInv, NEW r \in Requests, VerifyRead(r)
  PROVE  \E j : Enter(r, j) /\ Ready(j)
<1>1. PICK i \in Issuances : Exists(i) /\ \E s \in src[i] : Enter(r, Job("verify", "source", i, None, {}, s))
  BY DEF VerifyRead
<1>2. PICK s \in src[i] : Enter(r, Job("verify", "source", i, None, {}, s))
  BY <1>1
<1>3. PICK j : j = Job("verify", "source", i, None, {}, s)
  OBVIOUS
<1>4. /\ j.op = "verify" /\ j.at = "source" /\ j.i = i /\ j.arg = s
      /\ j = Job(j.op, j.at, j.i, j.row, j.doms, j.arg)
  BY <1>3, JobFields
<1>5. GoodSource(s, made)
  BY DEF IssuanceInv, Sound, SourcesOK, GoodSources
<1>6. JobOK(j)
  BY <1>4, <1>5 DEF JobOK, Saving
<1>7. Prepared(j)
  BY <1>4 DEF Prepared
<1>8. Phase(j)
  BY <1>1, <1>4 DEF Phase
<1> QED
  BY <1>2, <1>3, <1>6, <1>7, <1>8 DEF Ready

LEMMA AddRelationReady ==
  ASSUME IssuanceInv, NEW r \in Requests, AddRelationRead(r)
  PROVE  \E j : Enter(r, j) /\ Ready(j)
<1>1. PICK i \in Issuances, t \in Issuances, ty \in {"amends", "related_to"} :
        /\ i # t /\ Exists(i) /\ Exists(t) /\ mayRelate(i, t, ty)
        /\ Enter(r, Job("relate", "rel", i, None, {}, [from |-> i, to |-> t, type |-> ty]))
  BY DEF AddRelationRead
<1>2. PICK x : x = [from |-> i, to |-> t, type |-> ty]
  OBVIOUS
<1>3. x \in Relations /\ x.from = i /\ x.to = t /\ x.type = ty
  BY <1>2 DEF Relations
<1>4. PICK j : j = Job("relate", "rel", i, None, {}, x)
  OBVIOUS
<1>5. /\ j.op = "relate" /\ j.at = "rel" /\ j.i = i /\ j.arg = x
      /\ j = Job(j.op, j.at, j.i, j.row, j.doms, j.arg)
  BY <1>4, JobFields
<1>6. JobOK(j)
  BY <1>1, <1>3, <1>5 DEF JobOK, Saving
<1>7. Prepared(j)
  BY <1>5 DEF Prepared
<1>8. ASSUME ty = "amends", NEW k \in Issuances, Amendment(i, k) \in rel
      PROVE  FALSE
  <2>1. Amendment(i, k) \in Amends(i) /\ Amendment(i, k).to = k
    BY <1>8 DEF Amends, Amendment
  <2>2. k = t
    BY <1>1, <1>8, <2>1 DEF mayRelate
  <2>3. x = Amendment(i, k)
    BY <1>2, <1>8, <2>2 DEF Amendment
  <2> QED
    BY <1>1, <1>2, <1>8, <2>3 DEF mayRelate
<1>9. Phase(j)
  BY <1>1, <1>3, <1>5, <1>8 DEF Phase
<1> QED
  BY <1>1, <1>2, <1>4, <1>6, <1>7, <1>9 DEF Ready

LEMMA RemoveRelationReady ==
  ASSUME IssuanceInv, NEW r \in Requests, RemoveRelationRead(r)
  PROVE  \E j : Enter(r, j) /\ Ready(j)
<1>1. PICK x \in rel : Enter(r, Job("unrelate", "rel", x.from, None, {}, x))
  BY DEF RemoveRelationRead
<1>2. PICK j : j = Job("unrelate", "rel", x.from, None, {}, x)
  OBVIOUS
<1>3. /\ j.op = "unrelate" /\ j.at = "rel" /\ j.i = x.from /\ j.arg = x
      /\ j = Job(j.op, j.at, j.i, j.row, j.doms, j.arg)
  BY <1>2, JobFields
<1>4. x \in Relations /\ x.from # x.to
  BY DEF IssuanceInv, Sound, ListsOK
<1>5. JobOK(j)
  BY <1>3, <1>4 DEF JobOK, Saving
<1>6. Prepared(j)
  BY <1>3 DEF Prepared
<1>7. regime = "serial" => Exists(x.from) /\ Exists(x.to)
  BY DEF IssuanceInv, Settled
<1>8. regime = "serial" => Phase(j)
  BY <1>3, <1>7 DEF Phase
<1> QED
  BY <1>1, <1>2, <1>5, <1>6, <1>8 DEF Ready

LEMMA DomainReady ==
  ASSUME IssuanceInv, NEW r \in Requests, DomainRead(r)
  PROVE  \E j : Enter(r, j) /\ Ready(j)
<1>1. PICK d \in Domains, a \in {"active", "inactive"} :
        /\ a = "inactive" => mayClose(d)
        /\ Enter(r, Job("domain", "save", d, None, {}, a))
  BY DEF DomainRead
<1>2. PICK j : j = Job("domain", "save", d, None, {}, a)
  OBVIOUS
<1>3. /\ j.op = "domain" /\ j.at = "save" /\ j.i = d /\ j.arg = a
      /\ j = Job(j.op, j.at, j.i, j.row, j.doms, j.arg)
  BY <1>2, JobFields
<1>4. JobOK(j)
  BY <1>3 DEF JobOK, Saving
<1>5. Prepared(j)
  BY <1>1, <1>3 DEF Prepared
<1>6. Phase(j)
  BY <1>3 DEF Phase
<1> QED
  BY <1>1, <1>2, <1>4, <1>5, <1>6 DEF Ready

(* Nothing is written by entering a request.                                *)
LEMMA EnteredKeeps ==
  ASSUME IssuanceInv, NEW r \in Requests, NEW j, Ready(j), Enter(r, j)
  PROVE  IssuanceInv'
<1>1. Sound'
  BY EnteredSound DEF IssuanceInv, Ready
<1>2. UNCHANGED <<row, doms, domain, src, rel, hist, regime>>
  BY DEF Enter, tables
<1>3. /\ \A q \in Requests : job'[q] = IF q = r THEN j ELSE job[q]
      /\ regime # "overlap" => \A q \in Requests : job[q] = Idle
  BY DEF Enter, IssuanceInv, Sound, JobsOK
<1>4. ASSUME regime # "overlap"
      PROVE  Covered'
  <2>1. Prepared(j)'
    BY <1>2, <1>4 DEF Ready, Prepared, Included, mayClose, Exists
  <2>2. \A q \in Requests : job'[q] = IF q = r THEN j ELSE Idle
    BY <1>3, <1>4
  <2>3. \A q \in Requests : job'[q] # Idle => Prepared(job[q])'
    <3> SUFFICES ASSUME NEW q \in Requests, job'[q] # Idle
                 PROVE  Prepared(job[q])'
      OBVIOUS
    <3>1. job'[q] = j
      BY <2>2
    <3> QED
      BY <2>1, <3>1
  <2>4. \A i \in Issuances : Included(i)' => (\E d \in doms[i] : domain[d] = "active")' /\ (src[i] # {} \/ row[i].url # None)'
    BY <1>2, <1>4 DEF IssuanceInv, Covered, Included
  <2> QED
    BY <2>2, <2>3, <2>4 DEF Covered
<1>5. ASSUME regime = "serial"
      PROVE  Settled'
  <2>1. Phase(j)'
    BY <1>2, <1>5 DEF Ready, Phase, Exists, HistAgrees
  <2>2. \A q \in Requests : job'[q] = IF q = r THEN j ELSE Idle
    BY <1>3, <1>5
  <2>3. \A q \in Requests : job'[q] # Idle => Phase(job[q])'
    <3> SUFFICES ASSUME NEW q \in Requests, job'[q] # Idle
                 PROVE  Phase(job[q])'
      OBVIOUS
    <3>1. job'[q] = j
      BY <2>2
    <3> QED
      BY <2>1, <3>1
  <2>4. \A i \in Issuances : Exists(i) => UrlAgrees(i) /\ AmendAgrees(i) /\ HistAgrees(i) /\ (row[i].amend # None => Exists(row[i].amend))
    BY <1>3, <1>5, RestAgrees DEF IssuanceInv
  <2>5. \A i \in Issuances : Exists(i)' => UrlAgrees(i)' /\ AmendAgrees(i)' /\ HistAgrees(i)' /\ (row[i].amend # None => Exists(row[i].amend))'
    BY <1>2, <2>4 DEF Exists, UrlAgrees, AmendAgrees, HistAgrees
  <2>6. /\ \A i \in Issuances : (~Exists(i) => src[i] = {})' /\ OnePrimary(src[i])' /\ FileOnce(src[i])'
        /\ \A x \in rel' : Exists(x.from)' /\ Exists(x.to)'
    BY <1>2, <1>5 DEF IssuanceInv, Settled, Exists
  <2> QED
    BY <2>3, <2>5, <2>6 DEF Settled
<1> QED
  BY <1>1, <1>2, <1>4, <1>5 DEF IssuanceInv

LEMMA ReadEnters ==
  ASSUME IssuanceInv, NEW r \in Requests, ReadStep(r)
  PROVE  \E j : Enter(r, j) /\ Ready(j)
BY CreateReady, UpdateReady, DecideReady, DeleteReady, UploadReady, DetachReady, AddSourceReady,
   VerifyReady, AddRelationReady, RemoveRelationReady, DomainReady DEF ReadStep

LEMMA ReadKeeps ==
  ASSUME IssuanceInv, NEW r \in Requests, ReadStep(r)
  PROVE  IssuanceInv'
BY ReadEnters, EnteredKeeps

-----------------------------------------------------------------------------
(* What the request at work knows                                          *)
Waits(j, i, ops, steps) == j # Idle /\ j.i = i /\ j.op \in ops /\ j.at \in steps

(* The agreements of an issuance, but for what request j has still to do.   *)
AgreesBut(i, j) ==
  /\ row[i].amend # None => Exists(row[i].amend)
  /\ UrlAgrees(i) \/ Waits(j, i, {"create", "update"}, {"amends", "source"}) \/ Waits(j, i, {"add"}, {"url"})
  /\ AmendAgrees(i) \/ Waits(j, i, {"create", "update"}, {"amends"}) \/ Waits(j, i, {"relate", "unrelate"}, {"row"})
  /\ HistAgrees(i) \/ Waits(j, i, {"create", "update", "retire"}, {"amends", "source", "history"})

TidySources == \A i \in Issuances : (~Exists(i) => src[i] = {}) /\ OnePrimary(src[i]) /\ FileOnce(src[i])
TidyRelations == \A x \in rel : Exists(x.from) /\ Exists(x.to)

LEMMA AtWork ==
  ASSUME IssuanceInv, NEW r \in Requests, NEW j, j = job[r], j # Idle
  PROVE  /\ JobOK(j)
         /\ regime # "overlap" => Prepared(j) /\ \A q \in Requests : q # r => job[q] = Idle
         /\ regime = "serial" => Phase(j) /\ TidySources /\ TidyRelations
         /\ regime = "serial" => \A i \in Issuances : Exists(i) => AgreesBut(i, j)
<1>1. JobOK(j)
  BY DEF IssuanceInv, Sound, JobsOK
<1>2. regime # "overlap" => Prepared(j) /\ \A q \in Requests : q # r => job[q] = Idle
  BY DEF IssuanceInv, Covered
<1>3. regime = "serial" => Phase(j) /\ TidySources /\ TidyRelations
  BY DEF IssuanceInv, Settled, TidySources, TidyRelations
<1>4. ASSUME regime = "serial"
      PROVE  \A i \in Issuances : Exists(i) => AgreesBut(i, j)
  <2>1. \A i, ops, steps : Busy(i, ops, steps) => Waits(j, i, ops, steps)
    BY <1>2, <1>4 DEF Busy, Waits
  <2> QED
    BY <1>4, <2>1 DEF IssuanceInv, Settled, AgreesBut
<1> QED
  BY <1>1, <1>2, <1>3, <1>4

(* What a statement has to leave behind: k is the request after it.         *)
LEMMA WrittenCovered ==
  ASSUME IssuanceInv, NEW r \in Requests, job[r] # Idle, NEW k, job' = [job EXCEPT ![r] = k],
         regime # "overlap", k # Idle => Prepared(k)',
         \A i \in Issuances : Included(i)' => (\E d \in doms[i] : domain[d] = "active")' /\ (src[i] # {} \/ row[i].url # None)'
  PROVE  Covered'
<1>1. \A q \in Requests : job'[q] = IF q = r THEN k ELSE Idle
  BY AtWork DEF IssuanceInv, Sound, JobsOK
<1>2. ASSUME NEW q \in Requests, job'[q] # Idle
      PROVE  Prepared(job[q])'
  <2>1. job'[q] = k
    BY <1>1, <1>2
  <2> QED
    BY <1>2, <2>1
<1> QED
  BY <1>1, <1>2 DEF Covered

LEMMA WrittenSettled ==
  ASSUME IssuanceInv, NEW r \in Requests, job[r] # Idle, NEW k, job' = [job EXCEPT ![r] = k],
         regime = "serial", k # Idle => Phase(k)', TidySources', TidyRelations',
         \A i \in Issuances : Exists(i)' => AgreesBut(i, k)'
  PROVE  Settled'
<1>1. \A q \in Requests : job'[q] = IF q = r THEN k ELSE Idle
  BY AtWork DEF IssuanceInv, Sound, JobsOK
<1>2. ASSUME NEW q \in Requests, job'[q] # Idle
      PROVE  Phase(job[q])'
  <2>1. job'[q] = k
    BY <1>1, <1>2
  <2> QED
    BY <1>2, <2>1
<1>3. \A i, ops, steps : Waits(k, i, ops, steps) => Busy(i, ops, steps)'
  BY <1>1 DEF Busy, Waits
<1>4. \A i \in Issuances : Exists(i)' =>
        /\ (row[i].amend # None => Exists(row[i].amend))'
        /\ UrlAgrees(i)' \/ Busy(i, {"create", "update"}, {"amends", "source"})' \/ Busy(i, {"add"}, {"url"})'
        /\ AmendAgrees(i)' \/ Busy(i, {"create", "update"}, {"amends"})' \/ Busy(i, {"relate", "unrelate"}, {"row"})'
        /\ HistAgrees(i)' \/ Busy(i, {"create", "update", "retire"}, {"amends", "source", "history"})'
  BY <1>3 DEF AgreesBut
<1> QED
  BY <1>2, <1>4 DEF Settled, TidySources, TidyRelations

(* The request after a statement that leads on to step s.                   *)
LEMMA GoesOn ==
  ASSUME IssuanceInv, NEW r \in Requests, NEW j, j = job[r], j # Idle, NEW s, Goto(r, s)
  PROVE  \E k : /\ job' = [job EXCEPT ![r] = k] /\ k # Idle
                /\ k.at = s /\ k.op = j.op /\ k.i = j.i /\ k.row = j.row /\ k.doms = j.doms /\ k.arg = j.arg
<1>1. JobOK(j)
  BY AtWork
<1>2. PICK k : k = [j EXCEPT !.at = s]
  OBVIOUS
<1>3. k.at = s /\ k.op = j.op /\ k.i = j.i /\ k.row = j.row /\ k.doms = j.doms /\ k.arg = j.arg
  <2>1. LET l == [j EXCEPT !.at = s]
        IN  l.at = s /\ l.op = j.op /\ l.i = j.i /\ l.row = j.row /\ l.doms = j.doms /\ l.arg = j.arg
    BY <1>1, MovedJob
  <2> QED
    BY <1>2, <2>1, Zenon
<1>4. job' = [job EXCEPT ![r] = k]
  BY <1>2 DEF Goto
<1>5. k # Idle
  BY <1>1, <1>3, JobFields DEF JobOK, Idle
<1> QED
  BY <1>3, <1>4, <1>5

LEMMA WrittenJobs ==
  ASSUME IssuanceInv, NEW r \in Requests, job[r] # Idle, Leave(r) \/ \E s : Goto(r, s), MadeGrows
  PROVE  JobsOK'
BY JobGoesOn DEF IssuanceInv, Sound, SourcesOK

LEMMA ExistsRow ==
  ASSUME NEW i, NEW w, RowOK(i, w)
  PROVE  w # None
BY IssuancesAssumption DEF RowOK

(* A request that leaves and changes nothing more of the tables.            *)
LEMMA LeavesKeeps ==
  ASSUME IssuanceInv, NEW r \in Requests, NEW j, j = job[r], j # Idle, Leave(r),
         UNCHANGED <<row, blob, doms, domain, src, rel, hist, made, regime>>,
         regime = "serial" =>
           /\ j.op \in {"create", "update", "retire"} => j.at = "save"
           /\ j.op = "add" => j.at # "url"
           /\ j.op \in {"relate", "unrelate"} => j.at # "row"
  PROVE  IssuanceInv'
<1>1. JobsOK'
  BY WrittenJobs DEF MadeGrows
<1>2. RowsOK' /\ ListsOK' /\ SourcesOK'
  <2>1. RowsOK' /\ ListsOK'
    BY DEF IssuanceInv, Sound, RowsOK, ListsOK
  <2>2. SourcesOK'
    BY DEF IssuanceInv, Sound, SourcesOK
  <2> QED
    BY <2>1, <2>2
<1>3. job' = [job EXCEPT ![r] = Idle]
  BY DEF Leave
<1>4. ASSUME regime # "overlap"
      PROVE  Covered'
  <2>1. \A i \in Issuances : Included(i)' => (\E d \in doms[i] : domain[d] = "active")' /\ (src[i] # {} \/ row[i].url # None)'
    BY <1>4 DEF IssuanceInv, Covered, Included
  <2> QED
    BY <1>3, <1>4, <2>1, WrittenCovered
<1>5. ASSUME regime = "serial"
      PROVE  Settled'
  <2>1. \A i \in Issuances : Exists(i) => AgreesBut(i, j)
    BY <1>5, AtWork
  <2>2. \A i \in Issuances : Exists(i) =>
          (row[i].amend # None => Exists(row[i].amend)) /\ UrlAgrees(i) /\ AmendAgrees(i) /\ HistAgrees(i)
    BY <1>5, <2>1 DEF AgreesBut, Waits
  <2>3. \A i \in Issuances : Exists(i)' => AgreesBut(i, Idle)'
    BY <2>2 DEF AgreesBut, Exists, UrlAgrees, AmendAgrees, HistAgrees
  <2>4. TidySources' /\ TidyRelations'
    BY <1>5, AtWork DEF TidySources, TidyRelations, Exists
  <2> QED
    BY <1>3, <1>5, <2>3, <2>4, WrittenSettled
<1> QED
  BY <1>1, <1>2, <1>4, <1>5 DEF IssuanceInv, Sound

(* What a statement leaves in the tables, wherever the request then stands. *)
CoveredRows ==
  \A i \in Issuances : Included(i) => (\E d \in doms[i] : domain[d] = "active") /\ (src[i] # {} \/ row[i].url # None)

LEMMA StepKeeps ==
  ASSUME IssuanceInv, NEW r \in Requests, job[r] # Idle, NEW k, job' = [job EXCEPT ![r] = k], UNCHANGED regime,
         RowsOK', ListsOK', SourcesOK', JobsOK',
         regime # "overlap" => (k # Idle => Prepared(k)') /\ CoveredRows',
         regime = "serial" =>
           /\ k # Idle => Phase(k)'
           /\ TidySources' /\ TidyRelations'
           /\ \A i \in Issuances : Exists(i)' => AgreesBut(i, k)'
  PROVE  IssuanceInv'
<1>1. regime # "overlap" => Covered'
  BY WrittenCovered DEF CoveredRows
<1>2. regime = "serial" => Settled'
  BY WrittenSettled
<1> QED
  BY <1>1, <1>2 DEF IssuanceInv, Sound

(* An issuance the request does not work on is in line.                     *)
LEMMA OtherAgrees ==
  ASSUME IssuanceInv, NEW r \in Requests, NEW j, j = job[r], j # Idle, regime = "serial",
         NEW m \in Issuances, Exists(m),
         \/ m # j.i
         \/ j.at = "save"
         \/ j.op \notin {"create", "update", "retire", "add", "relate", "unrelate"}
         \/ j.op = "add" /\ j.at # "url"
         \/ j.op \in {"relate", "unrelate"} /\ j.at # "row"
  PROVE  (row[m].amend # None => Exists(row[m].amend)) /\ UrlAgrees(m) /\ AmendAgrees(m) /\ HistAgrees(m)
<1>1. AgreesBut(m, j)
  BY AtWork
<1>2. UrlAgrees(m)
  BY <1>1 DEF AgreesBut, Waits
<1>3. AmendAgrees(m)
  BY <1>1 DEF AgreesBut, Waits
<1>4. HistAgrees(m)
  BY <1>1 DEF AgreesBut, Waits
<1> QED
  BY <1>1, <1>2, <1>3, <1>4 DEF AgreesBut

LEMMA IsCovered ==
  ASSUME IssuanceInv, regime # "overlap"
  PROVE  CoveredRows
BY DEF IssuanceInv, Covered, CoveredRows

(* A draft is erased with its relationships, and nothing amends it.         *)
LEMMA EraseKeeps ==
  ASSUME IssuanceInv, NEW r \in Requests, Erase(r)
  PROVE  IssuanceInv'
<1>1. PICK j : j = job[r]
  OBVIOUS
<1>2. j # Idle /\ j.op = "erase" /\ j.at = "save"
  BY <1>1 DEF Erase, At
<1>3. JobOK(j)
  BY <1>1, <1>2, AtWork
<1>4. PICK i \in Issuances : i = j.i
  BY <1>2, <1>3 DEF JobOK
<1>5. /\ row' = [row EXCEPT ![i] = None] /\ blob' = [blob EXCEPT ![i] = None]
      /\ doms' = [doms EXCEPT ![i] = {}] /\ src' = [src EXCEPT ![i] = {}]
      /\ rel' = {x \in rel : i \notin {x.from, x.to}} /\ hist' = [hist EXCEPT ![i] = None]
      /\ job' = [job EXCEPT ![r] = Idle] /\ Leave(r) /\ UNCHANGED <<domain, made, regime>>
  BY <1>1, <1>4 DEF Erase, Put, Leave
<1>6. RowsOK'
  BY <1>5, RowStored DEF IssuanceInv, Sound
<1>7. SourcesOK'
  <2>1. GoodSources({}, made')
    BY DEF GoodSources
  <2> QED
    BY <1>5, <2>1, SourcesStored DEF IssuanceInv, Sound, MadeGrows
<1>8. JobsOK'
  BY <1>1, <1>2, <1>5, WrittenJobs DEF MadeGrows
<1>9. ListsOK'
  BY <1>5 DEF IssuanceInv, Sound, ListsOK
<1>10. /\ \A m \in Issuances : row'[m] = IF m = i THEN None ELSE row[m]
       /\ \A m \in Issuances : src'[m] = IF m = i THEN {} ELSE src[m]
       /\ \A m \in Issuances \ {i} : doms'[m] = doms[m] /\ hist'[m] = hist[m]
  BY <1>5 DEF IssuanceInv, Sound, RowsOK, ListsOK, SourcesOK
<1>11. ASSUME regime # "overlap"
       PROVE  CoveredRows'
  BY <1>5, <1>10, <1>11, IsCovered DEF CoveredRows, Included
<1>12. ASSUME regime = "serial"
       PROVE  /\ TidySources' /\ TidyRelations'
              /\ \A m \in Issuances : Exists(m)' => AgreesBut(m, Idle)'
  <2>1. Phase(j) /\ TidySources /\ TidyRelations
    BY <1>1, <1>2, <1>12, AtWork
  <2>2. /\ \A x \in rel : i # x.from /\ i # x.to
        /\ \A k \in Issuances : Exists(k) => row[k].amend # i
    BY <1>2, <1>4, <2>1 DEF Phase
  <2>3. rel' = rel
    BY <1>5, <2>2
  <2>4. \A m \in Issuances : Exists(m)' => m # i /\ Exists(m) /\ row'[m] = row[m]
    BY <1>10 DEF Exists
  <2>5. TidySources'
    BY <1>10, <2>1 DEF TidySources, Exists, OnePrimary, FileOnce
  <2>6. \A m \in Issuances : Exists(m) /\ m # i => Exists(m)'
    BY <1>10 DEF Exists
  <2>7. TidyRelations'
    BY <1>9, <2>1, <2>2, <2>3, <2>6 DEF TidyRelations, ListsOK, Relations
  <2>8. ASSUME NEW m \in Issuances, Exists(m)'
        PROVE  AgreesBut(m, Idle)'
    <3>1. m # i /\ Exists(m) /\ row'[m] = row[m] /\ src'[m] = src[m] /\ hist'[m] = hist[m]
      BY <1>10, <2>4, <2>8
    <3>2. (row[m].amend # None => Exists(row[m].amend)) /\ UrlAgrees(m) /\ AmendAgrees(m) /\ HistAgrees(m)
      BY <1>1, <1>2, <1>12, <3>1, OtherAgrees
    <3>3. row[m].amend # None => row[m].amend \in Issuances
      BY <3>1, KnownRow, RowFields DEF IssuanceInv
    <3>4. (row[m].amend # None => Exists(row[m].amend))'
      BY <2>2, <2>6, <3>1, <3>2, <3>3 DEF Exists
    <3>5. UrlAgrees(m)' /\ HistAgrees(m)'
      BY <3>1, <3>2 DEF UrlAgrees, HistAgrees
    <3>6. AmendAgrees(m)'
      BY <2>3, <3>1, <3>2 DEF AmendAgrees
    <3> QED
      BY <3>4, <3>5, <3>6 DEF AgreesBut
  <2> QED
    BY <2>5, <2>7, <2>8
<1> QED
  BY <1>1, <1>2, <1>5, <1>6, <1>7, <1>8, <1>9, <1>11, <1>12, StepKeeps

(* A statement that touches neither row, domains nor sources.               *)
LEMMA CoveredStill ==
  ASSUME IssuanceInv, regime # "overlap", UNCHANGED <<row, doms, domain, src>>
  PROVE  CoveredRows'
BY IsCovered DEF CoveredRows, Included

LEMMA TidyStill ==
  ASSUME IssuanceInv, NEW r \in Requests, job[r] # Idle, regime = "serial", UNCHANGED <<row, src>>
  PROVE  TidySources'
BY AtWork DEF TidySources, Exists

LEMMA HistoryKeeps ==
  ASSUME IssuanceInv, NEW r \in Requests, History(r)
  PROVE  IssuanceInv'
<1>1. PICK j : j = job[r]
  OBVIOUS
<1>2. j # Idle /\ j.op \in {"create", "update", "retire"} /\ j.at = "history"
  BY <1>1 DEF History, At
<1>3. JobOK(j)
  BY <1>1, <1>2, AtWork
<1>4. PICK i \in Issuances : i = j.i
  BY <1>2, <1>3 DEF JobOK, Saving
<1>5. /\ hist' = [hist EXCEPT ![i] = j.arg] /\ job' = [job EXCEPT ![r] = Idle] /\ Leave(r)
      /\ UNCHANGED <<row, blob, doms, domain, src, rel, made, regime>>
  BY <1>1, <1>4 DEF History, Put, Leave
<1>6. RowsOK' /\ SourcesOK' /\ ListsOK'
  <2>1. RowsOK'
    BY <1>5 DEF IssuanceInv, Sound, RowsOK
  <2>2. SourcesOK'
    BY <1>5 DEF IssuanceInv, Sound, SourcesOK
  <2>3. ListsOK'
    BY <1>5 DEF IssuanceInv, Sound, ListsOK
  <2> QED
    BY <2>1, <2>2, <2>3
<1>7. JobsOK'
  BY <1>1, <1>2, <1>5, WrittenJobs DEF MadeGrows
<1>8. regime # "overlap" => CoveredRows'
  BY <1>5, CoveredStill
<1>9. ASSUME regime = "serial"
      PROVE  /\ TidySources' /\ TidyRelations'
             /\ \A m \in Issuances : Exists(m)' => AgreesBut(m, Idle)'
  <2>1. Phase(j) /\ TidyRelations
    BY <1>1, <1>2, <1>9, AtWork
  <2>2. TidySources' /\ TidyRelations'
    BY <1>1, <1>2, <1>5, <1>9, <2>1, TidyStill DEF TidyRelations, Exists
  <2>3. ASSUME NEW m \in Issuances, Exists(m)'
        PROVE  AgreesBut(m, Idle)'
    <3>1. Exists(m) /\ row'[m] = row[m]
      BY <1>5, <2>3 DEF Exists
    <3>2. AgreesBut(m, j)
      BY <1>1, <1>2, <1>9, <3>1, AtWork
    <3>3. (row[m].amend # None => Exists(row[m].amend)) /\ UrlAgrees(m) /\ AmendAgrees(m)
      BY <1>2, <3>2 DEF AgreesBut, Waits
    <3>4. HistAgrees(m)'
      <4>1. CASE m = i
        <5>1. hist'[m] = j.arg
          BY <1>5, <4>1 DEF IssuanceInv, Sound, ListsOK
        <5>2. j.arg = row[i].life
          BY <1>2, <1>4, <2>1 DEF Phase
        <5> QED
          BY <1>5, <4>1, <5>1, <5>2 DEF HistAgrees
      <4>2. CASE m # i
        <5>1. hist'[m] = hist[m]
          BY <1>5, <4>2 DEF IssuanceInv, Sound, ListsOK
        <5>2. HistAgrees(m)
          BY <1>1, <1>2, <1>4, <1>9, <3>1, <4>2, OtherAgrees
        <5> QED
          BY <1>5, <5>1, <5>2 DEF HistAgrees
      <4> QED
        BY <4>1, <4>2
    <3> QED
      BY <1>5, <3>3, <3>4 DEF AgreesBut, Exists, UrlAgrees, AmendAgrees
  <2> QED
    BY <2>2, <2>3
<1> QED
  BY <1>1, <1>2, <1>5, <1>6, <1>7, <1>8, <1>9, StepKeeps

LEMMA RecordKeeps ==
  ASSUME IssuanceInv, NEW r \in Requests, RecordDecision(r)
  PROVE  IssuanceInv'
<1>1. PICK j : j = job[r]
  OBVIOUS
<1>2. j # Idle /\ j.op = "decide" /\ Leave(r) /\ UNCHANGED <<row, blob, doms, domain, src, rel, hist, made, regime>>
  BY <1>1 DEF RecordDecision, At
<1> QED
  BY <1>1, <1>2, LeavesKeeps

-----------------------------------------------------------------------------
(* The row and its domains are stored                                      *)
LEMMA AmendmentIs ==
  ASSUME NEW i, NEW t, NEW k, NEW u
  PROVE  /\ Amendment(i, t) = Amendment(k, u) <=> i = k /\ t = u
         /\ Amendment(i, t).from = i /\ Amendment(i, t).to = t /\ Amendment(i, t).type = "amends"
BY DEF Amendment

LEMMA StoredKeeps ==
  ASSUME IssuanceInv, NEW r \in Requests, SaveRow(r), ~ (job[r].op = "create" /\ Exists(job[r].i))
  PROVE  IssuanceInv'
<1>1. PICK j : j = job[r]
  OBVIOUS
<1>2. j # Idle /\ j.op \in Saving /\ j.at = "save"
  BY <1>1 DEF SaveRow, At, Saving
<1>3. JobOK(j)
  BY <1>1, <1>2, AtWork
<1>4. PICK i \in Issuances, w \in {j.row} : i = j.i /\ w = j.row /\ RowOK(i, w)
  BY <1>2, <1>3 DEF JobOK
<1>5. /\ row' = [row EXCEPT ![i] = w]
      /\ doms' = IF j.op \in {"create", "update", "decide"} THEN [doms EXCEPT ![i] = j.doms] ELSE doms
      /\ blob' = CASE j.op = "upload" -> [blob EXCEPT ![i] = j.arg.file]
                   [] j.op = "detach" -> [blob EXCEPT ![i] = None]
                   [] OTHER -> blob
      /\ UNCHANGED <<domain, src, rel, hist, made, regime>>
  BY <1>1, <1>4 DEF SaveRow, Put
<1>6. PICK s : /\ Goto(r, s)
               /\ j.op \in {"create", "update"} => s = "amends"
               /\ j.op \in {"upload", "detach"} => s = "source"
               /\ j.op = "retire" => s = "history"
               /\ j.op = "decide" => s = "log"
  <2>1. \E s : /\ s = CASE j.op \in {"create", "update"} -> "amends"
                         [] j.op \in {"upload", "detach"} -> "source"
                         [] j.op = "retire" -> "history"
                         [] j.op = "decide" -> "log"
               /\ Goto(r, s)
    BY <1>1 DEF SaveRow
  <2> QED
    BY <1>2, <2>1 DEF Saving
<1>7. PICK k : /\ job' = [job EXCEPT ![r] = k] /\ k # Idle
               /\ k.at = s /\ k.op = j.op /\ k.i = j.i /\ k.row = j.row /\ k.doms = j.doms /\ k.arg = j.arg
  BY <1>1, <1>2, <1>6, GoesOn
<1>8. RowsOK' /\ SourcesOK'
  <2>1. RowsOK'
    BY <1>4, <1>5, RowStored DEF IssuanceInv, Sound
  <2>2. SourcesOK'
    BY <1>5 DEF IssuanceInv, Sound, SourcesOK
  <2> QED
    BY <2>1, <2>2
<1>9. ListsOK'
  <2>1. doms' \in [Issuances -> SUBSET Domains]
    BY <1>3, <1>5 DEF IssuanceInv, Sound, ListsOK, JobOK
  <2>2. blob' \in [Issuances -> Files \cup {None}]
    <3>1. CASE j.op = "upload"
      BY <1>3, <1>5, <3>1 DEF IssuanceInv, Sound, ListsOK, JobOK
    <3>2. CASE j.op = "detach"
      BY <1>5, <3>2 DEF IssuanceInv, Sound, ListsOK
    <3>3. CASE j.op \notin {"upload", "detach"}
      BY <1>5, <3>3 DEF IssuanceInv, Sound, ListsOK
    <3> QED
      BY <3>1, <3>2, <3>3
  <2> QED
    BY <1>5, <2>1, <2>2 DEF IssuanceInv, Sound, ListsOK
<1>10. JobsOK'
  BY <1>1, <1>2, <1>5, <1>6, WrittenJobs DEF MadeGrows
<1>11. /\ \A m \in Issuances : row'[m] = IF m = i THEN w ELSE row[m]
       /\ \A m \in Issuances \ {i} : doms'[m] = doms[m]
       /\ j.op \in {"create", "update", "decide"} => doms'[i] = j.doms
       /\ j.op \notin {"create", "update", "decide"} => doms'[i] = doms[i]
  BY <1>5 DEF IssuanceInv, Sound, RowsOK, ListsOK
<1>12. w # None
  BY <1>4, ExistsRow
<1>13. ASSUME regime # "overlap"
       PROVE  CoveredRows' /\ Prepared(k)'
  <2>1. Prepared(j) /\ CoveredRows
    BY <1>1, <1>2, <1>13, AtWork, IsCovered
  <2>2. j.op \in Saving \ {"decide"} /\ w.dec = "included" => Included(i)
    BY <1>2, <1>4, <2>1 DEF Prepared, Saving
  <2>3. ASSUME w.dec = "included"
        PROVE  (\E d \in doms'[i] : domain[d] = "active") /\ (src[i] # {} \/ w.url # None)
    <3>1. CASE j.op \in {"create", "update", "decide"}
      BY <1>2, <1>4, <1>11, <2>1, <2>3, <3>1 DEF Prepared
    <3>2. CASE j.op \in {"retire", "upload", "detach"}
      <4>1. Included(i) /\ doms'[i] = doms[i] /\ w.url = row[i].url
        BY <1>2, <1>4, <1>11, <2>1, <2>2, <2>3, <3>2 DEF Prepared, Saving
      <4> QED
        BY <2>1, <4>1 DEF CoveredRows
    <3> QED
      BY <1>2, <3>1, <3>2 DEF Saving
  <2>4. CoveredRows'
    BY <1>5, <1>11, <2>1, <2>3 DEF CoveredRows, Included
  <2>5. j.op = "detach" => j.arg \subseteq src[i] /\ (Included(i)' => src[i] \ j.arg # {})
    <3>1. Included(i)' => w.dec = "included"
      BY <1>11 DEF Included
    <3> QED
      BY <1>2, <1>4, <2>1, <2>2, <3>1 DEF Prepared, Saving
  <2>6. Prepared(k)'
    <3>1. s # "save" /\ (j.op = "domain" => FALSE) /\ j.i = i
      BY <1>2, <1>4, <1>6 DEF Saving
    <3>2. (k.op \in {"create", "update"} /\ k.at \in {"amends", "source"} => row[k.i] = k.row)'
      BY <1>4, <1>7, <1>11
    <3>3. (k.op = "detach" /\ k.at \in {"save", "source"} => k.arg \subseteq src[k.i] /\ (Included(k.i) => src[k.i] \ k.arg # {}))'
      BY <1>4, <1>5, <1>7, <2>5
    <3> QED
      BY <1>7, <3>1, <3>2, <3>3 DEF Prepared
  <2> QED
    BY <2>4, <2>6
<1>14. ASSUME regime = "serial"
       PROVE  /\ Phase(k)' /\ TidySources' /\ TidyRelations'
              /\ \A m \in Issuances : Exists(m)' => AgreesBut(m, k)'
  <2>1. Phase(j) /\ TidySources /\ TidyRelations
    BY <1>1, <1>2, <1>14, AtWork
  <2>2. \A m \in Issuances : Exists(m) => Exists(m)'
    BY <1>11, <1>12 DEF Exists
  <2>3. Exists(i)' /\ row'[i] = w
    BY <1>11, <1>12 DEF Exists
  <2>4. TidySources'
    BY <1>5, <2>1, <2>2 DEF TidySources
  <2>5. TidyRelations'
    BY <1>5, <1>9, <2>1, <2>2 DEF TidyRelations, ListsOK, Relations
  <2>6. \A m \in Issuances : Exists(m) =>
          (row[m].amend # None => Exists(row[m].amend)) /\ UrlAgrees(m) /\ AmendAgrees(m) /\ HistAgrees(m)
    BY <1>1, <1>2, <1>14, OtherAgrees
  <2>7. w.amend # None => w.amend \in Issuances
    BY <1>4, RowFields DEF RowOK
  <2>8. ASSUME NEW m \in Issuances, m # i, Exists(m)'
        PROVE  AgreesBut(m, k)'
    <3>1. Exists(m) /\ row'[m] = row[m]
      BY <1>11, <2>8 DEF Exists
    <3>2. row[m].amend # None => row[m].amend \in Issuances
      BY <3>1, KnownRow, RowFields DEF IssuanceInv
    <3>3. (row[m].amend # None => Exists(row[m].amend))'
      BY <2>2, <2>6, <3>1, <3>2
    <3>4. UrlAgrees(m)' /\ HistAgrees(m)' /\ AmendAgrees(m)'
      BY <1>5, <2>6, <3>1 DEF UrlAgrees, HistAgrees, AmendAgrees
    <3> QED
      BY <3>3, <3>4 DEF AgreesBut
  <2>9. CASE j.op \in {"create", "update"}
    <3>1. /\ w.amend # None => Exists(w.amend)
          /\ j.arg # None => j.arg = w.life
          /\ j.arg = None => Exists(i) /\ w.life = row[i].life
      BY <1>2, <1>4, <2>1, <2>9 DEF Phase
    <3>2. AgreesBut(i, k)'
      <4>1. (row[i].amend # None => Exists(row[i].amend))'
        BY <2>2, <2>3, <2>7, <3>1
      <4>2. \A ops, steps : k.op \in ops /\ k.at \in steps /\ k # Idle => Waits(k, i, ops, steps)'
        BY <1>4, <1>7 DEF Waits
      <4> QED
        BY <1>6, <1>7, <2>9, <4>1, <4>2 DEF AgreesBut
    <3>3. j.arg = None => HistAgrees(i)'
      BY <1>5, <2>3, <2>6, <3>1 DEF HistAgrees
    <3>4. Phase(k)'
      BY <1>4, <1>6, <1>7, <2>9, <3>1, <3>3 DEF Phase
    <3> QED
      BY <2>4, <2>5, <2>8, <3>2, <3>4
  <2>10. CASE j.op \in {"decide", "upload", "detach", "retire"}
    <3>1. /\ Exists(i) /\ w.url = row[i].url /\ w.amend = row[i].amend
          /\ w.life = IF j.op = "retire" THEN j.arg ELSE row[i].life
      BY <1>2, <1>4, <2>1, <2>10 DEF Phase
    <3>2. (row[i].amend # None => Exists(row[i].amend))'
      BY <2>2, <2>3, <2>6, <2>7, <3>1
    <3>3. UrlAgrees(i)' /\ AmendAgrees(i)'
      BY <1>5, <2>3, <2>6, <3>1 DEF UrlAgrees, AmendAgrees
    <3>4. j.op # "retire" => HistAgrees(i)'
      BY <1>5, <2>3, <2>6, <3>1 DEF HistAgrees
    <3>5. j.op = "retire" => Waits(k, i, {"create", "update", "retire"}, {"amends", "source", "history"})'
      BY <1>4, <1>6, <1>7 DEF Waits
    <3>6. AgreesBut(i, k)'
      BY <3>2, <3>3, <3>4, <3>5 DEF AgreesBut
    <3>7. /\ j.op = "upload" => (k.arg.dup = {z \in src[k.i] : z.file = k.arg.file})' /\ (Exists(k.i) /\ row[k.i].url = k.row.url)'
          /\ j.op = "retire" => (Exists(k.i) /\ k.arg = row[k.i].life)'
          /\ j.op = "detach" => Exists(k.i)'
      BY <1>4, <1>5, <1>7, <2>1, <2>3, <3>1 DEF Phase
    <3>8. Phase(k)'
      BY <1>6, <1>7, <2>10, <3>7 DEF Phase
    <3> QED
      BY <2>4, <2>5, <2>8, <3>6, <3>8
  <2> QED
    BY <1>2, <2>9, <2>10 DEF Saving
<1> QED
  BY <1>1, <1>2, <1>5, <1>7, <1>8, <1>9, <1>10, <1>13, <1>14, StepKeeps

LEMMA SaveKeeps ==
  ASSUME IssuanceInv, NEW r \in Requests, SaveRow(r)
  PROVE  IssuanceInv'
<1>1. CASE job[r].op = "create" /\ Exists(job[r].i)
  <2>1. PICK j : j = job[r]
    OBVIOUS
  <2>2. /\ j # Idle /\ j.op = "create" /\ j.at = "save" /\ Leave(r)
        /\ UNCHANGED <<row, blob, doms, domain, src, rel, hist, made, regime>>
    BY <1>1, <2>1 DEF SaveRow, At
  <2> QED
    BY <2>1, <2>2, LeavesKeeps
<1> QED
  BY <1>1, StoredKeeps

-----------------------------------------------------------------------------
(* Relationship and sources follow the row                                 *)
LEMMA SyncAmendmentKeeps ==
  ASSUME IssuanceInv, NEW r \in Requests, SyncAmendment(r)
  PROVE  IssuanceInv'
<1>1. PICK j : j = job[r]
  OBVIOUS
<1>2. j # Idle /\ j.op \in {"create", "update"} /\ j.at = "amends"
  BY <1>1 DEF SyncAmendment, At
<1>3. JobOK(j)
  BY <1>1, <1>2, AtWork
<1>4. PICK i \in Issuances, w \in {j.row} : i = j.i /\ w = j.row /\ RowOK(i, w)
  BY <1>2, <1>3 DEF JobOK, Saving
<1>5. rel' = syncAmends(i, w) /\ Goto(r, "source") /\ UNCHANGED <<row, blob, doms, domain, src, hist, made, regime>>
  BY <1>1, <1>4 DEF SyncAmendment
<1>6. PICK k : /\ job' = [job EXCEPT ![r] = k] /\ k # Idle
               /\ k.at = "source" /\ k.op = j.op /\ k.i = j.i /\ k.row = j.row /\ k.doms = j.doms /\ k.arg = j.arg
  BY <1>1, <1>2, <1>5, GoesOn
<1>7. w.amend \in Issuances \cup {None} /\ w.amend # i
  BY <1>4, RowFields DEF RowOK
<1>8. /\ Amendment(i, w.amend) = [from |-> i, to |-> w.amend, type |-> "amends"]
      /\ w.amend \in Issuances => Amendment(i, w.amend) \in Relations
  BY DEF Amendment, Relations
<1>9. RowsOK' /\ SourcesOK' /\ ListsOK'
  <2>1. RowsOK'
    BY <1>5 DEF IssuanceInv, Sound, RowsOK
  <2>2. SourcesOK'
    BY <1>5 DEF IssuanceInv, Sound, SourcesOK
  <2>3. rel' \subseteq rel \cup {Amendment(i, w.amend)} /\ (w.amend = None => rel' \subseteq rel)
    BY <1>5, <1>8 DEF syncAmends
  <2>4. rel \in SUBSET Relations /\ \A x \in rel : x.from # x.to
    BY DEF IssuanceInv, Sound, ListsOK
  <2>5. rel' \in SUBSET Relations /\ \A x \in rel' : x.from # x.to
    BY <1>7, <1>8, <2>3, <2>4, AmendmentIs
  <2>6. ListsOK'
    BY <1>5, <2>5 DEF IssuanceInv, Sound, ListsOK
  <2> QED
    BY <2>1, <2>2, <2>6
<1>10. JobsOK'
  BY <1>1, <1>2, <1>5, WrittenJobs DEF MadeGrows
<1>11. ASSUME regime # "overlap"
       PROVE  CoveredRows' /\ Prepared(k)'
  <2>1. Prepared(j)
    BY <1>1, <1>2, <1>11, AtWork
  <2>2. CoveredRows'
    BY <1>5, <1>11, CoveredStill
  <2> QED
    BY <1>2, <1>5, <1>6, <2>1, <2>2 DEF Prepared
<1>12. ASSUME regime = "serial"
       PROVE  /\ Phase(k)' /\ TidySources' /\ TidyRelations'
              /\ \A m \in Issuances : Exists(m)' => AgreesBut(m, k)'
  <2>1. Phase(j) /\ TidyRelations /\ Prepared(j)
    BY <1>1, <1>2, <1>12, AtWork
  <2>2. row[i] = w /\ Exists(i)
    BY <1>2, <1>4, <2>1, ExistsRow DEF Prepared, Exists
  <2>3. AgreesBut(i, j)
    BY <1>1, <1>2, <1>12, <2>2, AtWork
  <2>4. w.amend # None => Exists(w.amend)
    BY <2>2, <2>3 DEF AgreesBut
  <2>5. rel' = IF w.amend = None THEN rel \ Amends(i) ELSE (rel \ Amends(i)) \cup {Amendment(i, w.amend)}
    BY <1>5, <1>8, <2>4 DEF syncAmends
  <2>6. TidySources'
    BY <1>1, <1>2, <1>5, <1>12, TidyStill
  <2>7. TidyRelations'
    BY <1>5, <2>1, <2>2, <2>4, <2>5, AmendmentIs DEF TidyRelations, Exists
  <2>8. AmendAgrees(i)'
    <3>1. \A t \in Issuances : Amendment(i, t) \notin rel \ Amends(i)
      BY AmendmentIs DEF Amends
    <3>2. \A t \in Issuances : Amendment(i, t) \in rel' <=> w.amend = t
      BY <1>7, <2>5, <3>1, AmendmentIs, IssuancesAssumption
    <3> QED
      BY <1>5, <2>2, <3>2 DEF AmendAgrees
  <2>9. ASSUME NEW m \in Issuances, Exists(m)'
        PROVE  AgreesBut(m, k)'
    <3>1. Exists(m)
      BY <1>5, <2>9 DEF Exists
    <3>2. (row[m].amend # None => Exists(row[m].amend))'
      <4>1. AgreesBut(m, j)
        BY <1>1, <1>2, <1>12, <3>1, AtWork
      <4> QED
        BY <1>5, <4>1 DEF AgreesBut, Exists
    <3>3. CASE m = i
      BY <1>2, <1>4, <1>6, <2>8, <3>2, <3>3 DEF AgreesBut, Waits
    <3>4. CASE m # i
      <4>1. UrlAgrees(m) /\ AmendAgrees(m) /\ HistAgrees(m)
        BY <1>1, <1>2, <1>4, <1>12, <3>1, <3>4, OtherAgrees
      <4>2. \A t \in Issuances : Amendment(m, t) \in rel' <=> Amendment(m, t) \in rel
        BY <2>5, <3>4, AmendmentIs DEF Amends
      <4>3. AmendAgrees(m)'
        BY <1>5, <4>1, <4>2 DEF AmendAgrees
      <4> QED
        BY <1>5, <3>2, <4>1, <4>3 DEF AgreesBut, UrlAgrees, HistAgrees
    <3> QED
      BY <3>3, <3>4
  <2>10. Phase(k)'
    <3>1. (j.arg # None => j.arg = j.row.life) /\ (j.arg = None => HistAgrees(j.i))
      BY <1>2, <2>1 DEF Phase
    <3> QED
      BY <1>2, <1>5, <1>6, <3>1 DEF Phase, HistAgrees
  <2> QED
    BY <2>6, <2>7, <2>9, <2>10
<1> QED
  BY <1>1, <1>2, <1>5, <1>6, <1>9, <1>10, <1>11, <1>12, StepKeeps

(* A statement that writes the sources of one issuance and no row.          *)
LEMMA CoveredSources ==
  ASSUME IssuanceInv, regime # "overlap", NEW i \in Issuances, NEW ss,
         src' = [src EXCEPT ![i] = ss], UNCHANGED <<row, doms, domain>>,
         Included(i) => ss # {} \/ row[i].url # None
  PROVE  CoveredRows'
<1>1. \A m \in Issuances : src'[m] = IF m = i THEN ss ELSE src[m]
  BY DEF IssuanceInv, Sound, SourcesOK
<1>2. CoveredRows
  BY IsCovered
<1> QED
  BY <1>1, <1>2 DEF CoveredRows, Included

LEMMA SourcesSettled ==
  ASSUME IssuanceInv, NEW r \in Requests, NEW j, j = job[r], j # Idle, regime = "serial", NEW i \in Issuances,
         i = j.i, j.at # "history", j.op \notin {"relate", "unrelate"},
         j.op \in {"create", "update"} => j.at # "amends",
         NEW ss, src' = [src EXCEPT ![i] = ss],
         UNCHANGED <<row, rel, hist>>, Exists(i), OnePrimary(ss), FileOnce(ss), NEW k,
         Shows(ss, row[i].url) \/ Waits(k, i, {"create", "update"}, {"amends", "source"}) \/ Waits(k, i, {"add"}, {"url"}),
         HistAgrees(i) \/ Waits(k, i, {"create", "update", "retire"}, {"amends", "source", "history"})
  PROVE  /\ TidySources' /\ TidyRelations'
         /\ \A m \in Issuances : Exists(m)' => AgreesBut(m, k)'
<1>1. \A m \in Issuances : src'[m] = IF m = i THEN ss ELSE src[m]
  BY DEF IssuanceInv, Sound, SourcesOK
<1>2. TidySources /\ TidyRelations
  BY AtWork
<1>3. TidySources' /\ TidyRelations'
  BY <1>1, <1>2 DEF TidySources, TidyRelations, Exists
<1>4. ASSUME NEW m \in Issuances, Exists(m)'
      PROVE  AgreesBut(m, k)'
  <2>1. Exists(m) /\ AgreesBut(m, j)
    BY <1>4, AtWork DEF Exists
  <2>2. (row[m].amend # None => Exists(row[m].amend))'
    BY <2>1 DEF AgreesBut, Exists
  <2>3. CASE m = i
    <3>1. AmendAgrees(i)
      BY <2>1, <2>3 DEF AgreesBut, Waits
    <3>2. \A ops, steps : Waits(k, i, ops, steps) => Waits(k, i, ops, steps)'
      BY DEF Waits
    <3>3. UrlAgrees(i)' \/ Waits(k, i, {"create", "update"}, {"amends", "source"})' \/ Waits(k, i, {"add"}, {"url"})'
      BY <1>1, <3>2 DEF UrlAgrees
    <3>4. HistAgrees(i)' \/ Waits(k, i, {"create", "update", "retire"}, {"amends", "source", "history"})'
      BY <3>2 DEF HistAgrees
    <3>5. AmendAgrees(i)'
      BY <3>1 DEF AmendAgrees
    <3> QED
      BY <2>2, <2>3, <3>3, <3>4, <3>5 DEF AgreesBut
  <2>4. CASE m # i
    <3>1. UrlAgrees(m) /\ AmendAgrees(m) /\ HistAgrees(m)
      BY <2>1, <2>4, OtherAgrees
    <3> QED
      BY <1>1, <2>2, <2>4, <3>1 DEF AgreesBut, UrlAgrees, AmendAgrees, HistAgrees
  <2> QED
    BY <2>3, <2>4
<1> QED
  BY <1>3, <1>4

LEMMA SyncSourceKeeps ==
  ASSUME IssuanceInv, NEW r \in Requests, SyncSource(r)
  PROVE  IssuanceInv'
<1>1. PICK j : j = job[r]
  OBVIOUS
<1>2. j # Idle /\ j.op \in {"create", "update"} /\ j.at = "source"
  BY <1>1 DEF SyncSource, At
<1>3. JobOK(j)
  BY <1>1, <1>2, AtWork
<1>4. PICK i \in Issuances, w \in {j.row} : i = j.i /\ w = j.row /\ RowOK(i, w)
  BY <1>2, <1>3 DEF JobOK, Saving
<1>5. PICK ss : ss = IF w.url = None THEN withoutUrl(src[i]) ELSE withUrl(src[i], w.url)
  OBVIOUS
<1>6. /\ src' = [src EXCEPT ![i] = ss]
      /\ made' = IF w.url # None /\ \A s \in src[i] : s.url # w.url THEN made + 1 ELSE made
      /\ UNCHANGED <<row, blob, doms, domain, rel, hist, regime>>
      /\ IF j.arg = None THEN Leave(r) ELSE Goto(r, "history")
  BY <1>1, <1>4, <1>5 DEF SyncSource, Put
<1>7. PICK k : /\ job' = [job EXCEPT ![r] = k]
               /\ j.arg = None => k = Idle
               /\ j.arg # None => /\ k # Idle /\ k.at = "history" /\ k.op = j.op /\ k.i = j.i /\ k.row = j.row
                                  /\ k.doms = j.doms /\ k.arg = j.arg
  <2>1. CASE j.arg = None
    BY <1>6, <2>1 DEF Leave
  <2>2. CASE j.arg # None
    BY <1>1, <1>2, <1>6, <2>2, GoesOn
  <2> QED
    BY <2>1, <2>2
<1>8. w.url \in Urls /\ GoodSources(src[i], made) /\ made \in Nat /\ MadeGrows
  BY <1>4, <1>6, RowFields DEF RowOK, IssuanceInv, Sound, SourcesOK, MadeGrows
<1>9. /\ GoodSources(ss, made') /\ (FileOnce(src[i]) => FileOnce(ss)) /\ (OnePrimary(src[i]) => OnePrimary(ss))
      /\ Shows(ss, w.url) /\ (src[i] # {} => ss # {})
  <2>1. CASE w.url = None
    <3>1. made' = made /\ ss = withoutUrl(src[i])
      BY <1>5, <1>6, <2>1
    <3>2. /\ GoodSources(ss, made') /\ (FileOnce(src[i]) => FileOnce(ss)) /\ (OnePrimary(src[i]) => OnePrimary(ss))
          /\ (src[i] # {} => ss # {})
      BY <1>8, <3>1, WithoutUrlFits
    <3> QED
      BY <2>1, <3>2 DEF Shows
  <2>2. CASE w.url # None
    <3>1. made' = IF \A s \in src[i] : s.url # w.url THEN made + 1 ELSE made
      BY <1>6, <2>2
    <3>2. ss = withUrl(src[i], w.url)
      BY <1>5, <2>2
    <3> QED
      BY <1>8, <2>2, <3>1, <3>2, WithUrlFits
  <2> QED
    BY <2>1, <2>2
<1>10. RowsOK' /\ SourcesOK' /\ ListsOK'
  <2>1. RowsOK'
    BY <1>6 DEF IssuanceInv, Sound, RowsOK
  <2>2. SourcesOK'
    BY <1>6, <1>8, <1>9, SourcesStored DEF IssuanceInv, Sound
  <2>3. ListsOK'
    BY <1>6 DEF IssuanceInv, Sound, ListsOK
  <2> QED
    BY <2>1, <2>2, <2>3
<1>11. JobsOK'
  <2>1. Leave(r) \/ \E s : Goto(r, s)
    BY <1>6
  <2> QED
    BY <1>1, <1>2, <1>8, <2>1, WrittenJobs
<1>12. ASSUME regime # "overlap"
       PROVE  CoveredRows' /\ (k # Idle => Prepared(k)')
  <2>1. Prepared(j) /\ CoveredRows
    BY <1>1, <1>2, <1>12, AtWork, IsCovered
  <2>2. CoveredRows'
    BY <1>6, <1>9, <1>12, <2>1, CoveredSources DEF CoveredRows
  <2>3. k # Idle => Prepared(k)'
    BY <1>2, <1>7 DEF Prepared
  <2> QED
    BY <2>2, <2>3
<1>13. ASSUME regime = "serial"
       PROVE  /\ k # Idle => Phase(k)'
              /\ TidySources' /\ TidyRelations'
              /\ \A m \in Issuances : Exists(m)' => AgreesBut(m, k)'
  <2>1. Phase(j) /\ TidySources /\ Prepared(j)
    BY <1>1, <1>2, <1>13, AtWork
  <2>2. row[i] = w /\ Exists(i)
    BY <1>2, <1>4, <2>1, ExistsRow DEF Prepared, Exists
  <2>3. OnePrimary(ss) /\ FileOnce(ss) /\ Shows(ss, row[i].url)
    BY <1>9, <2>1, <2>2 DEF TidySources
  <2>4. (j.arg # None => j.arg = w.life) /\ (j.arg = None => HistAgrees(i))
    BY <1>2, <1>4, <2>1 DEF Phase
  <2>5. HistAgrees(i) \/ Waits(k, i, {"create", "update", "retire"}, {"amends", "source", "history"})
    BY <1>2, <1>4, <1>7, <2>4 DEF Waits
  <2>6. k # Idle => Phase(k)'
    BY <1>2, <1>4, <1>6, <1>7, <2>2, <2>4 DEF Phase, Exists
  <2> QED
    BY <1>1, <1>2, <1>4, <1>6, <1>13, <2>2, <2>3, <2>5, <2>6, SourcesSettled
<1> QED
  BY <1>1, <1>2, <1>6, <1>7, <1>10, <1>11, <1>12, <1>13, StepKeeps

-----------------------------------------------------------------------------
(* Files come and go                                                       *)
Uploaded(ss, dup, p, f) ==
  IF dup = {} THEN Beside(ss, p) \cup {Source("uploaded_copy", None, f, p)} ELSE Remarked(ss, dup, p)

LEMMA UploadSourceKeeps ==
  ASSUME IssuanceInv, NEW r \in Requests, UploadSource(r)
  PROVE  IssuanceInv'
<1>1. PICK j : j = job[r]
  OBVIOUS
<1>2. j # Idle /\ j.op = "upload" /\ j.at = "source"
  BY <1>1 DEF UploadSource, At
<1>3. JobOK(j)
  BY <1>1, <1>2, AtWork
<1>4. PICK i \in Issuances, f \in Files, dup \in {j.arg.dup} : i = j.i /\ f = j.arg.file /\ dup = j.arg.dup /\ GoodSources(dup, made)
  BY <1>2, <1>3 DEF JobOK, Saving
<1>5. PICK p : p = (j.row.url = None)
  OBVIOUS
<1>6. p \in BOOLEAN /\ (p <=> j.row.url = None)
  BY <1>5, Zenon
<1>7. PICK ss : ss = IF dup = {} THEN Beside(src[i], p) \cup {Source("uploaded_copy", None, f, p)} ELSE Remarked(src[i], dup, p)
  OBVIOUS
<1>8. /\ src' = [src EXCEPT ![i] = ss]
      /\ made' = IF dup = {} THEN made + 1 ELSE made
      /\ Leave(r) /\ job' = [job EXCEPT ![r] = Idle]
      /\ UNCHANGED <<row, blob, doms, domain, rel, hist, regime>>
  <2>1. src' = Put(src, job[r].i, Uploaded(src[job[r].i], job[r].arg.dup, job[r].row.url = None, job[r].arg.file))
    <3>1. PICK e \in {job[r].i}, d0 \in {job[r].arg.dup}, nourl \in {job[r].row.url = None} :
          \E tt \in {IF nourl THEN unsetPrimary(src[e]) ELSE src[e]} :
            /\ src' = Put(src, e,
                    IF d0 = {} THEN tt \cup {Source("uploaded_copy", None, job[r].arg.file, nourl)}
                    ELSE {s \in tt : \A d \in d0 : d.id # s.id} \cup {[d EXCEPT !.primary = nourl] : d \in d0})
            /\ made' = IF d0 = {} THEN made + 1 ELSE made
      BY Zenon DEF UploadSource
    <3>2. PICK tt \in {Beside(src[e], nourl)} :
            src' = Put(src, e,
                    IF d0 = {} THEN tt \cup {Source("uploaded_copy", None, job[r].arg.file, nourl)}
                    ELSE {s \in tt : \A d \in d0 : d.id # s.id} \cup {[d EXCEPT !.primary = nourl] : d \in d0})
      BY <3>1, Zenon DEF Beside
    <3>3. tt = Beside(src[e], nourl)
      OBVIOUS
    <3>4. src' = Put(src, e, Uploaded(src[e], d0, nourl, job[r].arg.file))
      BY <3>2, <3>3, Zenon DEF Uploaded, Remarked
    <3>5. e = job[r].i /\ d0 = job[r].arg.dup
      OBVIOUS
    <3>6. nourl = (job[r].row.url = None)
      BY Zenon
    <3> QED
      BY <3>4, <3>5, <3>6, Zenon
  <2>2. src' = Put(src, i, Uploaded(src[i], dup, p, f))
    BY <1>1, <1>4, <1>5, <2>1, Zenon
  <2>3. src' = [src EXCEPT ![i] = ss]
    BY <1>7, <2>2 DEF Put, Uploaded
  <2>4. made' = IF dup = {} THEN made + 1 ELSE made
    BY <1>1, <1>4 DEF UploadSource
  <2> QED
    BY <2>3, <2>4 DEF UploadSource, Leave
<1>9. GoodSources(src[i], made) /\ made \in Nat /\ MadeGrows
  BY <1>8 DEF IssuanceInv, Sound, SourcesOK, MadeGrows
<1>10. /\ GoodSources(ss, made') /\ ss # {}
       /\ dup = {s \in src[i] : s.file = f} /\ FileOnce(src[i]) /\ OnePrimary(src[i]) /\ Shows(src[i], j.row.url)
            => FileOnce(ss) /\ OnePrimary(ss) /\ Shows(ss, j.row.url)
  <2>1. CASE dup = {}
    <3>1. PICK t : t = Source("uploaded_copy", None, f, p)
      OBVIOUS
    <3>2. "uploaded_copy" \in {l.kind : l \in Links} \cup {"uploaded_copy", "official_external"} /\ None \in Urls /\ f \in Files \cup {None}
      BY DEF Urls
    <3>3. GoodSource(t, made + 1) /\ t.id = made + 1 /\ t.url = None /\ t.file = f /\ t.primary = p
      <4>1. LET v == Source("uploaded_copy", None, f, p)
            IN  GoodSource(v, made + 1) /\ v.id = made + 1 /\ v.url = None /\ v.file = f /\ v.primary = p
        BY <1>6, <1>9, <3>2, NewSource
      <4> QED
        BY <3>1, <4>1, Zenon
    <3>4. ss = Beside(src[i], p) \cup {t} /\ made' = made + 1
      BY <1>7, <1>8, <2>1, <3>1
    <3>7. PICK rr \in {src[i]}, tt \in {ss}, pp \in BOOLEAN : rr = src[i] /\ tt = ss /\ pp = p
      BY <1>6
    <3>8. /\ made \in Nat /\ GoodSources(rr, made) /\ GoodSource(t, made + 1)
          /\ t.id = made + 1 /\ t.primary = pp /\ tt = Beside(rr, pp) \cup {t}
      BY <1>9, <3>3, <3>4, <3>7, Zenon
    <3>9. /\ GoodSources(tt, made + 1) /\ tt # {}
          /\ FileOnce(rr) /\ (\A q \in rr : q.file = t.file => t.file = None) => FileOnce(tt)
          /\ OnePrimary(rr) => OnePrimary(tt)
          /\ ~pp => \A u : Shows(rr, u) => Shows(tt, u)
      BY <3>8, AddedFits
    <3>5. /\ GoodSources(ss, made + 1) /\ ss # {}
          /\ FileOnce(src[i]) /\ (\A q \in src[i] : q.file = t.file => t.file = None) => FileOnce(ss)
          /\ OnePrimary(src[i]) => OnePrimary(ss)
          /\ ~p => \A u : Shows(src[i], u) => Shows(ss, u)
      BY <3>7, <3>9, Zenon
    <3>6. ASSUME dup = {s \in src[i] : s.file = f}, FileOnce(src[i]), OnePrimary(src[i]), Shows(src[i], j.row.url)
          PROVE  FileOnce(ss) /\ OnePrimary(ss) /\ Shows(ss, j.row.url)
      <4>1. \A q \in src[i] : q.file # t.file
        BY <2>1, <3>3, <3>6
      <4>2. FileOnce(ss) /\ OnePrimary(ss)
        BY <3>5, <3>6, <4>1
      <4>3. CASE p
        BY <1>6, <4>2, <4>3 DEF Shows
      <4>4. CASE ~p
        BY <3>5, <3>6, <4>2, <4>4
      <4> QED
        BY <4>3, <4>4
    <3> QED
      BY <3>4, <3>5, <3>6
  <2>2. CASE dup # {}
    <3>1. ss = Remarked(src[i], dup, p) /\ made' = made
      BY <1>7, <1>8, <2>2
    <3>2. f # None
      BY IssuancesAssumption
    <3>6. PICK n \in Nat, pp \in BOOLEAN : n = made /\ pp = p
      BY <1>6, <1>9
    <3>7. PICK rr : rr = src[i]
      OBVIOUS
    <3>8. GoodSources(rr, n) /\ GoodSources(dup, n)
      BY <1>4, <1>9, <3>6, <3>7
    <3>9. /\ GoodSources(Remarked(rr, dup, pp), n) /\ Remarked(rr, dup, pp) # {}
          /\ \A g \in Files : \A u :
               dup = {s \in rr : s.file = g} /\ FileOnce(rr) /\ OnePrimary(rr) /\ Shows(rr, u) /\ (pp <=> u = None) /\ g # None
                 => FileOnce(Remarked(rr, dup, pp)) /\ OnePrimary(Remarked(rr, dup, pp)) /\ Shows(Remarked(rr, dup, pp), u)
      BY <2>2, <3>8, RemarkedFits
    <3>3. /\ GoodSources(Remarked(src[i], dup, p), made) /\ Remarked(src[i], dup, p) # {}
          /\ \A g \in Files : \A u :
               dup = {s \in src[i] : s.file = g} /\ FileOnce(src[i]) /\ OnePrimary(src[i]) /\ Shows(src[i], u) /\ (p <=> u = None) /\ g # None
                 => FileOnce(Remarked(src[i], dup, p)) /\ OnePrimary(Remarked(src[i], dup, p)) /\ Shows(Remarked(src[i], dup, p), u)
      BY <3>6, <3>7, <3>9, Zenon
    <3>4. GoodSources(ss, made') /\ ss # {}
      BY <3>1, <3>3
    <3>5. ASSUME dup = {s \in src[i] : s.file = f}, FileOnce(src[i]), OnePrimary(src[i]), Shows(src[i], j.row.url)
          PROVE  FileOnce(ss) /\ OnePrimary(ss) /\ Shows(ss, j.row.url)
      BY <1>6, <3>1, <3>2, <3>3, <3>5
    <3> QED
      BY <3>4, <3>5
  <2> QED
    BY <2>1, <2>2
<1>11. RowsOK' /\ SourcesOK' /\ ListsOK'
  <2>1. RowsOK'
    BY <1>8 DEF IssuanceInv, Sound, RowsOK
  <2>2. SourcesOK'
    BY <1>8, <1>9, <1>10, SourcesStored DEF IssuanceInv, Sound
  <2>3. ListsOK'
    BY <1>8 DEF IssuanceInv, Sound, ListsOK
  <2> QED
    BY <2>1, <2>2, <2>3
<1>12. JobsOK'
  BY <1>1, <1>2, <1>8, <1>9, WrittenJobs
<1>13. regime # "overlap" => CoveredRows'
  BY <1>8, <1>10, CoveredSources
<1>14. ASSUME regime = "serial"
       PROVE  /\ TidySources' /\ TidyRelations'
              /\ \A m \in Issuances : Exists(m)' => AgreesBut(m, Idle)'
  <2>1. Phase(j) /\ TidySources
    BY <1>1, <1>2, <1>14, AtWork
  <2>2. dup = {s \in src[i] : s.file = f} /\ Exists(i) /\ row[i].url = j.row.url
    BY <1>2, <1>4, <2>1 DEF Phase
  <2>3. UrlAgrees(i) /\ HistAgrees(i)
    BY <1>1, <1>2, <1>14, <2>2, OtherAgrees
  <2>4. OnePrimary(ss) /\ FileOnce(ss) /\ Shows(ss, row[i].url)
    BY <1>10, <2>1, <2>2, <2>3 DEF TidySources, UrlAgrees
  <2> QED
    BY <1>1, <1>2, <1>4, <1>8, <1>14, <2>2, <2>3, <2>4, SourcesSettled
<1> QED
  BY <1>1, <1>2, <1>8, <1>11, <1>12, <1>13, <1>14, StepKeeps

LEMMA DetachSourceKeeps ==
  ASSUME IssuanceInv, NEW r \in Requests, DetachSource(r)
  PROVE  IssuanceInv'
<1>1. PICK j : j = job[r]
  OBVIOUS
<1>2. j # Idle /\ j.op = "detach" /\ j.at = "source"
  BY <1>1 DEF DetachSource, At
<1>3. JobOK(j)
  BY <1>1, <1>2, AtWork
<1>4. PICK i \in Issuances, own \in {j.arg} : i = j.i /\ own = j.arg /\ \A d \in own : d.file # None
  BY <1>2, <1>3 DEF JobOK, Saving
<1>5. PICK ss : ss = {s \in src[i] : \A d \in own : d.id # s.id}
  OBVIOUS
<1>6. /\ src' = [src EXCEPT ![i] = ss] /\ Goto(r, "primary")
      /\ UNCHANGED <<row, blob, doms, domain, rel, hist, made, regime>>
  BY <1>1, <1>4, <1>5 DEF DetachSource
<1>7. PICK k : /\ job' = [job EXCEPT ![r] = k] /\ k # Idle
               /\ k.at = "primary" /\ k.op = j.op /\ k.i = j.i /\ k.row = j.row /\ k.doms = j.doms /\ k.arg = j.arg
  BY <1>1, <1>2, <1>6, GoesOn
<1>8. GoodSources(src[i], made) /\ GoodSources(ss, made') /\ MadeGrows
  BY <1>5, <1>6 DEF IssuanceInv, Sound, SourcesOK, GoodSources, MadeGrows
<1>9. RowsOK' /\ SourcesOK' /\ ListsOK'
  <2>1. RowsOK'
    BY <1>6 DEF IssuanceInv, Sound, RowsOK
  <2>2. SourcesOK'
    BY <1>6, <1>8, SourcesStored DEF IssuanceInv, Sound
  <2>3. ListsOK'
    BY <1>6 DEF IssuanceInv, Sound, ListsOK
  <2> QED
    BY <2>1, <2>2, <2>3
<1>10. JobsOK'
  BY <1>1, <1>2, <1>6, <1>8, WrittenJobs
<1>11. ASSUME regime # "overlap"
       PROVE  CoveredRows' /\ Prepared(k)' /\ own \subseteq src[i]
  <2>1. own \subseteq src[i] /\ (Included(i) => src[i] \ own # {})
    BY <1>1, <1>2, <1>4, <1>11, AtWork DEF Prepared
  <2>2. Included(i) => ss # {}
    BY <1>5, <1>8, <2>1 DEF GoodSources
  <2>3. CoveredRows'
    BY <1>6, <1>11, <2>2, CoveredSources
  <2>4. Prepared(k)'
    BY <1>2, <1>7 DEF Prepared
  <2> QED
    BY <2>1, <2>3, <2>4
<1>12. ASSUME regime = "serial"
       PROVE  /\ Phase(k)' /\ TidySources' /\ TidyRelations'
              /\ \A m \in Issuances : Exists(m)' => AgreesBut(m, k)'
  <2>1. Phase(j) /\ TidySources
    BY <1>1, <1>2, <1>12, AtWork
  <2>2. Exists(i)
    BY <1>2, <1>4, <2>1 DEF Phase
  <2>3. UrlAgrees(i) /\ HistAgrees(i)
    BY <1>1, <1>2, <1>12, <2>2, OtherAgrees
  <2>4. OnePrimary(ss) /\ FileOnce(ss)
    BY <1>5, <2>1 DEF TidySources, OnePrimary, FileOnce
  <2>5. Shows(ss, row[i].url)
    <3>1. own \subseteq src[i]
      BY <1>11, <1>12
    <3>2. SUFFICES ASSUME row[i].url # None
                   PROVE  \E s \in ss : s.primary /\ s.url = row[i].url
      BY DEF Shows
    <3>3. PICK s \in src[i] : s.primary /\ s.url = row[i].url
      BY <2>3, <3>2 DEF UrlAgrees, Shows
    <3>4. s \notin own
      BY <1>4, <1>8, <3>2, <3>3 DEF GoodSources, GoodSource
    <3>5. s \in ss
      BY <1>5, <1>8, <3>1, <3>4 DEF GoodSources
    <3> QED
      BY <3>3, <3>5
  <2>6. Phase(k)'
    BY <1>2, <1>4, <1>6, <1>7, <2>2 DEF Phase, Exists
  <2> QED
    BY <1>1, <1>2, <1>4, <1>6, <1>12, <2>2, <2>3, <2>4, <2>5, <2>6, SourcesSettled
<1> QED
  BY <1>1, <1>2, <1>6, <1>7, <1>9, <1>10, <1>11, <1>12, StepKeeps

(* The URL of a row is written, as far as there still is a row.             *)
LEMMA UrlWritten ==
  ASSUME IssuanceInv, NEW i \in Issuances, NEW u \in Urls,
         row' = IF Exists(i) THEN [row EXCEPT ![i].url = u] ELSE row
  PROVE  /\ RowsOK'
         /\ \A m \in Issuances \ {i} : row'[m] = row[m]
         /\ \A m \in Issuances : (Exists(m)' <=> Exists(m)) /\ (Included(m)' <=> Included(m))
         /\ Exists(i) => /\ row'[i].url = u /\ row'[i].amend = row[i].amend /\ row'[i].life = row[i].life
<1>1. CASE Exists(i)
  <2>1. PICK w, z : w = row[i] /\ z = [w EXCEPT !.url = u]
    OBVIOUS
  <2>2. row' = [row EXCEPT ![i] = z]
    BY <1>1, <2>1
  <2>3. RowOK(i, w)
    BY <1>1, <2>1, KnownRow DEF IssuanceInv
  <2>4. RowOK(i, z) /\ z.dec = w.dec /\ z.url = u /\ z.amend = w.amend /\ z.life = w.life
    <3>1. LET y == [w EXCEPT !.url = u] IN RowOK(i, y) /\ y.dec = w.dec /\ y.url = u /\ y.amend = w.amend /\ y.life = w.life
      BY <2>3, LinkedRow
    <3> QED
      BY <2>1, <3>1, Zenon
  <2>5. RowsOK'
    BY <2>2, <2>4, RowStored DEF IssuanceInv, Sound
  <2>6. \A m \in Issuances : row'[m] = IF m = i THEN z ELSE row[m]
    BY <2>2 DEF IssuanceInv, Sound, RowsOK
  <2>7. z # None
    BY <2>4, ExistsRow
  <2> QED
    BY <1>1, <2>1, <2>4, <2>5, <2>6, <2>7 DEF Exists, Included
<1>2. CASE ~Exists(i)
  <2>1. row' = row
    BY <1>2
  <2>2. RowsOK'
    BY <2>1 DEF IssuanceInv, Sound, RowsOK
  <2> QED
    BY <1>2, <2>1, <2>2 DEF Exists, Included
<1> QED
  BY <1>1, <1>2

LEMMA FallbackKeeps ==
  ASSUME IssuanceInv, NEW r \in Requests, Fallback(r)
  PROVE  IssuanceInv'
<1>1. PICK j : j = job[r]
  OBVIOUS
<1>2. j # Idle /\ j.op = "detach" /\ j.at = "primary"
  BY <1>1 DEF Fallback, At
<1>3. JobOK(j)
  BY <1>1, <1>2, AtWork
<1>4. PICK i \in Issuances : i = j.i
  BY <1>2, <1>3 DEF JobOK, Saving
<1>5. /\ Leave(r) /\ job' = [job EXCEPT ![r] = Idle] /\ UNCHANGED <<blob, doms, domain, rel, hist, made, regime>>
      /\ \/ UNCHANGED <<row, src>>
         \/ /\ \A s \in src[i] : ~s.primary
            /\ \E s \in src[i] :
                 /\ src' = [src EXCEPT ![i] = (src[i] \ {s}) \cup {[s EXCEPT !.primary = TRUE]}]
                 /\ row' = IF s.url # None /\ Exists(i) THEN [row EXCEPT ![i].url = s.url] ELSE row
  BY <1>1, <1>4 DEF Fallback, Put, Leave
<1>6. CASE UNCHANGED <<row, src>>
  BY <1>1, <1>2, <1>5, <1>6, LeavesKeeps
<1>7. ASSUME \A s \in src[i] : ~s.primary, NEW s \in src[i],
             src' = [src EXCEPT ![i] = (src[i] \ {s}) \cup {[s EXCEPT !.primary = TRUE]}],
             row' = IF s.url # None /\ Exists(i) THEN [row EXCEPT ![i].url = s.url] ELSE row
      PROVE  IssuanceInv'
  <2>1. PICK ss : ss = (src[i] \ {s}) \cup {[s EXCEPT !.primary = TRUE]}
    OBVIOUS
  <2>2. GoodSources(src[i], made) /\ made \in Nat /\ MadeGrows
    BY <1>5 DEF IssuanceInv, Sound, SourcesOK, MadeGrows
  <2>3. GoodSources(ss, made') /\ (FileOnce(src[i]) => FileOnce(ss)) /\ ss # {} /\ OnePrimary(ss) /\ Shows(ss, s.url)
    <3>1. LET tt == (src[i] \ {s}) \cup {[s EXCEPT !.primary = TRUE]}
          IN  /\ GoodSources(tt, made) /\ (FileOnce(src[i]) => FileOnce(tt)) /\ tt # {}
              /\ (\A q \in src[i] : ~q.primary) => OnePrimary(tt) /\ Shows(tt, s.url)
      BY <2>2, MarkFits
    <3> QED
      BY <1>5, <1>7, <2>1, <3>1
  <2>4. s.url \in Urls
    BY <2>2, IdsGrow DEF GoodSources
  <2>5. row' = row \/ row' = IF Exists(i) THEN [row EXCEPT ![i].url = s.url] ELSE row
    BY <1>7
  <2>6. /\ RowsOK' /\ \A m \in Issuances \ {i} : row'[m] = row[m]
        /\ \A m \in Issuances : (Exists(m)' <=> Exists(m)) /\ (Included(m)' <=> Included(m))
        /\ Exists(i) => /\ row'[i].url = IF s.url # None THEN s.url ELSE row[i].url
                        /\ row'[i].amend = row[i].amend /\ row'[i].life = row[i].life
    <3>1. CASE s.url # None
      BY <1>7, <2>4, <3>1, UrlWritten
    <3>2. CASE s.url = None
      <4>1. row' = row
        BY <1>7, <3>2
      <4>2. RowsOK'
        BY <4>1 DEF IssuanceInv, Sound, RowsOK
      <4> QED
        BY <3>2, <4>1, <4>2 DEF Exists, Included
    <3> QED
      BY <3>1, <3>2
  <2>7. SourcesOK' /\ ListsOK'
    <3>1. SourcesOK'
      BY <1>7, <2>1, <2>2, <2>3, SourcesStored DEF IssuanceInv, Sound
    <3>2. ListsOK'
      BY <1>5 DEF IssuanceInv, Sound, ListsOK
    <3> QED
      BY <3>1, <3>2
  <2>8. JobsOK'
    BY <1>1, <1>2, <1>5, <2>2, WrittenJobs
  <2>9. \A m \in Issuances : src'[m] = IF m = i THEN ss ELSE src[m]
    BY <1>7, <2>1 DEF IssuanceInv, Sound, SourcesOK
  <2>10. ASSUME regime # "overlap"
         PROVE  CoveredRows'
    <3>1. CoveredRows
      BY <2>10, IsCovered
    <3>2. ASSUME NEW m \in Issuances, Included(m)'
          PROVE  ((\E d \in doms[m] : domain[d] = "active") /\ (src[m] # {} \/ row[m].url # None))'
      <4>1. Included(m) /\ \E d \in doms[m] : domain[d] = "active"
        BY <2>6, <3>1, <3>2 DEF CoveredRows
      <4> QED
        BY <1>5, <2>3, <2>6, <2>9, <3>1, <4>1 DEF CoveredRows
    <3> QED
      BY <3>2 DEF CoveredRows
  <2>11. ASSUME regime = "serial"
         PROVE  /\ TidySources' /\ TidyRelations'
                /\ \A m \in Issuances : Exists(m)' => AgreesBut(m, Idle)'
    <3>1. Phase(j) /\ TidySources /\ TidyRelations
      BY <1>1, <1>2, <2>11, AtWork
    <3>2. Exists(i)
      BY <1>2, <1>4, <3>1 DEF Phase
    <3>3. \A m \in Issuances : Exists(m) =>
            (row[m].amend # None => Exists(row[m].amend)) /\ UrlAgrees(m) /\ AmendAgrees(m) /\ HistAgrees(m)
      BY <1>1, <1>2, <2>11, OtherAgrees
    <3>4. TidySources'
      BY <2>3, <2>6, <2>9, <3>1, <3>2 DEF TidySources
    <3>5. TidyRelations'
      BY <1>5, <2>6, <2>7, <3>1 DEF TidyRelations, ListsOK, Relations
    <3>6. Shows(ss, row'[i].url)
      <4>1. s.url = None => row[i].url = None
        BY <1>7, <3>2, <3>3 DEF UrlAgrees, Shows
      <4> QED
        BY <2>3, <2>6, <3>2, <4>1 DEF Shows
    <3>7. ASSUME NEW m \in Issuances, Exists(m)'
          PROVE  AgreesBut(m, Idle)'
      <4>1. Exists(m) /\ row'[m].amend = row[m].amend /\ row'[m].life = row[m].life
        BY <2>6, <3>7
      <4>2. row[m].amend # None => row[m].amend \in Issuances
        BY <4>1, KnownRow, RowFields DEF IssuanceInv
      <4>3. (row[m].amend # None => Exists(row[m].amend))'
        BY <2>6, <3>3, <4>1, <4>2
      <4>4. UrlAgrees(m)'
        <5>1. CASE m = i
          BY <2>9, <3>6, <5>1 DEF UrlAgrees
        <5>2. CASE m # i
          BY <2>6, <2>9, <3>3, <4>1, <5>2 DEF UrlAgrees
        <5> QED
          BY <5>1, <5>2
      <4>5. AmendAgrees(m)' /\ HistAgrees(m)'
        BY <1>5, <3>3, <4>1 DEF AmendAgrees, HistAgrees
      <4> QED
        BY <4>3, <4>4, <4>5 DEF AgreesBut
    <3> QED
      BY <3>4, <3>5, <3>7
  <2> QED
    BY <1>1, <1>2, <1>5, <2>6, <2>7, <2>8, <2>10, <2>11, StepKeeps
<1> QED
  BY <1>5, <1>6, <1>7

-----------------------------------------------------------------------------
(* Sources of an issuance                                                  *)
LEMMA AddSourceKeeps ==
  ASSUME IssuanceInv, NEW r \in Requests, AddSource(r)
  PROVE  IssuanceInv'
<1>1. PICK j : j = job[r]
  OBVIOUS
<1>2. j # Idle /\ j.op = "add" /\ j.at = "source"
  BY <1>1 DEF AddSource, At
<1>3. JobOK(j)
  BY <1>1, <1>2, AtWork
<1>4. PICK i \in Issuances, l \in Links, p \in BOOLEAN : i = j.i /\ l = j.arg.l /\ p = j.arg.primary
  BY <1>2, <1>3 DEF JobOK
<1>5. PICK t : t = Source(l.kind, l.url, None, p)
  OBVIOUS
<1>6. PICK ss : ss = Beside(src[i], p) \cup {t}
  OBVIOUS
<1>7. /\ src' = [src EXCEPT ![i] = ss] /\ made' = made + 1
      /\ IF p THEN Goto(r, "url") ELSE Leave(r)
      /\ UNCHANGED <<row, blob, doms, domain, rel, hist, regime>>
  <2>1. PICK x : x = job[r].arg
    OBVIOUS
  <2>2. /\ src' = Put(src, job[r].i, (IF x.primary THEN unsetPrimary(src[job[r].i]) ELSE src[job[r].i])
                                      \cup {Source(x.l.kind, x.l.url, None, x.primary)})
        /\ IF x.primary THEN Goto(r, "url") ELSE Leave(r)
    <3>1. \E i0 \in {job[r].i}, y \in {job[r].arg} :
            \E tt \in {Beside(src[i0], y.primary)} :
              /\ src' = Put(src, i0, tt \cup {Source(y.l.kind, y.l.url, None, y.primary)})
              /\ IF y.primary THEN Goto(r, "url") ELSE Leave(r)
      BY Zenon DEF AddSource, Beside
    <3>2. src' = Put(src, job[r].i, Beside(src[job[r].i], x.primary) \cup {Source(x.l.kind, x.l.url, None, x.primary)})
      BY <2>1, <3>1
    <3>3. IF x.primary THEN Goto(r, "url") ELSE Leave(r)
      BY <2>1, <3>1
    <3> QED
      BY <3>2, <3>3 DEF Beside
  <2>3. x.primary = p /\ x.l = l /\ job[r].i = i
    BY <1>1, <1>4, <2>1
  <2>4. src' = Put(src, i, Beside(src[i], p) \cup {Source(l.kind, l.url, None, p)})
    BY <2>2, <2>3, Zenon DEF Beside
  <2>5. IF p THEN Goto(r, "url") ELSE Leave(r)
    BY <2>2, <2>3, Zenon
  <2> QED
    BY <1>5, <1>6, <2>4, <2>5 DEF AddSource, Put
<1>8. PICK k : /\ job' = [job EXCEPT ![r] = k]
               /\ ~p => k = Idle
               /\ p => /\ k # Idle /\ k.at = "url" /\ k.op = j.op /\ k.i = j.i /\ k.row = j.row
                       /\ k.doms = j.doms /\ k.arg = j.arg
  <2>1. CASE ~p
    BY <1>7, <2>1 DEF Leave
  <2>2. CASE p
    BY <1>1, <1>2, <1>7, <2>2, GoesOn
  <2> QED
    BY <2>1, <2>2
<1>9. GoodSources(src[i], made) /\ made \in Nat /\ MadeGrows
  BY <1>7 DEF IssuanceInv, Sound, SourcesOK, MadeGrows
<1>10. GoodSource(t, made + 1) /\ t.id = made + 1 /\ t.url = l.url /\ t.file = None /\ t.primary = p
  <2>1. l.kind \in {e.kind : e \in Links} \cup {"uploaded_copy", "official_external"} /\ l.url \in Urls /\ None \in Files \cup {None}
    BY DEF Urls
  <2>2. LET v == Source(l.kind, l.url, None, p)
        IN  GoodSource(v, made + 1) /\ v.id = made + 1 /\ v.url = l.url /\ v.file = None /\ v.primary = p
    BY <1>9, <2>1, NewSource
  <2> QED
    BY <1>5, <2>2, Zenon
<1>11. /\ GoodSources(ss, made') /\ ss # {}
       /\ FileOnce(src[i]) => FileOnce(ss)
       /\ OnePrimary(src[i]) => OnePrimary(ss)
       /\ p => Shows(ss, l.url)
       /\ ~p => \A u : Shows(src[i], u) => Shows(ss, u)
  <2>1. /\ GoodSources(ss, made + 1) /\ ss # {}
        /\ FileOnce(src[i]) /\ (\A q \in src[i] : q.file = t.file => t.file = None) => FileOnce(ss)
        /\ OnePrimary(src[i]) => OnePrimary(ss)
        /\ p => Shows(ss, t.url)
        /\ ~p => \A u : Shows(src[i], u) => Shows(ss, u)
    <3>1. PICK rr : rr = src[i]
      OBVIOUS
    <3>2. GoodSources(rr, made) /\ ss = Beside(rr, p) \cup {t}
      BY <1>6, <1>9, <3>1
    <3>3. /\ GoodSources(ss, made + 1) /\ ss # {}
          /\ FileOnce(rr) /\ (\A q \in rr : q.file = t.file => t.file = None) => FileOnce(ss)
          /\ OnePrimary(rr) => OnePrimary(ss)
          /\ p => Shows(ss, t.url)
          /\ ~p => \A u : Shows(rr, u) => Shows(ss, u)
      BY <1>9, <1>10, <3>2, AddedFits
    <3> QED
      BY <3>1, <3>3, Zenon
  <2> QED
    BY <1>7, <1>10, <2>1
<1>12. RowsOK' /\ SourcesOK' /\ ListsOK'
  <2>1. RowsOK'
    BY <1>7 DEF IssuanceInv, Sound, RowsOK
  <2>2. SourcesOK'
    BY <1>7, <1>9, <1>11, SourcesStored DEF IssuanceInv, Sound
  <2>3. ListsOK'
    BY <1>7 DEF IssuanceInv, Sound, ListsOK
  <2> QED
    BY <2>1, <2>2, <2>3
<1>13. JobsOK'
  <2>1. Leave(r) \/ \E s : Goto(r, s)
    BY <1>7
  <2> QED
    BY <1>1, <1>2, <1>9, <2>1, WrittenJobs
<1>14. ASSUME regime # "overlap"
       PROVE  CoveredRows' /\ (k # Idle => Prepared(k)')
  <2>1. CoveredRows'
    BY <1>7, <1>11, <1>14, CoveredSources
  <2>2. k # Idle => Prepared(k)'
    BY <1>2, <1>8 DEF Prepared
  <2> QED
    BY <2>1, <2>2
<1>15. ASSUME regime = "serial"
       PROVE  /\ k # Idle => Phase(k)'
              /\ TidySources' /\ TidyRelations'
              /\ \A m \in Issuances : Exists(m)' => AgreesBut(m, k)'
  <2>1. Phase(j) /\ TidySources
    BY <1>1, <1>2, <1>15, AtWork
  <2>2. Exists(i)
    BY <1>2, <1>4, <2>1 DEF Phase
  <2>3. UrlAgrees(i) /\ HistAgrees(i)
    BY <1>1, <1>2, <1>15, <2>2, OtherAgrees
  <2>4. OnePrimary(ss) /\ FileOnce(ss)
    BY <1>11, <2>1 DEF TidySources
  <2>5. Shows(ss, row[i].url) \/ Waits(k, i, {"add"}, {"url"})
    <3>1. CASE p
      BY <1>2, <1>4, <1>8, <3>1 DEF Waits
    <3>2. CASE ~p
      BY <1>11, <2>3, <3>2 DEF UrlAgrees
    <3> QED
      BY <3>1, <3>2
  <2>6. src'[i] = ss
    BY <1>7 DEF IssuanceInv, Sound, SourcesOK
  <2>7. k # Idle => Phase(k)'
    BY <1>2, <1>4, <1>7, <1>8, <1>11, <2>2, <2>6 DEF Phase, Exists
  <2> QED
    BY <1>1, <1>2, <1>4, <1>7, <1>15, <2>2, <2>3, <2>4, <2>5, <2>7, SourcesSettled
<1> QED
  BY <1>1, <1>2, <1>7, <1>8, <1>12, <1>13, <1>14, <1>15, StepKeeps

LEMMA VerifySourceKeeps ==
  ASSUME IssuanceInv, NEW r \in Requests, VerifySource(r)
  PROVE  IssuanceInv'
<1>1. PICK j : j = job[r]
  OBVIOUS
<1>2. j # Idle /\ j.op = "verify" /\ j.at = "source"
  BY <1>1 DEF VerifySource, At
<1>3. JobOK(j)
  BY <1>1, <1>2, AtWork
<1>4. PICK i \in Issuances, s \in {j.arg} : i = j.i /\ s = j.arg /\ GoodSource(s, made)
  BY <1>2, <1>3 DEF JobOK
<1>5. PICK ss : ss = {t \in src[i] : t.id # s.id} \cup {[s EXCEPT !.verified = TRUE]}
  OBVIOUS
<1>6. /\ src' = [src EXCEPT ![i] = ss]
      /\ Leave(r) /\ job' = [job EXCEPT ![r] = Idle]
      /\ UNCHANGED <<row, blob, doms, domain, rel, hist, made, regime>>
  <2>1. src' = Put(src, job[r].i, {t \in src[job[r].i] : t.id # job[r].arg.id} \cup {[job[r].arg EXCEPT !.verified = TRUE]})
    BY Zenon DEF VerifySource
  <2>2. src' = Put(src, i, ss)
    BY <1>1, <1>4, <1>5, <2>1, Zenon
  <2> QED
    BY <2>2 DEF VerifySource, Put, Leave
<1>7. GoodSources(src[i], made) /\ made \in Nat /\ MadeGrows
  BY <1>6 DEF IssuanceInv, Sound, SourcesOK, MadeGrows
<1>8. /\ GoodSources(ss, made') /\ ss # {}
      /\ s \in src[i] => /\ FileOnce(src[i]) => FileOnce(ss)
                         /\ OnePrimary(src[i]) => OnePrimary(ss)
                         /\ \A u : Shows(src[i], u) => Shows(ss, u)
  <2>1. /\ GoodSources(ss, made) /\ ss # {}
        /\ s \in src[i] => /\ FileOnce(src[i]) => FileOnce(ss)
                           /\ OnePrimary(src[i]) => OnePrimary(ss)
                           /\ \A u : Shows(src[i], u) => Shows(ss, u)
    BY <1>4, <1>5, <1>7, VerifiedFits
  <2> QED
    BY <1>6, <2>1
<1>9. RowsOK' /\ SourcesOK' /\ ListsOK'
  <2>1. RowsOK'
    BY <1>6 DEF IssuanceInv, Sound, RowsOK
  <2>2. SourcesOK'
    BY <1>6, <1>7, <1>8, SourcesStored DEF IssuanceInv, Sound
  <2>3. ListsOK'
    BY <1>6 DEF IssuanceInv, Sound, ListsOK
  <2> QED
    BY <2>1, <2>2, <2>3
<1>10. JobsOK'
  BY <1>1, <1>2, <1>6, <1>7, WrittenJobs
<1>11. regime # "overlap" => CoveredRows'
  BY <1>6, <1>8, CoveredSources
<1>12. ASSUME regime = "serial"
       PROVE  /\ TidySources' /\ TidyRelations'
              /\ \A m \in Issuances : Exists(m)' => AgreesBut(m, Idle)'
  <2>1. Phase(j) /\ TidySources
    BY <1>1, <1>2, <1>12, AtWork
  <2>2. s \in src[i] /\ Exists(i)
    BY <1>2, <1>4, <2>1 DEF Phase
  <2>3. UrlAgrees(i) /\ HistAgrees(i)
    BY <1>1, <1>2, <1>12, <2>2, OtherAgrees
  <2>4. OnePrimary(ss) /\ FileOnce(ss) /\ Shows(ss, row[i].url)
    BY <1>8, <2>1, <2>2, <2>3 DEF TidySources, UrlAgrees
  <2> QED
    BY <1>1, <1>2, <1>4, <1>6, <1>12, <2>2, <2>3, <2>4, SourcesSettled
<1> QED
  BY <1>1, <1>2, <1>6, <1>9, <1>10, <1>11, <1>12, StepKeeps

LEMMA AddSourceUrlKeeps ==
  ASSUME IssuanceInv, NEW r \in Requests, AddSourceUrl(r)
  PROVE  IssuanceInv'
<1>1. PICK j : j = job[r]
  OBVIOUS
<1>2. j # Idle /\ j.op = "add" /\ j.at = "url"
  BY <1>1 DEF AddSourceUrl, At
<1>3. JobOK(j)
  BY <1>1, <1>2, AtWork
<1>4. PICK i \in Issuances, u \in Urls : i = j.i /\ u = j.arg.l.url
  BY <1>2, <1>3 DEF JobOK, Urls
<1>5. /\ row' = IF Exists(i) THEN [row EXCEPT ![i].url = u] ELSE row
      /\ Leave(r) /\ job' = [job EXCEPT ![r] = Idle]
      /\ UNCHANGED <<blob, doms, domain, src, rel, hist, made, regime>>
  BY <1>1, <1>4 DEF AddSourceUrl, Leave
<1>6. /\ RowsOK'
      /\ \A m \in Issuances \ {i} : row'[m] = row[m]
      /\ \A m \in Issuances : (Exists(m)' <=> Exists(m)) /\ (Included(m)' <=> Included(m))
      /\ Exists(i) => /\ row'[i].url = u /\ row'[i].amend = row[i].amend /\ row'[i].life = row[i].life
  BY <1>5, UrlWritten
<1>7. SourcesOK' /\ ListsOK'
  <2>1. SourcesOK'
    BY <1>5 DEF IssuanceInv, Sound, SourcesOK
  <2>2. ListsOK'
    BY <1>5 DEF IssuanceInv, Sound, ListsOK
  <2> QED
    BY <2>1, <2>2
<1>8. JobsOK'
  BY <1>1, <1>2, <1>5, WrittenJobs DEF MadeGrows
<1>9. u # None
  BY <1>2, <1>3, <1>4, IssuancesAssumption DEF JobOK
<1>10. ASSUME regime # "overlap"
       PROVE  CoveredRows'
  <2>1. CoveredRows
    BY <1>10, IsCovered
  <2>2. ASSUME NEW m \in Issuances, Included(m)'
        PROVE  ((\E d \in doms[m] : domain[d] = "active") /\ (src[m] # {} \/ row[m].url # None))'
    <3>1. Included(m) /\ Exists(m)
      BY <1>6, <2>2 DEF Included, Exists
    <3> QED
      BY <1>5, <1>6, <1>9, <2>1, <3>1 DEF CoveredRows
  <2> QED
    BY <2>2 DEF CoveredRows
<1>11. ASSUME regime = "serial"
       PROVE  /\ TidySources' /\ TidyRelations'
              /\ \A m \in Issuances : Exists(m)' => AgreesBut(m, Idle)'
  <2>1. Phase(j) /\ TidySources /\ TidyRelations
    BY <1>1, <1>2, <1>11, AtWork
  <2>2. Exists(i) /\ Shows(src[i], u)
    BY <1>2, <1>4, <2>1 DEF Phase
  <2>3. TidySources'
    BY <1>5, <1>6, <2>1 DEF TidySources
  <2>4. TidyRelations'
    BY <1>5, <1>6, <1>7, <2>1 DEF TidyRelations, ListsOK, Relations
  <2>5. ASSUME NEW m \in Issuances, Exists(m)'
        PROVE  AgreesBut(m, Idle)'
    <3>1. Exists(m) /\ row'[m].amend = row[m].amend /\ row'[m].life = row[m].life
      BY <1>6, <2>5
    <3>2. row[m].amend # None => row[m].amend \in Issuances
      BY <3>1, KnownRow, RowFields DEF IssuanceInv
    <3>3. AgreesBut(m, j)
      BY <1>1, <1>2, <1>11, <3>1, AtWork
    <3>4. (row[m].amend # None => Exists(row[m].amend)) /\ AmendAgrees(m) /\ HistAgrees(m)
      BY <1>2, <3>3 DEF AgreesBut, Waits
    <3>5. (row[m].amend # None => Exists(row[m].amend))'
      BY <1>6, <3>1, <3>2, <3>4
    <3>6. UrlAgrees(m)'
      <4>1. CASE m = i
        BY <1>5, <1>6, <2>2, <4>1 DEF UrlAgrees
      <4>2. CASE m # i
        <5>1. UrlAgrees(m)
          BY <1>1, <1>2, <1>4, <1>11, <3>1, <4>2, OtherAgrees
        <5> QED
          BY <1>5, <1>6, <4>2, <5>1 DEF UrlAgrees
      <4> QED
        BY <4>1, <4>2
    <3>7. AmendAgrees(m)' /\ HistAgrees(m)'
      BY <1>5, <3>1, <3>4 DEF AmendAgrees, HistAgrees
    <3> QED
      BY <3>5, <3>6, <3>7 DEF AgreesBut
  <2> QED
    BY <2>3, <2>4, <2>5
<1> QED
  BY <1>1, <1>2, <1>5, <1>6, <1>7, <1>8, <1>10, <1>11, StepKeeps

-----------------------------------------------------------------------------
(* Relationships and their columns                                         *)
LEMMA AmendmentOf ==
  ASSUME NEW x \in Relations, x.type = "amends"
  PROVE  x = Amendment(x.from, x.to) /\ x.from \in Issuances /\ x.to \in Issuances
BY DEF Relations, Amendment

(* The amendment columns of a row are written, as far as there is a row.    *)
LEMMA AmendWritten ==
  ASSUME IssuanceInv, NEW i \in Issuances, NEW t \in Issuances \cup {None}, t # i,
         row' = IF Exists(i) THEN [row EXCEPT ![i].amend = t] ELSE row
  PROVE  /\ RowsOK'
         /\ \A m \in Issuances \ {i} : row'[m] = row[m]
         /\ \A m \in Issuances : (Exists(m)' <=> Exists(m)) /\ (Included(m)' <=> Included(m))
         /\ Exists(i) => /\ row'[i].amend = t /\ row'[i].url = row[i].url /\ row'[i].life = row[i].life
<1>1. CASE Exists(i)
  <2>1. PICK w, z : w = row[i] /\ z = [w EXCEPT !.amend = t]
    OBVIOUS
  <2>2. row' = [row EXCEPT ![i] = z]
    BY <1>1, <2>1
  <2>3. RowOK(i, w)
    BY <1>1, <2>1, KnownRow DEF IssuanceInv
  <2>4. RowOK(i, z) /\ z.dec = w.dec /\ z.url = w.url /\ z.amend = t /\ z.life = w.life
    <3>1. LET y == [w EXCEPT !.amend = t] IN RowOK(i, y) /\ y.dec = w.dec /\ y.url = w.url /\ y.amend = t /\ y.life = w.life
      BY <2>3, AmendedRow
    <3> QED
      BY <2>1, <3>1, Zenon
  <2>5. RowsOK'
    BY <2>2, <2>4, RowStored DEF IssuanceInv, Sound
  <2>6. \A m \in Issuances : row'[m] = IF m = i THEN z ELSE row[m]
    BY <2>2 DEF IssuanceInv, Sound, RowsOK
  <2>7. z # None
    BY <2>4, ExistsRow
  <2> QED
    BY <1>1, <2>1, <2>4, <2>5, <2>6, <2>7 DEF Exists, Included
<1>2. CASE ~Exists(i)
  <2>1. row' = row
    BY <1>2
  <2>2. RowsOK'
    BY <2>1 DEF IssuanceInv, Sound, RowsOK
  <2> QED
    BY <1>2, <2>1, <2>2 DEF Exists, Included
<1> QED
  BY <1>1, <1>2

LEMMA SaveRelationKeeps ==
  ASSUME IssuanceInv, NEW r \in Requests, SaveRelation(r)
  PROVE  IssuanceInv'
<1>1. PICK j : j = job[r]
  OBVIOUS
<1>2. j # Idle /\ j.op \in {"relate", "unrelate"} /\ j.at = "rel"
  BY <1>1 DEF SaveRelation, At
<1>3. JobOK(j)
  BY <1>1, <1>2, AtWork
<1>4. PICK x \in Relations : x = j.arg /\ x.from # x.to /\ j.i = x.from
  BY <1>2, <1>3 DEF JobOK
<1>5. /\ rel' = IF j.op = "relate" THEN rel \cup {x} ELSE rel \ {x}
      /\ IF x.type = "amends" THEN Goto(r, "row") ELSE Leave(r)
      /\ UNCHANGED <<row, blob, doms, domain, src, hist, made, regime>>
  BY <1>1, <1>4 DEF SaveRelation
<1>6. PICK k : /\ job' = [job EXCEPT ![r] = k]
               /\ x.type # "amends" => k = Idle
               /\ x.type = "amends" => /\ k # Idle /\ k.at = "row" /\ k.op = j.op /\ k.i = j.i /\ k.row = j.row
                                       /\ k.doms = j.doms /\ k.arg = j.arg
  <2>1. CASE x.type # "amends"
    BY <1>5, <2>1 DEF Leave
  <2>2. CASE x.type = "amends"
    BY <1>1, <1>2, <1>5, <2>2, GoesOn
  <2> QED
    BY <2>1, <2>2
<1>7. RowsOK' /\ SourcesOK' /\ ListsOK'
  <2>1. RowsOK'
    BY <1>5 DEF IssuanceInv, Sound, RowsOK
  <2>2. SourcesOK'
    BY <1>5 DEF IssuanceInv, Sound, SourcesOK
  <2>3. rel' \in SUBSET Relations /\ \A y \in rel' : y.from # y.to
    BY <1>4, <1>5 DEF IssuanceInv, Sound, ListsOK
  <2>4. ListsOK'
    BY <1>5, <2>3 DEF IssuanceInv, Sound, ListsOK
  <2> QED
    BY <2>1, <2>2, <2>4
<1>8. JobsOK'
  <2>1. Leave(r) \/ \E s : Goto(r, s)
    BY <1>5
  <2> QED
    BY <1>1, <1>2, <1>5, <2>1, WrittenJobs DEF MadeGrows
<1>9. ASSUME regime # "overlap"
      PROVE  CoveredRows' /\ (k # Idle => Prepared(k)')
  <2>1. CoveredRows'
    BY <1>5, <1>9, CoveredStill
  <2>2. k # Idle => Prepared(k)'
    BY <1>2, <1>6 DEF Prepared
  <2> QED
    BY <2>1, <2>2
<1>10. ASSUME regime = "serial"
       PROVE  /\ k # Idle => Phase(k)'
              /\ TidySources' /\ TidyRelations'
              /\ \A m \in Issuances : Exists(m)' => AgreesBut(m, k)'
  <2>1. Phase(j) /\ TidyRelations
    BY <1>1, <1>2, <1>10, AtWork
  <2>2. Exists(x.from) /\ Exists(x.to)
    BY <1>2, <1>4, <2>1 DEF Phase
  <2>3. TidySources'
    BY <1>1, <1>2, <1>5, <1>10, TidyStill
  <2>4. TidyRelations'
    BY <1>5, <2>1, <2>2 DEF TidyRelations, Exists
  <2>5. ASSUME NEW m \in Issuances, Exists(m)'
        PROVE  AgreesBut(m, k)'
    <3>1. Exists(m)
      BY <1>5, <2>5 DEF Exists
    <3>2. (row[m].amend # None => Exists(row[m].amend)) /\ UrlAgrees(m) /\ AmendAgrees(m) /\ HistAgrees(m)
      BY <1>1, <1>2, <1>10, <3>1, OtherAgrees
    <3>3. (row[m].amend # None => Exists(row[m].amend))' /\ UrlAgrees(m)' /\ HistAgrees(m)'
      BY <1>5, <3>2 DEF Exists, UrlAgrees, HistAgrees
    <3>4. AmendAgrees(m)' \/ Waits(k, m, {"relate", "unrelate"}, {"row"})'
      <4>1. CASE x.type = "amends" /\ m = x.from
        BY <1>2, <1>4, <1>6, <4>1 DEF Waits
      <4>2. CASE ~ (x.type = "amends" /\ m = x.from)
        <5>1. \A t \in Issuances : Amendment(m, t) # x
          BY <4>2, AmendmentIs
        <5>2. \A t \in Issuances : Amendment(m, t) \in rel' <=> Amendment(m, t) \in rel
          BY <1>5, <5>1
        <5> QED
          BY <1>5, <3>2, <5>2 DEF AmendAgrees
      <4> QED
        BY <4>1, <4>2
    <3> QED
      BY <3>3, <3>4 DEF AgreesBut
  <2>6. ASSUME k # Idle
        PROVE  Phase(k)'
    <3>1. x.type = "amends" /\ x = Amendment(x.from, x.to) /\ x.from \in Issuances /\ x.to \in Issuances
      BY <1>6, <2>6, AmendmentOf
    <3>2. (Exists(x.from) /\ Exists(x.to))'
      BY <1>5, <2>2 DEF Exists
    <3>3. CASE j.op = "relate"
      <4>1. \A t \in Issuances : Amendment(x.from, t) \notin rel
        BY <1>2, <1>4, <2>1, <3>1, <3>3 DEF Phase
      <4>2. \A t \in Issuances : Amendment(x.from, t) \in rel' <=> t = x.to
        BY <1>5, <3>1, <3>3, <4>1, AmendmentIs
      <4> QED
        BY <1>4, <1>6, <3>1, <3>2, <3>3, <4>2 DEF Phase
    <3>4. CASE j.op = "unrelate"
      <4>1. x \in rel /\ AmendAgrees(x.from)
        BY <1>1, <1>2, <1>4, <1>10, <2>1, <2>2, <3>1, <3>4, OtherAgrees DEF Phase
      <4>2. \A t \in Issuances : Amendment(x.from, t) \notin rel'
        BY <1>5, <3>1, <3>4, <4>1, AmendmentIs DEF AmendAgrees
      <4> QED
        BY <1>4, <1>6, <3>1, <3>2, <3>4, <4>2 DEF Phase
    <3> QED
      BY <1>2, <3>3, <3>4
  <2> QED
    BY <2>3, <2>4, <2>5, <2>6
<1> QED
  BY <1>1, <1>2, <1>5, <1>6, <1>7, <1>8, <1>9, <1>10, StepKeeps

LEMMA RelationRowKeeps ==
  ASSUME IssuanceInv, NEW r \in Requests, RelationRow(r)
  PROVE  IssuanceInv'
<1>1. PICK j : j = job[r]
  OBVIOUS
<1>2. j # Idle /\ j.op \in {"relate", "unrelate"} /\ j.at = "row"
  BY <1>1 DEF RelationRow, At
<1>3. JobOK(j)
  BY <1>1, <1>2, AtWork
<1>4. PICK i \in Issuances, to \in Issuances : i = j.arg.from /\ to = j.arg.to /\ i # to /\ j.i = i
  BY <1>2, <1>3 DEF JobOK, Relations
<1>5. PICK t : t = IF j.op = "relate" THEN to ELSE None
  OBVIOUS
<1>6. /\ row' = IF Exists(i) THEN [row EXCEPT ![i].amend = t] ELSE row
      /\ Leave(r) /\ job' = [job EXCEPT ![r] = Idle]
      /\ UNCHANGED <<blob, doms, domain, src, rel, hist, made, regime>>
  BY <1>1, <1>4, <1>5 DEF RelationRow, Leave
<1>7. t \in Issuances \cup {None} /\ t # i
  BY <1>4, <1>5, IssuancesAssumption
<1>8. /\ RowsOK'
      /\ \A m \in Issuances \ {i} : row'[m] = row[m]
      /\ \A m \in Issuances : (Exists(m)' <=> Exists(m)) /\ (Included(m)' <=> Included(m))
      /\ Exists(i) => /\ row'[i].amend = t /\ row'[i].url = row[i].url /\ row'[i].life = row[i].life
  BY <1>6, <1>7, AmendWritten
<1>9. SourcesOK' /\ ListsOK'
  <2>1. SourcesOK'
    BY <1>6 DEF IssuanceInv, Sound, SourcesOK
  <2>2. ListsOK'
    BY <1>6 DEF IssuanceInv, Sound, ListsOK
  <2> QED
    BY <2>1, <2>2
<1>10. JobsOK'
  BY <1>1, <1>2, <1>6, WrittenJobs DEF MadeGrows
<1>11. ASSUME regime # "overlap"
       PROVE  CoveredRows'
  <2>1. CoveredRows
    BY <1>11, IsCovered
  <2>2. ASSUME NEW m \in Issuances, Included(m)'
        PROVE  ((\E d \in doms[m] : domain[d] = "active") /\ (src[m] # {} \/ row[m].url # None))'
    <3>1. Included(m) /\ Exists(m)
      BY <1>8, <2>2 DEF Included, Exists
    <3> QED
      BY <1>6, <1>8, <2>1, <3>1 DEF CoveredRows
  <2> QED
    BY <2>2 DEF CoveredRows
<1>12. ASSUME regime = "serial"
       PROVE  /\ TidySources' /\ TidyRelations'
              /\ \A m \in Issuances : Exists(m)' => AgreesBut(m, Idle)'
  <2>1. Phase(j) /\ TidySources /\ TidyRelations
    BY <1>1, <1>2, <1>12, AtWork
  <2>2. Exists(i) /\ Exists(to)
    BY <1>2, <1>4, <2>1 DEF Phase
  <2>3. \A o \in Issuances : Amendment(i, o) \in rel <=> t = o
    BY <1>2, <1>4, <1>5, <2>1, IssuancesAssumption DEF Phase
  <2>4. TidySources'
    BY <1>6, <1>8, <2>1 DEF TidySources
  <2>5. TidyRelations'
    BY <1>6, <1>8, <1>9, <2>1 DEF TidyRelations, ListsOK, Relations
  <2>6. ASSUME NEW m \in Issuances, Exists(m)'
        PROVE  AgreesBut(m, Idle)'
    <3>1. Exists(m) /\ row'[m].url = row[m].url /\ row'[m].life = row[m].life
      BY <1>8, <2>6
    <3>2. row[m].amend # None => row[m].amend \in Issuances
      BY <3>1, KnownRow, RowFields DEF IssuanceInv
    <3>3. AgreesBut(m, j)
      BY <1>1, <1>2, <1>12, <3>1, AtWork
    <3>4. (row[m].amend # None => Exists(row[m].amend)) /\ UrlAgrees(m) /\ HistAgrees(m)
      BY <1>2, <3>3 DEF AgreesBut, Waits
    <3>5. UrlAgrees(m)' /\ HistAgrees(m)'
      BY <1>6, <3>1, <3>4 DEF UrlAgrees, HistAgrees
    <3>6. CASE m = i
      <4>1. (row[m].amend # None => Exists(row[m].amend))'
        BY <1>4, <1>5, <1>8, <2>2, <3>6
      <4>2. AmendAgrees(m)'
        BY <1>6, <1>8, <2>2, <2>3, <3>6 DEF AmendAgrees
      <4> QED
        BY <3>5, <4>1, <4>2 DEF AgreesBut
    <3>7. CASE m # i
      <4>1. (row[m].amend # None => Exists(row[m].amend))'
        BY <1>8, <3>2, <3>4, <3>7
      <4>2. AmendAgrees(m)
        BY <1>1, <1>2, <1>4, <1>12, <3>1, <3>7, OtherAgrees
      <4>3. AmendAgrees(m)'
        BY <1>6, <1>8, <3>7, <4>2 DEF AmendAgrees
      <4> QED
        BY <3>5, <4>1, <4>3 DEF AgreesBut
    <3> QED
      BY <3>6, <3>7
  <2> QED
    BY <2>4, <2>5, <2>6
<1> QED
  BY <1>1, <1>2, <1>6, <1>8, <1>9, <1>10, <1>11, <1>12, StepKeeps

-----------------------------------------------------------------------------
(* Domains                                                                 *)
LEMMA SaveDomainKeeps ==
  ASSUME IssuanceInv, NEW r \in Requests, SaveDomain(r)
  PROVE  IssuanceInv'
<1>1. PICK j : j = job[r]
  OBVIOUS
<1>2. j # Idle /\ j.op = "domain" /\ j.at = "save"
  BY <1>1 DEF SaveDomain, At
<1>3. JobOK(j)
  BY <1>1, <1>2, AtWork
<1>4. PICK d \in Domains, s \in {"active", "inactive"} : d = j.i /\ s = j.arg
  BY <1>2, <1>3 DEF JobOK
<1>5. /\ domain' = [domain EXCEPT ![d] = s]
      /\ Leave(r) /\ job' = [job EXCEPT ![r] = Idle]
      /\ UNCHANGED <<row, blob, doms, src, rel, hist, made, regime>>
  BY <1>1, <1>4 DEF SaveDomain, Put, Leave
<1>6. RowsOK' /\ SourcesOK' /\ ListsOK'
  <2>1. RowsOK'
    BY <1>5 DEF IssuanceInv, Sound, RowsOK
  <2>2. SourcesOK'
    BY <1>5 DEF IssuanceInv, Sound, SourcesOK
  <2>3. ListsOK'
    BY <1>5 DEF IssuanceInv, Sound, ListsOK
  <2> QED
    BY <2>1, <2>2, <2>3
<1>7. JobsOK'
  BY <1>1, <1>2, <1>5, WrittenJobs DEF MadeGrows
<1>8. ASSUME regime # "overlap"
      PROVE  CoveredRows'
  <2>1. CoveredRows /\ (s # "active" => mayClose(d))
    BY <1>1, <1>2, <1>4, <1>8, AtWork, IsCovered DEF Prepared
  <2>2. \A o \in Domains : domain'[o] = IF o = d THEN s ELSE domain[o]
    BY <1>5 DEF IssuanceInv, Sound, ListsOK
  <2>3. ASSUME NEW m \in Issuances, Included(m)
        PROVE  \E o \in doms[m] : domain'[o] = "active"
    <3>1. doms[m] \subseteq Domains
      BY DEF IssuanceInv, Sound, ListsOK
    <3>2. PICK o \in doms[m] : domain[o] = "active"
      BY <2>1, <2>3 DEF CoveredRows
    <3>3. CASE s = "active"
      BY <2>2, <3>1, <3>2, <3>3
    <3>4. CASE s # "active" /\ d \in doms[m]
      <4>1. PICK e \in doms[m] \ {d} : domain[e] = "active"
        BY <2>1, <2>3, <3>4 DEF mayClose, Included, Exists
      <4> QED
        BY <2>2, <3>1, <4>1
    <3>5. CASE d \notin doms[m]
      BY <2>2, <3>1, <3>2, <3>5
    <3> QED
      BY <3>3, <3>4, <3>5
  <2> QED
    BY <1>5, <2>1, <2>3 DEF CoveredRows, Included
<1>9. ASSUME regime = "serial"
      PROVE  /\ TidySources' /\ TidyRelations'
             /\ \A m \in Issuances : Exists(m)' => AgreesBut(m, Idle)'
  <2>1. TidySources' /\ TidyRelations'
    BY <1>1, <1>2, <1>5, <1>9, AtWork DEF TidySources, TidyRelations, Exists
  <2>2. ASSUME NEW m \in Issuances, Exists(m)'
        PROVE  AgreesBut(m, Idle)'
    <3>1. Exists(m)
      BY <1>5, <2>2 DEF Exists
    <3>2. (row[m].amend # None => Exists(row[m].amend)) /\ UrlAgrees(m) /\ AmendAgrees(m) /\ HistAgrees(m)
      BY <1>1, <1>2, <1>9, <3>1, OtherAgrees
    <3> QED
      BY <1>5, <3>2 DEF AgreesBut, Exists, UrlAgrees, AmendAgrees, HistAgrees
  <2> QED
    BY <2>1, <2>2
<1> QED
  BY <1>1, <1>2, <1>5, <1>6, <1>7, <1>8, <1>9, StepKeeps

-----------------------------------------------------------------------------
(* Steps that write none of these tables                                   *)
LEMMA QuietKeeps ==
  ASSUME IssuanceInv, UNCHANGED <<row, blob, doms, domain, src, rel, hist, made, job, regime>>
  PROVE  IssuanceInv'
<1>1. \A q \in Requests : job[q] # Idle =>
        /\ JobOK(job[q])
        /\ regime # "overlap" => Prepared(job[q])
        /\ regime = "serial" => Phase(job[q])
  BY AtWork
<1>2. ASSUME NEW q \in Requests, job'[q] # Idle
      PROVE  /\ JobOK(job[q])'
             /\ regime # "overlap" => Prepared(job[q])'
             /\ regime = "serial" => Phase(job[q])'
  <2>1. PICK k : k = job[q] /\ k = job'[q]
    OBVIOUS
  <2>2. JobOK(k) /\ (regime # "overlap" => Prepared(k)) /\ (regime = "serial" => Phase(k))
    BY <1>1, <1>2, <2>1
  <2>3. JobOK(k)'
    BY <2>2 DEF JobOK
  <2>4. regime # "overlap" => Prepared(k)'
    BY <2>2 DEF Prepared, Included, mayClose, Exists
  <2>5. regime = "serial" => Phase(k)'
    BY <2>2 DEF Phase, Exists, HistAgrees
  <2> QED
    BY <2>1, <2>3, <2>4, <2>5
<1>3. RowsOK' /\ ListsOK'
  BY DEF IssuanceInv, Sound, RowsOK, ListsOK
<1>4. SourcesOK'
  BY DEF IssuanceInv, Sound, SourcesOK
<1>5. JobsOK'
  BY <1>2 DEF IssuanceInv, Sound, JobsOK
<1>6. ASSUME regime # "overlap"
      PROVE  Covered'
  <2>1. CoveredRows'
    BY <1>6, CoveredStill
  <2>2. \A q, r \in Requests : job'[q] # Idle /\ job'[r] # Idle => q = r
    BY <1>6 DEF IssuanceInv, Covered
  <2> QED
    BY <1>2, <1>6, <2>1, <2>2 DEF Covered, CoveredRows
<1>7. ASSUME regime = "serial"
      PROVE  Settled'
  <2>1. \A i \in Issuances : (~Exists(i) => src[i] = {})' /\ OnePrimary(src[i])' /\ FileOnce(src[i])'
    BY <1>7 DEF IssuanceInv, Settled, Exists
  <2>2. \A x \in rel' : Exists(x.from)' /\ Exists(x.to)'
    BY <1>7 DEF IssuanceInv, Settled, Exists
  <2>3. \A i \in Issuances : Exists(i)' =>
          /\ (row[i].amend # None => Exists(row[i].amend))'
          /\ UrlAgrees(i)' \/ Busy(i, {"create", "update"}, {"amends", "source"})' \/ Busy(i, {"add"}, {"url"})'
          /\ AmendAgrees(i)' \/ Busy(i, {"create", "update"}, {"amends"})' \/ Busy(i, {"relate", "unrelate"}, {"row"})'
          /\ HistAgrees(i)' \/ Busy(i, {"create", "update", "retire"}, {"amends", "source", "history"})'
    BY <1>7 DEF IssuanceInv, Settled, Exists, UrlAgrees, AmendAgrees, HistAgrees, Busy
  <2> QED
    BY <1>2, <1>7, <2>1, <2>2, <2>3 DEF Settled
<1> QED
  BY <1>3, <1>4, <1>5, <1>6, <1>7 DEF IssuanceInv, Sound

(* A request that dies leaves what it has written.                          *)
LEMMA CrashKeeps ==
  ASSUME IssuanceInv, NEW r \in Requests, Crash(r)
  PROVE  IssuanceInv'
<1>1. /\ job[r] # Idle /\ Leave(r) /\ job' = [job EXCEPT ![r] = Idle] /\ regime = "crash"
      /\ UNCHANGED <<row, blob, doms, domain, src, rel, hist, made, regime>>
  BY DEF Crash, Leave, tables
<1>2. RowsOK' /\ ListsOK'
  BY <1>1 DEF IssuanceInv, Sound, RowsOK, ListsOK
<1>3. SourcesOK'
  BY <1>1 DEF IssuanceInv, Sound, SourcesOK
<1>4. JobsOK'
  BY <1>1, WrittenJobs DEF MadeGrows
<1>5. CoveredRows'
  BY <1>1, CoveredStill
<1> QED
  BY <1>1, <1>2, <1>3, <1>4, <1>5, StepKeeps

-----------------------------------------------------------------------------
(* The invariant                                                           *)
LEMMA StartedSound ==
  ASSUME Init
  PROVE  Sound /\ (\A q \in Requests : job[q] = Idle) /\ \A i \in Issuances : FileOnce(src[i]) /\ OnePrimary(src[i])
<1>1. PICK c \in Starts :
        /\ row = c.row /\ doms = c.doms /\ domain = c.domain /\ src = c.src /\ made = c.made /\ blob = c.blob /\ rel = c.rel
        /\ hist = [i \in Issuances |-> IF c.row[i] = None THEN None ELSE c.row[i].life]
  BY DEF Init
<1>2. InOrder(c)
  BY IssuancesAssumption
<1>3. RowsOK
  <2>1. row \in [Issuances -> Row \cup {None}]
    BY <1>1, <1>2 DEF InOrder
  <2>2. ASSUME NEW i \in Issuances, row[i] # None
        PROVE  RowOK(i, row[i])
    <3>1. row[i] \in Row
      BY <2>1, <2>2
    <3>2. row[i].active <=> row[i].life = "active"
      BY <1>1, <1>2, <2>2 DEF InOrder
    <3>3. row[i].dec = "included" => row[i].life = "active" /\ row[i].appl = "applicable"
      BY <1>1, <1>2, <2>2 DEF InOrder
    <3>4. row[i].amend # i
      BY <1>1, <1>2, <2>2, IssuancesAssumption DEF InOrder
    <3> QED
      BY <3>1, <3>2, <3>3, <3>4 DEF RowOK
  <2> QED
    BY <2>1, <2>2 DEF RowsOK
<1>4. ListsOK
  <2>1. /\ blob \in [Issuances -> Files \cup {None}] /\ doms \in [Issuances -> SUBSET Domains]
        /\ domain \in [Domains -> {"absent", "active", "inactive"}]
    BY <1>1, <1>2 DEF InOrder
  <2>2. rel \in SUBSET Relations /\ \A x \in rel : x.from # x.to
    BY <1>1, <1>2 DEF InOrder
  <2>3. hist = [i \in Issuances |-> hist[i]]
    BY <1>1
  <2> QED
    BY <2>1, <2>2, <2>3 DEF ListsOK
<1>5. /\ made \in Nat /\ src \in [Issuances -> SUBSET SourceRows(made)]
      /\ \A i \in Issuances : \A s, t \in src[i] :
           s.id = t.id \/ (s.primary /\ t.primary) \/ (s.file = t.file /\ s.file # None) => s = t
      /\ \A i \in Issuances : \A s \in src[i] : s.file # None => s.url = None
  BY <1>1, <1>2 DEF InOrder
<1>7. SourcesOK
  <2>1. \A i \in Issuances : GoodSources(src[i], made)
    BY <1>5 DEF GoodSources, GoodSource
  <2> QED
    BY <1>5, <2>1 DEF SourcesOK
<1>8. job = [r \in Requests |-> Idle]
  BY DEF Init
<1>9. JobsOK /\ \A q \in Requests : job[q] = Idle
  BY <1>8 DEF JobsOK
<1> QED
  BY <1>3, <1>4, <1>5, <1>7, <1>9 DEF Sound, FileOnce, OnePrimary

LEMMA Started ==
  ASSUME Init
  PROVE  IssuanceInv
<1>1. PICK c \in Starts :
        /\ row = c.row /\ doms = c.doms /\ domain = c.domain /\ src = c.src /\ blob = c.blob /\ rel = c.rel
        /\ hist = [i \in Issuances |-> IF c.row[i] = None THEN None ELSE c.row[i].life]
  BY DEF Init
<1>2. InOrder(c)
  BY IssuancesAssumption
<1>3. /\ Sound /\ \A q \in Requests : job[q] = Idle
      /\ \A i \in Issuances : FileOnce(src[i]) /\ OnePrimary(src[i])
  BY StartedSound
<1>4. Covered
  <2>1. \A i \in Issuances : Included(i) => (\E d \in doms[i] : domain[d] = "active") /\ (src[i] # {} \/ row[i].url # None)
    BY <1>1, <1>2 DEF InOrder, Included
  <2> QED
    BY <1>3, <2>1 DEF Covered
<1>5. Settled
  <2>1. \A i \in Issuances : ~Exists(i) => src[i] = {}
    BY <1>1, <1>2 DEF InOrder, Exists
  <2>2. \A x \in rel : Exists(x.from) /\ Exists(x.to)
    BY <1>1, <1>2 DEF InOrder, Exists
  <2>3. ASSUME NEW i \in Issuances, Exists(i)
        PROVE  (row[i].amend # None => Exists(row[i].amend)) /\ UrlAgrees(i) /\ AmendAgrees(i) /\ HistAgrees(i)
    <3>1. row[i].amend # None => Exists(row[i].amend)
      BY <1>1, <1>2, <2>3 DEF InOrder, Exists
    <3>2. UrlAgrees(i)
      BY <1>1, <1>2, <2>3 DEF InOrder, Exists, UrlAgrees, Shows
    <3>3. AmendAgrees(i)
      <4>1. \A t \in Issuances : [from |-> i, to |-> t, type |-> "amends"] \in rel <=> row[i].amend = t
        BY <1>1, <1>2, <2>3 DEF InOrder, Exists
      <4> QED
        BY <4>1 DEF AmendAgrees, Amendment
    <3>4. HistAgrees(i)
      BY <1>1, <2>3 DEF Exists, HistAgrees
    <3> QED
      BY <3>1, <3>2, <3>3, <3>4
  <2> QED
    BY <1>3, <2>1, <2>2, <2>3 DEF Settled
<1> QED
  BY <1>3, <1>4, <1>5 DEF IssuanceInv

LEMMA InvKept ==
  IssuanceInv /\ [Next]_vars => IssuanceInv'
<1> SUFFICES ASSUME IssuanceInv, [Next]_vars
             PROVE  IssuanceInv'
  OBVIOUS
<1>1. CASE UNCHANGED vars
  BY <1>1, QuietKeeps DEF vars
<1>2. ASSUME NEW r \in Requests, ReadStep(r)
      PROVE  IssuanceInv'
  BY <1>2, ReadKeeps
<1>3. ASSUME NEW r \in Requests, WriteStep(r)
      PROVE  IssuanceInv'
  BY <1>3, SaveKeeps, EraseKeeps, SyncAmendmentKeeps, SyncSourceKeeps, HistoryKeeps, RecordKeeps, UploadSourceKeeps,
     DetachSourceKeeps, FallbackKeeps, AddSourceKeeps, AddSourceUrlKeeps, VerifySourceKeeps, SaveRelationKeeps,
     RelationRowKeeps, SaveDomainKeeps DEF WriteStep
<1>4. ASSUME NEW r \in Requests, SaveAssessment(r)
      PROVE  IssuanceInv'
  BY <1>4, QuietKeeps DEF SaveAssessment
<1>5. ASSUME NEW r \in Requests, Crash(r)
      PROVE  IssuanceInv'
  BY <1>5, CrashKeeps
<1> QED
  BY <1>1, <1>2, <1>3, <1>4, <1>5 DEF Next

LEMMA InvHolds == Spec => []IssuanceInv
<1>1. Init => IssuanceInv
  BY Started
<1>2. IssuanceInv /\ [Next]_vars => IssuanceInv'
  BY InvKept
<1> QED
  BY <1>1, <1>2, PTL DEF Spec

-----------------------------------------------------------------------------
(* What the register promises                                              *)
LEMMA InvSound ==
  ASSUME IssuanceInv
  PROVE  RegisterHolds
<1>1. IssuancesTypeOK
  <2>1. \A i \in Issuances : row[i] = None \/ row[i] \in Row
    BY DEF IssuanceInv, Sound, RowsOK
  <2>2. \A i \in Issuances : \A s, t \in src[i] : s.id = t.id => s = t
    BY DEF IssuanceInv, Sound, SourcesOK, GoodSources
  <2>3. (\A x \in rel : x.from # x.to) /\ doms \in [Issuances -> SUBSET Domains] /\ domain \in [Domains -> {"absent", "active", "inactive"}]
    BY DEF IssuanceInv, Sound, ListsOK
  <2> QED
    BY <2>1, <2>2, <2>3 DEF IssuancesTypeOK
<1>2. IncludedIsInForce
  <2>1. ASSUME NEW i \in Issuances, Exists(i)
        PROVE  /\ row[i].active = (row[i].life = "active")
               /\ row[i].dec = "included" => row[i].life = "active" /\ row[i].appl = "applicable"
    <3>1. RowOK(i, row[i])
      BY <2>1, KnownRow DEF IssuanceInv
    <3>2. (row[i].active <=> row[i].life = "active") /\ row[i].active \in BOOLEAN
      BY <3>1, RowFields DEF RowOK
    <3>3. row[i].active = (row[i].life = "active")
      BY <3>2, Zenon
    <3> QED
      BY <3>1, <3>3 DEF RowOK
  <2> QED
    BY <2>1 DEF IncludedIsInForce
<1>3. IncludedHasActiveDomain /\ IncludedHasSource
  BY IsCovered DEF CoveredRows, Included, Exists, IncludedHasActiveDomain, IncludedHasSource
<1>4. ASSUME regime = "serial", AtRest, NEW i \in Issuances, Exists(i)
      PROVE  /\ Cardinality({s \in src[i] : s.primary}) <= 1
             /\ row[i].url # None => \E s \in src[i] : s.primary /\ s.url = row[i].url
             /\ {x.to : x \in Amends(i)} = IF row[i].amend = None THEN {} ELSE {row[i].amend}
             /\ row[i].amend # None => Exists(row[i].amend)
             /\ hist[i] = row[i].life
  <2>1. UrlAgrees(i) /\ AmendAgrees(i) /\ HistAgrees(i) /\ (row[i].amend # None => Exists(row[i].amend)) /\ OnePrimary(src[i])
    BY <1>4, RestAgrees DEF IssuanceInv, Settled, AtRest
  <2>2. Cardinality({s \in src[i] : s.primary}) <= 1
    <3> DEFINE P == {s \in src[i] : s.primary}
    <3>1. P = {} \/ \E s : P = {s}
      BY <2>1 DEF OnePrimary
    <3>2. Cardinality(P) = 0 \/ Cardinality(P) = 1
      BY <3>1, FS_EmptySet, FS_Singleton
    <3> QED
      BY <3>2
  <2>3. \A x \in Amends(i) : x = Amendment(i, x.to) /\ x.to \in Issuances
    BY AmendmentOf DEF Amends, IssuanceInv, Sound, ListsOK
  <2>4. \A t \in Issuances : Amendment(i, t) \in Amends(i) <=> row[i].amend = t
    BY <2>1, AmendmentIs DEF AmendAgrees, Amends
  <2>5. row[i].amend \in Issuances \cup {None}
    BY <1>4, KnownRow, RowFields DEF IssuanceInv
  <2>6. {x.to : x \in Amends(i)} = IF row[i].amend = None THEN {} ELSE {row[i].amend}
    <3>1. \A x \in Amends(i) : x.to = row[i].amend /\ row[i].amend # None
      BY <2>3, <2>4, IssuancesAssumption
    <3>2. row[i].amend # None => \E x \in Amends(i) : x.to = row[i].amend
      BY <2>4, <2>5, AmendmentIs
    <3> QED
      BY <3>1, <3>2
  <2> QED
    BY <2>1, <2>2, <2>6 DEF UrlAgrees, Shows, HistAgrees
<1>5. PrimarySourceAgrees /\ AmendmentAgrees /\ HistoryAgrees
  BY <1>4 DEF PrimarySourceAgrees, AmendmentAgrees, HistoryAgrees
<1> QED
  BY <1>1, <1>2, <1>3, <1>5 DEF RegisterHolds

(* In every behaviour and for any catalogue, an included issuance is in     *)
(* force; it has an active domain and a source while requests do not        *)
(* overlap; and between requests that ran to their end the row agrees with  *)
(* its sources, its amendment relationship and its history.                 *)
THEOREM RegisterIsSound == Spec => []RegisterHolds
<1>1. IssuanceInv => RegisterHolds
  BY InvSound
<1> QED
  BY <1>1, InvHolds, PTL

LEMMA NewlyIncluded ==
  ASSUME IssuanceInv, [Next]_vars, NEW i \in Issuances, regime # "overlap", Exists(i)', row'[i].dec = "included",
         Exists(i) => row[i].dec # "included"
  PROVE  \E r \in Requests : At(r, {"decide"}, "save")
<1>1. ~Included(i) /\ Included(i)'
  BY DEF Included, Exists
<1>2. row' # row
  BY <1>1 DEF Included
<1>3. ASSUME NEW r \in Requests, ReadStep(r) \/ SaveAssessment(r) \/ Crash(r)
      PROVE  FALSE
  <2>1. CASE ReadStep(r)
    BY <1>2, <2>1, ReadEnters DEF Enter, tables
  <2>2. CASE SaveAssessment(r) \/ Crash(r)
    BY <1>2, <2>2 DEF SaveAssessment, Crash, tables
  <2> QED
    BY <1>3, <2>1, <2>2
<1>4. PICK r \in Requests : WriteStep(r)
  BY <1>2, <1>3 DEF Next, vars
<1>5. PICK j : j = job[r]
  OBVIOUS
<1>6. CASE SaveRow(r)
  <2>1. j # Idle /\ j.op \in Saving /\ j.at = "save"
    BY <1>5, <1>6 DEF SaveRow, At, Saving
  <2>2. JobOK(j) /\ Prepared(j)
    BY <1>5, <2>1, AtWork
  <2>3. row' = [row EXCEPT ![j.i] = j.row]
    BY <1>2, <1>5, <1>6 DEF SaveRow, Put
  <2>4. j.i = i /\ j.row.dec = "included"
    BY <1>1, <2>3 DEF Included, IssuanceInv, Sound, RowsOK
  <2>5. j.op = "decide"
    BY <1>1, <2>1, <2>2, <2>4 DEF Prepared, Saving
  <2> QED
    BY <1>5, <2>1, <2>5 DEF At
<1>7. CASE Erase(r)
  BY <1>1, <1>7 DEF Erase, Put, Included, IssuanceInv, Sound, RowsOK
<1>8. CASE Fallback(r)
  <2>1. j # Idle /\ j.op = "detach"
    BY <1>5, <1>8 DEF Fallback, At
  <2>2. JobOK(j)
    BY <1>5, <2>1, AtWork
  <2>3. j.i \in Issuances
    BY <2>1, <2>2 DEF JobOK, Saving
  <2>4. PICK s \in src[j.i] : row' = IF s.url # None /\ Exists(j.i) THEN [row EXCEPT ![j.i].url = s.url] ELSE row
    BY <1>2, <1>5, <1>8 DEF Fallback
  <2>5. s.url \in Urls
    BY <2>3, <2>4, IdsGrow DEF IssuanceInv, Sound, SourcesOK, GoodSources
  <2>6. row' = IF Exists(j.i) THEN [row EXCEPT ![j.i].url = s.url] ELSE row
    BY <1>2, <2>4
  <2> QED
    BY <1>1, <2>3, <2>5, <2>6, UrlWritten
<1>9. CASE AddSourceUrl(r)
  <2>1. j # Idle /\ j.op = "add"
    BY <1>5, <1>9 DEF AddSourceUrl, At
  <2>2. JobOK(j)
    BY <1>5, <2>1, AtWork
  <2>3. j.i \in Issuances /\ j.arg.l.url \in Urls
    BY <2>1, <2>2 DEF JobOK, Urls
  <2>4. row' = IF Exists(j.i) THEN [row EXCEPT ![j.i].url = j.arg.l.url] ELSE row
    BY <1>5, <1>9 DEF AddSourceUrl
  <2> QED
    BY <1>1, <2>3, <2>4, UrlWritten
<1>10. CASE RelationRow(r)
  <2>1. j # Idle /\ j.op \in {"relate", "unrelate"}
    BY <1>5, <1>10 DEF RelationRow, At
  <2>2. JobOK(j)
    BY <1>5, <2>1, AtWork
  <2>3. PICK e \in Issuances, to \in Issuances : e = j.arg.from /\ to = j.arg.to /\ e # to
    BY <2>1, <2>2 DEF JobOK, Relations
  <2>4. PICK t \in Issuances \cup {None} : t # e /\ row' = IF Exists(e) THEN [row EXCEPT ![e].amend = t] ELSE row
    BY <1>5, <1>10, <2>3, IssuancesAssumption DEF RelationRow
  <2> QED
    BY <1>1, <2>4, AmendWritten
<1>11. CASE /\ ~SaveRow(r) /\ ~Erase(r) /\ ~Fallback(r) /\ ~AddSourceUrl(r) /\ ~RelationRow(r)
  <2>1. row' = row
    BY <1>4, <1>11 DEF WriteStep, SyncAmendment, SyncSource, History, RecordDecision, UploadSource, DetachSource,
       AddSource, VerifySource, SaveRelation, SaveDomain
  <2> QED
    BY <1>2, <2>1
<1> QED
  BY <1>6, <1>7, <1>8, <1>9, <1>10, <1>11

(* While requests do not overlap, an issuance enters the register only by   *)
(* the save of a recorded review decision, for any number of requests.      *)
THEOREM OnlyDecisionsInclude == Spec => OnlyReviewIncludes
<1>1. IssuanceInv /\ [Next]_vars =>
        [\A i \in Issuances :
           regime # "overlap" /\ Exists(i)' /\ row'[i].dec = "included"
             /\ (Exists(i) => row[i].dec # "included")
           => \E r \in Requests : At(r, {"decide"}, "save")]_vars
  BY NewlyIncluded
<1> QED
  BY <1>1, InvHolds, PTL DEF Spec, OnlyReviewIncludes
=============================================================================
