----------------------------- MODULE ImageProofs ----------------------------
(***************************************************************************)
(* Two properties of Image for every set of names, labels and signatures.  *)
(* TabsFind: every string table of an encoder finds what was added to it,  *)
(* during the whole conversion of a module and of the modules after it.    *)
(* The first part is about one table alone: a string that is in it is      *)
(* found, at an entry with its contents, however often the buffer moved.   *)
(* IndicesAgree: a function has the same index in the wasm file and in the *)
(* encoder, and its code where Get_inst_encoder looks for it.              *)
(***************************************************************************)
EXTENDS Image, SequenceTheorems, WellFoundedInduction, TLAPS

-----------------------------------------------------------------------------
(* One table.                                                              *)

\* A sequence of whatever elements.
IsSeq(s) == \E S : s \in Seq(S)

EntryBytes(t, i) == Bytes(t, t.vec[i].off, t.vec[i].len)

\* The fields of a table.
IsTab(t) == t = [buf |-> t.buf, vec |-> t.vec, cache |-> t.cache, cap |-> t.cap, base |-> t.base]

\* Entries lie in the buffer, which lies in what was allocated for it.
Shape(t) ==
  /\ IsTab(t)
  /\ IsSeq(t.buf) /\ t.vec \in Seq([off : Nat, len : Nat])
  /\ \A i \in 1 .. Len(t.vec) : t.vec[i].off + t.vec[i].len <= Len(t.buf)
  /\ t.cap \in Nat /\ Len(t.buf) <= t.cap /\ t.base \in Nat

\* Every key of the cache points into the present buffer, at the contents of its entry.
KeysGood(t) ==
  \A k \in t.cache :
    /\ k \in [base : Nat, off : Nat, len : Nat, idx : Nat]
    /\ k.base = t.base /\ k.off + k.len <= Len(t.buf) /\ k.idx < Len(t.vec)
    /\ Bytes(t, k.off, k.len) = EntryBytes(t, k.idx + 1)

FoundTo(t, n) == \A i \in 1 .. n : Contains_str(t, EntryBytes(t, i))

\* A buffer that has not been allocated has no keys: the first move rebuilds nothing.
TabInv(t) ==
  /\ Shape(t) /\ KeysGood(t) /\ FoundTo(t, Len(t.vec))
  /\ t.buf = << >> => t.cache = {} /\ t.vec = << >>

-----------------------------------------------------------------------------
\* A set of natural numbers that is not empty has a least element.
LEMMA LeastNat ==
  ASSUME NEW T, T \subseteq Nat, T # {}
  PROVE  \E x \in T : \A y \in T : x <= y
<1>1. PICK x \in T : \A y \in T : ~ (<<y, x>> \in OpToRel(<, Nat))
  BY NatLessThanWellFounded, WFMin
<1>2. \A y \in T : ~ (y < x)
  BY <1>1 DEF OpToRel
<1>3. \A y \in T : x <= y
  BY <1>2
<1> QED
  BY <1>3

\* Two sequences have a common set of elements.
LEMMA CommonSeq ==
  ASSUME NEW s, NEW t, IsSeq(s), IsSeq(t)
  PROVE  \E S : s \in Seq(S) /\ t \in Seq(S)
<1>1. PICK S : s \in Seq(S)
  BY DEF IsSeq
<1>2. PICK T : t \in Seq(T)
  BY DEF IsSeq
<1>3. s \in Seq(S \cup T) /\ t \in Seq(S \cup T)
  BY <1>1, <1>2
<1> QED
  BY <1>3

\* The length of a string put behind another.
LEMMA ConcatIsSeq ==
  ASSUME NEW s, NEW t, IsSeq(s), IsSeq(t)
  PROVE  IsSeq(s \o t) /\ Len(s \o t) = Len(s) + Len(t) /\ Len(s) \in Nat /\ Len(t) \in Nat
<1>1. PICK S : s \in Seq(S) /\ t \in Seq(S)
  BY CommonSeq
<1>2. s \o t \in Seq(S) /\ Len(s \o t) = Len(s) + Len(t)
  BY <1>1, ConcatProperties
<1> QED
  BY <1>1, <1>2 DEF IsSeq

\* Bytes appended to a buffer leave the bytes before them alone.
LEMMA ConcatBytes ==
  ASSUME NEW b, NEW s, IsSeq(b), IsSeq(s), NEW off \in Nat, NEW len \in Nat, off + len <= Len(b)
  PROVE  SubSeq(b \o s, off + 1, off + len) = SubSeq(b, off + 1, off + len)
<1>1. PICK S : b \in Seq(S) /\ s \in Seq(S)
  BY CommonSeq
<1>2. CASE len = 0
  <2>1. off + len < off + 1 /\ off + len \in Int /\ off + 1 \in Int
    BY <1>2
  <2> QED
    BY <2>1, SubSeqEmpty
<1>3. CASE len # 0
  <2>1. Len(b) \in Nat
    BY <1>1
  <2>2. off + 1 \in 1 .. Len(b) /\ off + len \in 1 .. Len(b)
    BY <1>3, <2>1
  <2> QED
    BY <2>2, <1>1, SubSeqOfConcat1
<1> QED
  BY <1>2, <1>3

\* The entries of a table have offsets and lengths, and lie in its buffer.
LEMMA EntryNat ==
  ASSUME NEW t, Shape(t), NEW i \in 1 .. Len(t.vec)
  PROVE  /\ t.vec[i] \in [off : Nat, len : Nat] /\ t.vec[i].off \in Nat /\ t.vec[i].len \in Nat
         /\ t.vec[i].off + t.vec[i].len <= Len(t.buf)
<1>1. t.vec[i] \in [off : Nat, len : Nat]
  BY ElementOfSeq DEF Shape
<1>2. t.vec[i].off \in Nat /\ t.vec[i].len \in Nat
  BY <1>1
<1> QED
  BY <1>1, <1>2 DEF Shape

-----------------------------------------------------------------------------
\* A table with another cache.
LEMMA CacheSet ==
  ASSUME NEW u, NEW c, IsTab(u)
  PROVE  [u EXCEPT !.cache = c]
           = [buf |-> u.buf, vec |-> u.vec, cache |-> c, cap |-> u.cap, base |-> u.base]
<1>1. PICK b, w, h, a, e : b = u.buf /\ w = u.vec /\ h = u.cache /\ a = u.cap /\ e = u.base
  OBVIOUS
<1>2. u = [buf |-> b, vec |-> w, cache |-> h, cap |-> a, base |-> e]
  BY <1>1 DEF IsTab
<1>3. [u EXCEPT !.cache = c] = [buf |-> b, vec |-> w, cache |-> c, cap |-> a, base |-> e]
  BY <1>2
<1> QED
  BY <1>1, <1>3

\* _cache[key] = idx for the entry that was added last (U_STR_TAB::Add).
LEMMA StoredGood ==
  ASSUME NEW u, NEW n \in Nat, Shape(u), Len(u.vec) = n + 1, KeysGood(u), FoundTo(u, n),
         NEW v, v = [u EXCEPT !.cache = Stored(u, n)]
  PROVE  Shape(v) /\ KeysGood(v) /\ FoundTo(v, n + 1)
<1> DEFINE new == Key(u, n)
           s == EntryBytes(u, n + 1)
           old == Hits(u, s)
<1>1. /\ v = [buf |-> u.buf, vec |-> u.vec, cache |-> Stored(u, n), cap |-> u.cap, base |-> u.base]
      /\ v.buf = u.buf /\ v.vec = u.vec /\ v.cache = Stored(u, n) /\ v.cap = u.cap /\ v.base = u.base
  <2>1. v = [buf |-> u.buf, vec |-> u.vec, cache |-> Stored(u, n), cap |-> u.cap, base |-> u.base]
    BY CacheSet DEF Shape
  <2> QED
    BY <2>1
<1>2. Shape(v)
  <2>1. IsTab(v)
    BY <1>1 DEF IsTab
  <2> QED
    BY <2>1, <1>1 DEF Shape
<1>3. u.vec[n + 1] \in [off : Nat, len : Nat] /\ u.vec[n + 1].off + u.vec[n + 1].len <= Len(u.buf)
  BY EntryNat
<1>4. /\ new \in [base : Nat, off : Nat, len : Nat, idx : Nat]
      /\ new.base = u.base /\ new.idx = n /\ new.off + new.len <= Len(u.buf)
      /\ Bytes(u, new.off, new.len) = s
  BY <1>3 DEF Key, EntryBytes, Shape
<1>5. Stored(u, n) = IF old = {} THEN u.cache \cup {new}
                     ELSE (u.cache \ old) \cup {[k EXCEPT !.idx = n] : k \in old}
  BY <1>4 DEF Stored
<1>6. \A k \in v.cache : Bytes(v, k.off, k.len) = Bytes(u, k.off, k.len)
  BY <1>1 DEF Bytes
<1>7. \A i \in 1 .. n + 1 : EntryBytes(v, i) = EntryBytes(u, i)
  BY <1>1 DEF EntryBytes, Bytes
<1>8. \A k \in old : k \in u.cache /\ Bytes(u, k.off, k.len) = s
  BY DEF Hits
<1>9. KeysGood(v)
  <2> SUFFICES ASSUME NEW k \in v.cache
               PROVE  /\ k \in [base : Nat, off : Nat, len : Nat, idx : Nat]
                      /\ k.base = u.base /\ k.off + k.len <= Len(u.buf) /\ k.idx < n + 1
                      /\ Bytes(u, k.off, k.len) = EntryBytes(u, k.idx + 1)
    BY <1>1, <1>6, <1>7 DEF KeysGood
  <2>1. CASE k \in u.cache
    BY <2>1 DEF KeysGood
  <2>2. CASE k = new
    BY <2>2, <1>4
  <2>3. CASE \E j \in old : k = [j EXCEPT !.idx = n]
    <3>1. PICK j \in old : k = [j EXCEPT !.idx = n]
      BY <2>3
    <3>2. j \in [base : Nat, off : Nat, len : Nat, idx : Nat] /\ j.base = u.base
          /\ j.off + j.len <= Len(u.buf) /\ Bytes(u, j.off, j.len) = s
      BY <3>1, <1>8 DEF KeysGood
    <3>3. k \in [base : Nat, off : Nat, len : Nat, idx : Nat] /\ k.base = j.base
          /\ k.off = j.off /\ k.len = j.len /\ k.idx = n
      BY <3>1, <3>2
    <3> QED
      BY <3>2, <3>3
  <2> QED
    BY <2>1, <2>2, <2>3, <1>1, <1>5
<1>10. FoundTo(v, n + 1)
  <2> SUFFICES ASSUME NEW i \in 1 .. n + 1
               PROVE  \E k \in v.cache : k.base = u.base /\ Bytes(u, k.off, k.len) = EntryBytes(u, i)
    BY <1>1, <1>6, <1>7 DEF FoundTo, Contains_str, Hits
  <2>1. CASE old = {} /\ i = n + 1
    BY <2>1, <1>1, <1>4, <1>5
  <2>2. CASE old = {} /\ i # n + 1
    <3>1. Contains_str(u, EntryBytes(u, i))
      BY <2>2 DEF FoundTo
    <3> QED
      BY <2>2, <3>1, <1>1, <1>5 DEF Contains_str, Hits
  <2>3. CASE old # {}
    <3>1. \E k \in u.cache : k.base = u.base /\ Bytes(u, k.off, k.len) = EntryBytes(u, i)
      <4>1. CASE i = n + 1
        BY <4>1, <2>3 DEF Hits
      <4>2. CASE i # n + 1
        BY <4>2 DEF FoundTo, Contains_str, Hits
      <4> QED
        BY <4>1, <4>2
    <3>2. PICK k \in u.cache : k.base = u.base /\ Bytes(u, k.off, k.len) = EntryBytes(u, i)
      BY <3>1
    <3>3. CASE k \notin old
      BY <3>2, <3>3, <2>3, <1>1, <1>5
    <3>4. CASE k \in old
      <4> DEFINE j == [k EXCEPT !.idx = n]
      <4>1. j \in v.cache
        BY <3>4, <2>3, <1>1, <1>5
      <4>2. k \in [base : Nat, off : Nat, len : Nat, idx : Nat]
        BY DEF KeysGood
      <4>3. j.base = k.base /\ j.off = k.off /\ j.len = k.len
        BY <4>2
      <4> QED
        BY <3>2, <4>1, <4>3
    <3> QED
      BY <3>3, <3>4
  <2> QED
    BY <2>1, <2>2, <2>3
<1> QED
  BY <1>2, <1>9, <1>10

\* The cache of a buffer that has moved (U_STR_TAB::Add).
LEMMA RebuiltGood ==
  ASSUME NEW u, NEW n \in Nat, Shape(u), Len(u.vec) = n,
         NEW v, v = [u EXCEPT !.cache = Rebuilt(u)]
  PROVE  Shape(v) /\ KeysGood(v) /\ FoundTo(v, n)
<1> DEFINE keys == {Key(u, i) : i \in 0 .. n - 1}
<1>1. /\ v = [buf |-> u.buf, vec |-> u.vec, cache |-> Rebuilt(u), cap |-> u.cap, base |-> u.base]
      /\ v.buf = u.buf /\ v.vec = u.vec /\ v.cache = Rebuilt(u) /\ v.cap = u.cap /\ v.base = u.base
  <2>1. v = [buf |-> u.buf, vec |-> u.vec, cache |-> Rebuilt(u), cap |-> u.cap, base |-> u.base]
    BY CacheSet DEF Shape
  <2> QED
    BY <2>1
<1>2. Shape(v)
  <2>1. IsTab(v)
    BY <1>1 DEF IsTab
  <2> QED
    BY <2>1, <1>1 DEF Shape
<1>3. \A i \in 0 .. n - 1 : /\ u.vec[i + 1] \in [off : Nat, len : Nat]
                            /\ u.vec[i + 1].off + u.vec[i + 1].len <= Len(u.buf)
  BY EntryNat
<1>4. \A i \in 0 .. n - 1 :
        /\ Key(u, i) \in [base : Nat, off : Nat, len : Nat, idx : Nat]
        /\ Key(u, i).base = u.base /\ Key(u, i).idx = i
        /\ Key(u, i).off + Key(u, i).len <= Len(u.buf)
        /\ Bytes(u, Key(u, i).off, Key(u, i).len) = EntryBytes(u, i + 1)
  BY <1>3 DEF Key, EntryBytes, Shape
<1>5. v.cache = {k \in keys : \A j \in keys :
                   Bytes(u, j.off, j.len) = Bytes(u, k.off, k.len) => k.idx <= j.idx}
  BY <1>1 DEF Rebuilt
<1>6. \A k \in v.cache : Bytes(v, k.off, k.len) = Bytes(u, k.off, k.len)
  BY <1>1 DEF Bytes
<1>7. \A i \in 1 .. n : EntryBytes(v, i) = EntryBytes(u, i)
  BY <1>1 DEF EntryBytes, Bytes
<1>8. KeysGood(v)
  <2> SUFFICES ASSUME NEW k \in v.cache
               PROVE  /\ k \in [base : Nat, off : Nat, len : Nat, idx : Nat]
                      /\ k.base = u.base /\ k.off + k.len <= Len(u.buf) /\ k.idx < n
                      /\ Bytes(u, k.off, k.len) = EntryBytes(u, k.idx + 1)
    BY <1>1, <1>6, <1>7 DEF KeysGood
  <2>1. PICK i \in 0 .. n - 1 : k = Key(u, i)
    BY <1>5
  <2> QED
    BY <2>1, <1>4
<1>9. FoundTo(v, n)
  <2> SUFFICES ASSUME NEW i \in 1 .. n
               PROVE  \E k \in v.cache : k.base = u.base /\ Bytes(u, k.off, k.len) = EntryBytes(u, i)
    BY <1>1, <1>6, <1>7 DEF FoundTo, Contains_str, Hits
  <2> DEFINE same == {j \in 0 .. n - 1 : EntryBytes(u, j + 1) = EntryBytes(u, i)}
  <2>1. i - 1 \in same /\ same \subseteq Nat
    BY DEF same
  <2>2. PICK m \in same : \A j \in same : m <= j
    <3> HIDE DEF same
    <3> QED
      BY <2>1, LeastNat
  <2>3. m \in 0 .. n - 1 /\ EntryBytes(u, m + 1) = EntryBytes(u, i)
    BY <2>2
  <2>4. ASSUME NEW j \in keys, Bytes(u, j.off, j.len) = EntryBytes(u, i) PROVE m <= j.idx
    <3>1. PICK l \in 0 .. n - 1 : j = Key(u, l)
      OBVIOUS
    <3>2. EntryBytes(u, l + 1) = EntryBytes(u, i) /\ j.idx = l
      BY <3>1, <2>4, <1>4
    <3> QED
      BY <3>2, <2>2
  <2>5. Key(u, m) \in v.cache
    BY <2>3, <2>4, <1>4, <1>5
  <2> QED
    BY <2>5, <2>3, <1>4
<1> QED
  BY <1>2, <1>8, <1>9

-----------------------------------------------------------------------------
\* The table between the insertion and the update of the cache.
Inserted(t, s) ==
  LET moves == Len(t.buf) + Len(s) > t.cap
  IN [buf |-> t.buf \o s, vec |-> Append(t.vec, [off |-> Len(t.buf), len |-> Len(s)]),
      cache |-> t.cache, cap |-> IF moves THEN Grown(Len(t.buf), Len(s)) ELSE t.cap,
      base |-> IF moves THEN t.base + 1 ELSE t.base]

\* Add inserts, then brings the cache up to date.
LEMMA AddSteps ==
  ASSUME NEW t, NEW s, Shape(t)
  PROVE  Add(t, s) =
           [Inserted(t, s) EXCEPT !.cache =
              IF Len(t.buf) + Len(s) > t.cap /\ Len(t.buf) > 0 THEN Rebuilt(Inserted(t, s))
              ELSE Stored(Inserted(t, s), Len(t.vec))]
<1>1. PICK b, w, h, a, e : b = t.buf /\ w = t.vec /\ h = t.cache /\ a = t.cap /\ e = t.base
  OBVIOUS
<1>2. t = [buf |-> b, vec |-> w, cache |-> h, cap |-> a, base |-> e]
  BY <1>1 DEF Shape, IsTab
<1>4. [t EXCEPT !.buf = @ \o s, !.vec = Append(@, [off |-> Len(t.buf), len |-> Len(s)]),
                !.cap = IF Len(t.buf) + Len(s) > t.cap THEN Grown(Len(t.buf), Len(s)) ELSE @,
                !.base = IF Len(t.buf) + Len(s) > t.cap THEN @ + 1 ELSE @] = Inserted(t, s)
  <2>1. PICK b2, w2, a2, e2 :
          /\ b2 = t.buf \o s /\ w2 = Append(t.vec, [off |-> Len(t.buf), len |-> Len(s)])
          /\ a2 = (IF Len(t.buf) + Len(s) > t.cap THEN Grown(Len(t.buf), Len(s)) ELSE t.cap)
          /\ e2 = (IF Len(t.buf) + Len(s) > t.cap THEN t.base + 1 ELSE t.base)
    OBVIOUS
  <2>2. Inserted(t, s) = [buf |-> b2, vec |-> w2, cache |-> h, cap |-> a2, base |-> e2]
    BY <2>1, <1>1 DEF Inserted
  <2>3. PICK q : q = [t EXCEPT !.buf = b2, !.vec = w2, !.cap = a2, !.base = e2]
    OBVIOUS
  <2>4. q = [x \in {"buf", "vec", "cache", "cap", "base"} |-> q[x]]
    BY ONLY <2>3, <1>2
  <2>5. q.buf = b2 /\ q.vec = w2 /\ q.cache = h /\ q.cap = a2 /\ q.base = e2
    BY ONLY <2>3, <1>2
  <2>6. q = [buf |-> b2, vec |-> w2, cache |-> h, cap |-> a2, base |-> e2]
    BY ONLY <2>4, <2>5
  <2> QED
    BY ONLY <2>1, <2>2, <2>3, <2>6
<1> QED
  BY <1>4 DEF Add

\* The insertion leaves the entries and keys there are where they were.
LEMMA InsertedShape ==
  ASSUME NEW t, NEW s, TabInv(t), IsSeq(s), NEW u, u = Inserted(t, s)
  PROVE  /\ Shape(u) /\ Len(u.vec) = Len(t.vec) + 1 /\ Len(t.vec) \in Nat
         /\ \A i \in 1 .. Len(t.vec) : EntryBytes(u, i) = EntryBytes(t, i)
         /\ \A k \in t.cache : Bytes(u, k.off, k.len) = Bytes(t, k.off, k.len)
         /\ Len(t.buf) \in Nat /\ Len(s) \in Nat /\ Len(u.buf) = Len(t.buf) + Len(s)
         /\ u.cache = t.cache
         /\ u.base = (IF Len(t.buf) + Len(s) > t.cap THEN t.base + 1 ELSE t.base)
<1>1. /\ u.buf = t.buf \o s /\ u.vec = Append(t.vec, [off |-> Len(t.buf), len |-> Len(s)])
      /\ u.cache = t.cache
      /\ u.cap = (IF Len(t.buf) + Len(s) > t.cap THEN Grown(Len(t.buf), Len(s)) ELSE t.cap)
      /\ u.base = (IF Len(t.buf) + Len(s) > t.cap THEN t.base + 1 ELSE t.base)
      /\ IsTab(u)
  BY DEF Inserted, IsTab
<1>2. /\ IsSeq(u.buf) /\ Len(u.buf) = Len(t.buf) + Len(s)
      /\ Len(t.buf) \in Nat /\ Len(s) \in Nat
  BY <1>1, ConcatIsSeq DEF TabInv, Shape
<1>3. t.vec \in Seq([off : Nat, len : Nat]) /\ Len(t.vec) \in Nat
  BY DEF TabInv, Shape
<1>4. [off |-> Len(t.buf), len |-> Len(s)] \in [off : Nat, len : Nat]
  BY <1>2
<1>5. /\ u.vec \in Seq([off : Nat, len : Nat]) /\ Len(u.vec) = Len(t.vec) + 1
      /\ \A i \in 1 .. Len(t.vec) : u.vec[i] = t.vec[i]
      /\ u.vec[Len(t.vec) + 1] = [off |-> Len(t.buf), len |-> Len(s)]
  BY <1>1, <1>3, <1>4, AppendProperties
<1>6. \A i \in 1 .. Len(t.vec) : t.vec[i].off \in Nat /\ t.vec[i].len \in Nat
                                 /\ t.vec[i].off + t.vec[i].len <= Len(t.buf)
  BY EntryNat DEF TabInv
<1>7. \A i \in 1 .. Len(u.vec) : u.vec[i].off + u.vec[i].len <= Len(u.buf)
  <2> SUFFICES ASSUME NEW i \in 1 .. Len(u.vec) PROVE u.vec[i].off + u.vec[i].len <= Len(u.buf)
    OBVIOUS
  <2>1. CASE i = Len(t.vec) + 1
    BY <2>1, <1>2, <1>5
  <2>2. CASE i # Len(t.vec) + 1
    <3>1. i \in 1 .. Len(t.vec)
      BY <2>2, <1>3, <1>5
    <3>2. u.vec[i] = t.vec[i]
      BY <3>1, <1>5
    <3>3. /\ t.vec[i].off \in Nat /\ t.vec[i].len \in Nat
          /\ t.vec[i].off + t.vec[i].len <= Len(t.buf)
      BY <3>1, <1>6
    <3>4. \A a, b, x, y \in Nat : a + b <= x => a + b <= x + y
      OBVIOUS
    <3>5. t.vec[i].off + t.vec[i].len <= Len(t.buf) + Len(s)
      BY ONLY <3>3, <3>4, <1>2
    <3> QED
      BY ONLY <3>2, <3>5, <1>2
  <2> QED
    BY <2>1, <2>2
<1>8. u.cap \in Nat /\ Len(u.buf) <= u.cap /\ u.base \in Nat
  <2>1. t.cap \in Nat /\ t.base \in Nat
    BY DEF TabInv, Shape
  <2>2. CASE Len(t.buf) + Len(s) > t.cap
    <3>1. u.cap = Grown(Len(t.buf), Len(s)) /\ u.base = t.base + 1
      BY <2>2, <1>1
    <3>2. \A x, y \in Nat : Grown(x, y) \in Nat /\ x + y <= Grown(x, y)
      BY DEF Grown
    <3>3. u.cap \in Nat /\ Len(t.buf) + Len(s) <= u.cap
      BY ONLY <3>1, <3>2, <1>2
    <3> QED
      BY ONLY <3>1, <3>3, <2>1, <1>2
  <2>3. CASE ~(Len(t.buf) + Len(s) > t.cap)
    <3>1. u.cap = t.cap /\ u.base = t.base
      BY <2>3, <1>1
    <3> QED
      BY <3>1, <2>1, <2>3, <1>2
  <2> QED
    BY <2>2, <2>3
<1>9. Shape(u)
  BY <1>1, <1>2, <1>5, <1>7, <1>8 DEF Shape
<1>10. \A off, len \in Nat : off + len <= Len(t.buf) => Bytes(u, off, len) = Bytes(t, off, len)
  <2>1. IsSeq(t.buf)
    BY DEF TabInv, Shape
  <2>2. ASSUME NEW off \in Nat, NEW len \in Nat, off + len <= Len(t.buf)
        PROVE  SubSeq(t.buf \o s, off + 1, off + len) = SubSeq(t.buf, off + 1, off + len)
    BY <2>1, <2>2, ConcatBytes
  <2> QED
    BY <2>2, <1>1 DEF Bytes
<1>11. \A i \in 1 .. Len(t.vec) : EntryBytes(u, i) = EntryBytes(t, i)
  BY <1>5, <1>6, <1>10 DEF EntryBytes
<1>12. \A k \in t.cache : Bytes(u, k.off, k.len) = Bytes(t, k.off, k.len)
  BY <1>10 DEF TabInv, KeysGood
<1> QED
  BY <1>1, <1>2, <1>3, <1>5, <1>9, <1>11, <1>12

\* Adding a string keeps the invariant of the table (U_STR_TAB::Add): the keys still point
\* into the buffer, and every entry, old or new, is found.  The empty string may be
\* added only to a buffer that holds something.
THEOREM AddKeeps ==
  ASSUME NEW t, NEW s, TabInv(t), IsSeq(s), s # << >> \/ t.buf # << >>
  PROVE  TabInv(Add(t, s)) /\ Add(t, s).buf # << >>
<1> DEFINE moves == Len(t.buf) + Len(s) > t.cap
<1>1. PICK u : u = Inserted(t, s)
  OBVIOUS
<1>2. PICK n \in Nat : n = Len(t.vec)
  BY DEF TabInv, Shape
<1>3. PICK v : v = Add(t, s)
  OBVIOUS
<1>4. v = [u EXCEPT !.cache = IF moves /\ Len(t.buf) > 0 THEN Rebuilt(u) ELSE Stored(u, n)]
  BY <1>1, <1>2, <1>3, AddSteps DEF TabInv
<1>5. /\ Shape(u) /\ Len(u.vec) = n + 1
      /\ \A i \in 1 .. n : EntryBytes(u, i) = EntryBytes(t, i)
      /\ \A k \in t.cache : Bytes(u, k.off, k.len) = Bytes(t, k.off, k.len)
      /\ Len(t.buf) \in Nat /\ Len(s) \in Nat /\ Len(u.buf) = Len(t.buf) + Len(s)
      /\ u.cache = t.cache /\ u.base = (IF moves THEN t.base + 1 ELSE t.base)
  BY <1>1, <1>2, InsertedShape
<1>6. Len(u.buf) > 0 /\ u.buf # << >>
  <2>1. Len(t.buf) > 0 \/ Len(s) > 0
    BY DEF TabInv, Shape, IsSeq
  <2> QED
    BY <2>1, <1>5
<1>9. Shape(v) /\ KeysGood(v) /\ FoundTo(v, n + 1)
  <2>1. CASE moves /\ Len(t.buf) > 0
    <3>1. v = [u EXCEPT !.cache = Rebuilt(u)]
      BY <1>4, <2>1
    <3> QED
      BY <3>1, <1>5, n + 1 \in Nat, RebuiltGood
  <2>2. CASE ~(moves /\ Len(t.buf) > 0)
    <3>1. v = [u EXCEPT !.cache = Stored(u, n)]
      BY <1>4, <2>2
    <3>2. KeysGood(u) /\ FoundTo(u, n)
      <4>1. CASE ~moves
        <5>1. KeysGood(u)
          <6> SUFFICES ASSUME NEW k \in u.cache
                       PROVE  /\ k \in [base : Nat, off : Nat, len : Nat, idx : Nat]
                              /\ k.base = u.base /\ k.off + k.len <= Len(u.buf) /\ k.idx < Len(u.vec)
                              /\ Bytes(u, k.off, k.len) = EntryBytes(u, k.idx + 1)
            BY DEF KeysGood
          <6>1. /\ k \in [base : Nat, off : Nat, len : Nat, idx : Nat]
                /\ k.base = t.base /\ k.off + k.len <= Len(t.buf) /\ k.idx < n
                /\ Bytes(t, k.off, k.len) = EntryBytes(t, k.idx + 1)
            BY <1>2, <1>5 DEF TabInv, KeysGood
          <6>2. k.idx + 1 \in 1 .. n
            BY <6>1
          <6>3. Bytes(u, k.off, k.len) = Bytes(t, k.off, k.len)
            BY <1>5
          <6>4. EntryBytes(u, k.idx + 1) = EntryBytes(t, k.idx + 1)
            BY <6>2, <1>5
          <6>5. u.base = t.base
            BY <4>1, <1>5
          <6>6. k.off + k.len <= Len(u.buf) /\ k.idx < Len(u.vec)
            BY <6>1, <1>5
          <6> QED
            BY <6>1, <6>3, <6>4, <6>5, <6>6
        <5>2. FoundTo(u, n)
          <6> SUFFICES ASSUME NEW i \in 1 .. n PROVE Contains_str(u, EntryBytes(u, i))
            BY DEF FoundTo
          <6>1. Contains_str(t, EntryBytes(t, i))
            BY <1>2 DEF TabInv, FoundTo
          <6>2. PICK k \in t.cache : k.base = t.base /\ Bytes(t, k.off, k.len) = EntryBytes(t, i)
            BY <6>1 DEF Contains_str, Hits
          <6>3. k \in u.cache /\ k.base = u.base /\ Bytes(u, k.off, k.len) = EntryBytes(u, i)
            BY <6>2, <4>1, <1>5
          <6> QED
            BY <6>3 DEF Contains_str, Hits
        <5> QED
          BY <5>1, <5>2
      <4>2. CASE moves
        <5>1. Len(t.buf) = 0
          BY <4>2, <2>2, <1>5
        <5>2. t.buf = << >>
          BY <5>1 DEF TabInv, Shape, IsSeq
        <5>3. t.cache = {} /\ n = 0
          BY <5>2, <1>2 DEF TabInv
        <5> QED
          BY <5>3, <1>5 DEF KeysGood, FoundTo
      <4> QED
        BY <4>1, <4>2
    <3> QED
      BY <3>1, <3>2, <1>5, StoredGood
  <2> QED
    BY <2>1, <2>2
<1>10. v.buf = u.buf /\ v.vec = u.vec
  <2>1. \A c : [u EXCEPT !.cache = c].buf = u.buf /\ [u EXCEPT !.cache = c].vec = u.vec
    BY <1>5, CacheSet DEF Shape
  <2> QED
    BY <2>1, <1>4
<1>11. TabInv(v) /\ v.buf # << >>
  BY <1>5, <1>6, <1>9, <1>10 DEF TabInv
<1> QED
  BY <1>11, <1>3

-----------------------------------------------------------------------------
\* A table that was just made.
LEMMA EmptyKeeps == TabInv(Empty)
<1>1. << >> \in Seq({}) /\ << >> \in Seq([off : Nat, len : Nat]) /\ Len(<< >>) = 0
  OBVIOUS
<1>2. IsTab(Empty) /\ Empty.buf = << >> /\ Empty.vec = << >> /\ Empty.cache = {}
      /\ Empty.cap = 0 /\ Empty.base = 0
  BY DEF Empty, IsTab
<1>3. Shape(Empty)
  BY <1>1, <1>2 DEF Shape, IsSeq
<1>4. KeysGood(Empty) /\ FoundTo(Empty, Len(Empty.vec))
  BY <1>1, <1>2 DEF KeysGood, FoundTo
<1> QED
  BY <1>2, <1>3, <1>4 DEF TabInv

\* Request adds what is not there (U_STR_TAB::Request).
LEMMA RequestedKeeps ==
  ASSUME NEW t, NEW s, TabInv(t), IsSeq(s), s # << >> \/ t.buf # << >>
  PROVE  TabInv(Requested(t, s)) /\ (t.buf # << >> => Requested(t, s).buf # << >>)
BY AddKeeps DEF Requested

\* The keys of the cache are pointers into the present buffer, and the lookup of the
\* contents of an entry succeeds and returns an entry with the same contents
\* (U_STR_TAB::Contains_str, Get_idx).
LEMMA TabFinds ==
  ASSUME NEW t, TabInv(t)
  PROVE  /\ \A k \in t.cache : k.base = t.base
         /\ \A i \in DOMAIN t.vec :
              LET s == Bytes(t, t.vec[i].off, t.vec[i].len)
                  e == t.vec[Get_idx(t, s) + 1]
              IN Contains_str(t, s) /\ Bytes(t, e.off, e.len) = s
<1>1. \A k \in t.cache : k.base = t.base
  BY DEF TabInv, KeysGood
<1>2. ASSUME NEW i \in DOMAIN t.vec
      PROVE  /\ Contains_str(t, EntryBytes(t, i))
             /\ EntryBytes(t, Get_idx(t, EntryBytes(t, i)) + 1) = EntryBytes(t, i)
  <2>1. i \in 1 .. Len(t.vec)
    BY DEF TabInv, Shape
  <2>2. Contains_str(t, EntryBytes(t, i))
    BY <2>1 DEF TabInv, FoundTo
  <2>3. PICK k \in Hits(t, EntryBytes(t, i)) : Get_idx(t, EntryBytes(t, i)) = k.idx
    BY <2>2 DEF Contains_str, Get_idx
  <2>4. k \in t.cache /\ Bytes(t, k.off, k.len) = EntryBytes(t, i)
    BY DEF Hits
  <2>5. Bytes(t, k.off, k.len) = EntryBytes(t, k.idx + 1)
    BY <2>4 DEF TabInv, KeysGood
  <2> QED
    BY <2>2, <2>3, <2>4, <2>5
<1> QED
  BY <1>1, <1>2 DEF EntryBytes

-----------------------------------------------------------------------------
(* The encoder and its tables.                                             *)

\* The fields of an encoder and of a code body.
IsEnc(e) ==
  e = [x \in {"mod", "glb", "nn", "types", "funcs", "imps", "code", "glbls", "data"} |-> e[x]]

IsBody(b) == b = [x \in {"insts", "labs", "names"} |-> b[x]]

\* A table of the module: its buffer starts with the empty name.
Started(t) == TabInv(t) /\ t.buf # << >>

BodiesOK(code) ==
  /\ IsSeq(code)
  /\ \A i \in 1 .. Len(code) : IsBody(code[i]) /\ TabInv(code[i].names)

EncOK(e) ==
  /\ IsEnc(e) /\ Started(e.mod) /\ Started(e.glb) /\ Started(e.nn)
  /\ BodiesOK(e.code)

\* Names are not empty, and the types of a declaration are sequences.
NameOK(s) == IsSeq(s) /\ s # << >>

SigOK(sg) == sg[1] \in Seq(0 .. 3) /\ sg[2] \in Seq(0 .. 3)

\* The names and declarations the encoder is called with.
LEMMA Given ==
  /\ \A s \in Names \cup GlobalNames \cup LabelNames : NameOK(s)
  /\ \A d \in Decls : NameOK(d[1]) /\ SigOK(d[2])
<1>1. \A s \in Names \cup GlobalNames \cup LabelNames : s \in Seq(0 .. 255) \ {<< >>}
  BY ImageAssumption
<1>2. \A s \in Names \cup GlobalNames \cup LabelNames : NameOK(s)
  BY <1>1 DEF NameOK, IsSeq
<1>3. \A d \in Decls : d[1] \in Names /\ d[2] \in Seq(0 .. 3) \X Seq(0 .. 3)
  BY ImageAssumption
<1> QED
  BY <1>2, <1>3 DEF SigOK

-----------------------------------------------------------------------------
\* A function on 1 .. n is a sequence.
LEMMA FunctionIsSeq ==
  ASSUME NEW n \in Nat, NEW f, f = [k \in 1 .. n |-> f[k]]
  PROVE  IsSeq(f)
<1>1. f \in [1 .. n -> {f[k] : k \in 1 .. n}]
  OBVIOUS
<1>2. f \in Seq({f[k] : k \in 1 .. n})
  BY <1>1
<1> QED
  BY <1>2 DEF IsSeq

\* The string of a long type (U_TYPE_ENCODER).
LEMMA TypeStringIsSeq ==
  ASSUME NEW rets \in Seq(0 .. 3), NEW params \in Seq(0 .. 3)
  PROVE  NameOK(TypeString(rets, params))
<1> DEFINE tys == rets \o params
           byte(b) == Packed(SubSeq(tys, 4 * b - 3, IF 4 * b < Len(tys) THEN 4 * b ELSE Len(tys)), 8)
           n == (Len(tys) + 3) \div 4
           head == <<Len(params) % 256, Len(params) \div 256>>
<1>1. Len(tys) \in Nat
  BY ConcatProperties
<1>2. n \in Nat
  BY <1>1
<1>3. PICK f : f = [b \in 1 .. n |-> byte(b)]
  OBVIOUS
<1>4. f = [b \in 1 .. n |-> f[b]]
  BY <1>3
<1>5. IsSeq(f)
  BY <1>2, <1>4, FunctionIsSeq
<1>6. head \in Seq(Nat) /\ Len(head) = 2
  OBVIOUS
<1>7. IsSeq(head)
  BY <1>6 DEF IsSeq
<1>8. TypeString(rets, params) = head \o f
  BY <1>3 DEF TypeString
<1>9. IsSeq(head \o f) /\ Len(head \o f) = 2 + Len(f) /\ Len(f) \in Nat
  BY <1>5, <1>6, <1>7, ConcatIsSeq
<1>10. head \o f # << >>
  BY <1>9
<1> QED
  BY <1>8, <1>9, <1>10 DEF NameOK

\* The string of native types (U_ENCODER::Request_native_func); it may be empty.
LEMMA NtypeStringIsSeq ==
  ASSUME NEW rets \in Seq(0 .. 3), NEW params \in Seq(0 .. 3)
  PROVE  IsSeq(Ntype_string(rets, params))
<1>1. ASSUME NEW tys \in Seq(0 .. 3) PROVE IsSeq(Ntypes(tys))
  <2>1. DOMAIN tys = 1 .. Len(tys) /\ Len(tys) \in Nat
    OBVIOUS
  <2>2. Ntypes(tys) = [k \in 1 .. Len(tys) |-> Ntypes(tys)[k]]
    BY <2>1 DEF Ntypes
  <2> QED
    BY <2>1, <2>2, FunctionIsSeq
<1> QED
  BY <1>1, ConcatIsSeq DEF Ntype_string

-----------------------------------------------------------------------------
\* Add_type may add a string to the table of non-null strings.
LEMMA AddTypeKeeps ==
  ASSUME NEW e, EncOK(e), NEW rets \in Seq(0 .. 3), NEW params \in Seq(0 .. 3)
  PROVE  EncOK(Add_type(e, rets, params))
<1>1. PICK q : q = Add_type(e, rets, params)
  OBVIOUS
<1>2. IsEnc(q) /\ q.mod = e.mod /\ q.glb = e.glb /\ q.code = e.code
      /\ q.nn = TypeStrings(e, rets, params)
  BY <1>1 DEF Add_type, EncOK, IsEnc
<1>3. Started(TypeStrings(e, rets, params))
  BY TypeStringIsSeq, RequestedKeeps DEF TypeStrings, EncOK, Started, NameOK
<1>4. EncOK(q)
  BY <1>2, <1>3 DEF EncOK
<1> QED
  BY <1>1, <1>4

\* A function that is not there is added under its name (U_ENCODER::Inner_request_func).
LEMMA InnerKeeps ==
  ASSUME NEW e, EncOK(e), NEW name, NameOK(name), NEW type, NEW extern
  PROVE  EncOK(Inner_request_func(e, name, type, extern))
<1>1. CASE Contained(e, name)
  BY <1>1 DEF Inner_request_func
<1>2. CASE ~Contained(e, name)
  <2>1. PICK q : q = Inner_request_func(e, name, type, extern)
    OBVIOUS
  <2>2. IsEnc(q) /\ q.mod = Add(e.mod, name) /\ q.glb = e.glb /\ q.code = e.code /\ q.nn = e.nn
    BY <1>2, <2>1 DEF Inner_request_func, EncOK, IsEnc
  <2>3. Started(Add(e.mod, name))
    BY AddKeeps DEF EncOK, Started, NameOK
  <2>4. EncOK(q)
    BY <2>2, <2>3 DEF EncOK
  <2> QED
    BY <2>1, <2>4
<1> QED
  BY <1>1, <1>2

\* Request_native_func adds the name and the two type strings.
LEMMA RequestNativeKeeps ==
  ASSUME NEW e, EncOK(e), NEW name, NameOK(name), NEW type,
         NEW rets \in Seq(0 .. 3), NEW params \in Seq(0 .. 3)
  PROVE  EncOK(Request_native_func(e, name, type, rets, params))
<1>1. PICK f : f = Inner_request_func(e, name, type, TRUE)
  OBVIOUS
<1>2. EncOK(f)
  BY <1>1, InnerKeeps
<1>3. CASE Contained(e, name)
  BY <1>1, <1>2, <1>3 DEF Request_native_func
<1>4. CASE ~Contained(e, name)
  <2>1. PICK q : q = Request_native_func(e, name, type, rets, params)
    OBVIOUS
  <2>2. IsEnc(q) /\ q.mod = f.mod /\ q.glb = f.glb /\ q.code = f.code
        /\ q.nn = Requested(f.nn, Ntype_string(rets, params))
    BY <1>1, <1>2, <1>4, <2>1 DEF Request_native_func, EncOK, IsEnc
  <2>3. Started(Requested(f.nn, Ntype_string(rets, params)))
    BY <1>2, NtypeStringIsSeq, RequestedKeeps DEF EncOK, Started
  <2>4. EncOK(q)
    BY <1>2, <2>2, <2>3 DEF EncOK
  <2> QED
    BY <2>1, <2>4
<1> QED
  BY <1>3, <1>4

\* A code body that was just made has an empty table of labels (U_ENCODER::Start_func).
LEMMA StartFuncKeeps ==
  ASSUME NEW e, EncOK(e), NEW idx
  PROVE  EncOK(Start_func(e, idx))
<1>1. PICK q : q = Start_func(e, idx)
  OBVIOUS
<1>2. IsEnc(q) /\ q.mod = e.mod /\ q.glb = e.glb /\ q.nn = e.nn /\ q.code = Append(e.code, Body)
  BY <1>1 DEF Start_func, EncOK, IsEnc
<1>3. IsBody(Body) /\ TabInv(Body.names)
  BY EmptyKeeps DEF Body, IsBody
<1>4. PICK S : e.code \in Seq(S)
  BY DEF EncOK, BodiesOK, IsSeq
<1>5. e.code \in Seq(S \cup {Body}) /\ Body \in S \cup {Body} /\ Len(e.code) \in Nat
  BY <1>4
<1>6. /\ q.code \in Seq(S \cup {Body}) /\ Len(q.code) = Len(e.code) + 1
      /\ \A i \in 1 .. Len(e.code) : q.code[i] = e.code[i]
      /\ q.code[Len(e.code) + 1] = Body
  BY <1>2, <1>5, AppendProperties
<1>7. \A i \in 1 .. Len(q.code) : i \in 1 .. Len(e.code) \/ i = Len(e.code) + 1
  BY <1>5, <1>6
<1>8. BodiesOK(q.code)
  BY <1>3, <1>6, <1>7 DEF BodiesOK, EncOK, IsSeq
<1>9. EncOK(q)
  BY <1>2, <1>8 DEF EncOK
<1> QED
  BY <1>1, <1>9

\* A step on one code body.
LEMMA BodyStepKeeps ==
  ASSUME NEW e, EncOK(e), NEW c, NEW b,
         c \in 1 .. Len(e.code) => IsBody(b) /\ TabInv(b.names),
         NEW q, q = [e EXCEPT !.code[c] = b]
  PROVE  EncOK(q)
<1>1. IsEnc(q) /\ q.mod = e.mod /\ q.glb = e.glb /\ q.nn = e.nn
      /\ q.code = [e.code EXCEPT ![c] = b]
  BY DEF EncOK, IsEnc
<1>2. PICK S : e.code \in Seq(S)
  BY DEF EncOK, BodiesOK, IsSeq
<1>3. Len(e.code) \in Nat /\ e.code \in [1 .. Len(e.code) -> S]
  BY <1>2
<1>4. q.code \in [1 .. Len(e.code) -> S \cup {b}]
  BY <1>1, <1>3
<1>5. q.code \in Seq(S \cup {b}) /\ Len(q.code) = Len(e.code)
  BY <1>3, <1>4
<1>6. \A i \in 1 .. Len(e.code) : q.code[i] = IF i = c THEN b ELSE e.code[i]
  BY <1>1, <1>3
<1>7. BodiesOK(q.code)
  BY <1>5, <1>6 DEF BodiesOK, EncOK, IsSeq
<1> QED
  BY <1>1, <1>7 DEF EncOK

\* A label that is not there is added (U_CODE_BODY::Request_label).
LEMMA RequestLabelKeeps ==
  ASSUME NEW b, IsBody(b), TabInv(b.names), NEW l, NameOK(l)
  PROVE  IsBody(Request_label(b, l)) /\ TabInv(Request_label(b, l).names)
<1>1. CASE Contains_str(b.names, l)
  BY <1>1 DEF Request_label
<1>2. CASE ~Contains_str(b.names, l)
  <2>1. PICK q : q = Request_label(b, l)
    OBVIOUS
  <2>2. IsBody(q) /\ q.names = Add(b.names, l)
    BY <1>2, <2>1 DEF Request_label, IsBody
  <2>3. TabInv(Add(b.names, l))
    BY AddKeeps DEF NameOK
  <2> QED
    BY <2>1, <2>2, <2>3
<1> QED
  BY <1>1, <1>2

\* Set_label requests the name it defines.
LEMMA SetLabelKeeps ==
  ASSUME NEW b, IsBody(b), TabInv(b.names), NEW l, NameOK(l)
  PROVE  IsBody(Set_label(b, l)) /\ TabInv(Set_label(b, l).names)
<1>1. PICK c : c = Request_label(b, l)
  OBVIOUS
<1>2. IsBody(c) /\ TabInv(c.names)
  BY <1>1, RequestLabelKeeps
<1>3. PICK q : q = Set_label(b, l)
  OBVIOUS
<1>4. IsBody(q) /\ q.names = c.names
  BY <1>1, <1>2, <1>3 DEF Set_label, IsBody
<1> QED
  BY <1>2, <1>3, <1>4

\* The tables of a new encoder hold the empty name.
LEMMA NewEncoderOK == EncOK(NewEncoder)
<1>1. << 0 >> \in Seq(Nat) /\ << 0 >> # << >>
  OBVIOUS
<1>2. Started(Add(Empty, << 0 >>))
  BY <1>1, EmptyKeeps, AddKeeps DEF Started, IsSeq
<1>3. PICK q : q = NewEncoder
  OBVIOUS
<1>4. IsEnc(q) /\ q.mod = Add(Empty, << 0 >>) /\ q.glb = Add(Empty, << 0 >>)
      /\ q.nn = Add(Empty, << 0 >>) /\ q.code = << >>
  BY <1>3 DEF NewEncoder, IsEnc
<1>5. << >> \in Seq({}) /\ Len(<< >>) = 0
  OBVIOUS
<1>6. BodiesOK(<< >>)
  BY <1>5 DEF BodiesOK, IsSeq
<1>7. EncOK(q)
  BY <1>2, <1>4, <1>6 DEF EncOK
<1> QED
  BY <1>3, <1>7

-----------------------------------------------------------------------------
\* Every step leaves the tables of the encoder in order.
LEMMA StepTabs ==
  ASSUME EncOK(enc), [Next]_vars
  PROVE  EncOK(enc')
<1>1. CASE UNCHANGED enc
  BY <1>1
<1>2. ASSUME NEW d \in Decls, Import_func(d[1], d[2])
      PROVE  EncOK(enc')
  <2>1. NameOK(d[1]) /\ d[2][1] \in Seq(0 .. 3) /\ d[2][2] \in Seq(0 .. 3)
    BY Given DEF SigOK
  <2>2. PICK e : e = Add_type(enc, d[2][1], d[2][2])
    OBVIOUS
  <2>3. EncOK(e)
    BY <2>1, <2>2, AddTypeKeeps
  <2>4. CASE enc' = enc
    BY <2>4
  <2>5. CASE enc' = Request_native_func(e, d[1], Type_idx(e, d[2][1], d[2][2]), d[2][1], d[2][2])
    BY <2>1, <2>3, <2>5, RequestNativeKeeps
  <2> QED
    BY <1>2, <2>2, <2>4, <2>5 DEF Import_func, Abort
<1>3. ASSUME NEW d \in Decls, Create_ubh_code(d[1], d[2])
      PROVE  EncOK(enc')
  <2>1. NameOK(d[1]) /\ d[2][1] \in Seq(0 .. 3) /\ d[2][2] \in Seq(0 .. 3)
    BY Given DEF SigOK
  <2>2. PICK e : e = Add_type(enc, d[2][1], d[2][2])
    OBVIOUS
  <2>3. EncOK(e)
    BY <2>1, <2>2, AddTypeKeeps
  <2>4. PICK f : f = Inner_request_func(e, d[1], Type_idx(e, d[2][1], d[2][2]), FALSE)
    OBVIOUS
  <2>5. EncOK(f)
    BY <2>1, <2>3, <2>4, InnerKeeps
  <2>6. CASE enc' = enc
    BY <2>6
  <2>7. CASE enc' = Start_func(f, Func_idx(e, f, d[1]))
    BY <2>5, <2>7, StartFuncKeeps
  <2> QED
    BY <1>3, <2>2, <2>4, <2>6, <2>7 DEF Create_ubh_code, Abort
<1>4. ASSUME NEW nm \in GlobalNames, Import_global(nm)
      PROVE  EncOK(enc')
  <2>1. NameOK(nm)
    BY Given
  <2>2. CASE enc' = enc
    BY <2>2
  <2>3. CASE enc' = [enc EXCEPT !.glb = Requested(enc.glb, nm)]
    <3>1. IsEnc(enc') /\ enc'.mod = enc.mod /\ enc'.nn = enc.nn /\ enc'.code = enc.code
          /\ enc'.glb = Requested(enc.glb, nm)
      BY <2>3 DEF EncOK, IsEnc
    <3>2. Started(Requested(enc.glb, nm))
      BY <2>1, RequestedKeeps DEF EncOK, Started, NameOK
    <3> QED
      BY <3>1, <3>2 DEF EncOK
  <2> QED
    BY <1>4, <2>2, <2>3 DEF Import_global, Abort
<1>5. ASSUME NEW nm \in GlobalNames, NEW v \in Inits, Add_global(nm, v)
      PROVE  EncOK(enc')
  <2>1. NameOK(nm)
    BY Given
  <2>2. CASE enc' = enc
    BY <2>2
  <2>3. CASE enc' = [enc EXCEPT !.glb = Add(@, nm), !.glbls = Append(@, v % Word)]
    <3>1. IsEnc(enc') /\ enc'.mod = enc.mod /\ enc'.nn = enc.nn /\ enc'.code = enc.code
          /\ enc'.glb = Add(enc.glb, nm)
      BY <2>3 DEF EncOK, IsEnc
    <3>2. Started(Add(enc.glb, nm))
      BY <2>1, AddKeeps DEF EncOK, Started, NameOK
    <3> QED
      BY <3>1, <3>2 DEF EncOK
  <2> QED
    BY <1>5, <2>2, <2>3 DEF Add_global, Abort
<1>6. ASSUME NEW n \in DataSizes, Static_data(n)
      PROVE  EncOK(enc')
  <2>1. IsEnc(enc') /\ enc'.mod = enc.mod /\ enc'.nn = enc.nn /\ enc'.code = enc.code
        /\ enc'.glb = enc.glb
    BY <1>6 DEF Static_data, EncOK, IsEnc
  <2> QED
    BY <2>1 DEF EncOK
<1>7. ASSUME NEW w \in {1, 2}, Add_inst(Words(w))
      PROVE  EncOK(enc')
  <2>1. enc' = [enc EXCEPT !.code[Cur].insts = @ \o Words(w)]
    BY <1>7 DEF Add_inst
  <2>2. PICK b : b = [enc.code[Cur] EXCEPT !.insts = @ \o Words(w)]
    OBVIOUS
  <2>3. enc' = [enc EXCEPT !.code[Cur] = b]
    BY <2>1, <2>2
  <2>4. ASSUME Cur \in 1 .. Len(enc.code)
        PROVE  IsBody(b) /\ TabInv(b.names)
    <3>1. IsBody(enc.code[Cur]) /\ TabInv(enc.code[Cur].names)
      BY <2>4 DEF EncOK, BodiesOK
    <3>2. IsBody(b) /\ b.names = enc.code[Cur].names
      BY <2>2, <3>1 DEF IsBody
    <3> QED
      BY <3>1, <3>2
  <2> QED
    BY <2>3, <2>4, BodyStepKeeps
<1>8. ASSUME NEW l \in LabelNames, Request(l)
      PROVE  EncOK(enc')
  <2>1. NameOK(l)
    BY Given
  <2>2. enc' = [enc EXCEPT !.code[Cur] = Request_label(enc.code[Cur], l)]
    BY <1>8 DEF Request
  <2>3. ASSUME Cur \in 1 .. Len(enc.code)
        PROVE  IsBody(Request_label(enc.code[Cur], l)) /\ TabInv(Request_label(enc.code[Cur], l).names)
    BY <2>1, <2>3, RequestLabelKeeps DEF EncOK, BodiesOK
  <2> QED
    BY <2>2, <2>3, BodyStepKeeps
<1>9. ASSUME NEW l \in LabelNames, Add_label(l)
      PROVE  EncOK(enc')
  <2>1. NameOK(l)
    BY Given
  <2>2. enc' = [enc EXCEPT !.code[Cur] = Set_label(enc.code[Cur], l)]
    BY <1>9 DEF Add_label
  <2>3. ASSUME Cur \in 1 .. Len(enc.code)
        PROVE  IsBody(Set_label(enc.code[Cur], l)) /\ TabInv(Set_label(enc.code[Cur], l).names)
    BY <2>1, <2>3, SetLabelKeeps DEF EncOK, BodiesOK
  <2> QED
    BY <2>2, <2>3, BodyStepKeeps
<1>10. CASE Write
  BY <1>10, NewEncoderOK DEF Write
<1>11. CASE End_func
  BY <1>1, <1>11 DEF End_func
<1>12. ASSUME NEW n \in DOMAIN disk, NEW so \in Objects, Link(n, so)
       PROVE  EncOK(enc')
  BY <1>1, <1>12 DEF Link
<1>13. ASSUME NEW n \in DOMAIN disk, NEW b \in Builds, Load_from_file(b, n) \/ UVM_load(b, n)
       PROVE  EncOK(enc')
  BY <1>1, <1>13 DEF Load_from_file, UVM_load, Load
<1>14. CASE UNCHANGED vars
  BY <1>1, <1>14 DEF vars
<1> QED
  BY <1>2, <1>3, <1>4, <1>5, <1>6, <1>7, <1>8, <1>9, <1>10, <1>11, <1>12, <1>13, <1>14 DEF Next

EncInv == EncOK(enc)

\* The tables of the encoder are in order in every reachable state.
THEOREM EncoderInvariant == Spec => []EncInv
<1>1. Init => EncInv
  BY NewEncoderOK DEF Init, EncInv
<1>2. EncInv /\ [Next]_vars => EncInv'
  BY StepTabs DEF EncInv
<1> QED
  BY <1>1, <1>2, PTL DEF Spec

\* Whatever names, labels and types a module has and however often a buffer has moved,
\* no cache of the encoder holds a pointer into an old buffer, and every string that was
\* added is found, at an entry with its contents (U_STR_TAB::Add, Get_idx).
THEOREM StringsFound == Spec => []TabsFind
<1>1. EncInv => TabsFind
  <2> SUFFICES ASSUME EncOK(enc), NEW t \in Tabs PROVE TabInv(t)
    BY TabFinds DEF TabsFind, EncInv
  <2>1. CASE t \in {enc.mod, enc.glb, enc.nn}
    BY <2>1 DEF EncOK, Started
  <2>2. CASE t \in {enc.code[i].names : i \in DOMAIN enc.code}
    <3>1. PICK i \in DOMAIN enc.code : t = enc.code[i].names
      BY <2>2
    <3>2. DOMAIN enc.code = 1 .. Len(enc.code)
      BY DEF EncOK, BodiesOK, IsSeq
    <3> QED
      BY <3>1, <3>2 DEF EncOK, BodiesOK
  <2> QED
    BY <2>1, <2>2 DEF Tabs
<1> QED
  BY <1>1, EncoderInvariant, PTL

-----------------------------------------------------------------------------
(* Indices of functions.                                                   *)

\* At an offset stand len bytes of which only the last is null,
NullEnds(b, off, len, s) ==
  /\ IsSeq(b) /\ off \in Nat /\ len \in Nat \ {0} /\ off + len <= Len(b)
  /\ s = SubSeq(b, off + 1, off + len) /\ \A k \in 1 .. len : (s[k] = 0) <=> (k = len)

\* and so they are the string at that offset.
LEMMA CstrIs ==
  ASSUME NEW b, NEW off, NEW len, NEW s, NullEnds(b, off, len, s)
  PROVE  Cstr(b, off) = s
<1> USE DEF NullEnds
<1>1. PICK S : b \in Seq(S)
  BY DEF IsSeq
<1>2. Len(b) \in Nat /\ off + 1 \in 1 .. Len(b) /\ off + len \in 1 .. Len(b) /\ off + len >= off + 1
  BY <1>1
<1>3. \A k \in 1 .. len : s[k] = b[off + k]
  <2>1. \A k \in 1 .. (off + len) - (off + 1) + 1 : SubSeq(b, off + 1, off + len)[k] = b[off + 1 + k - 1]
    BY <1>1, <1>2, SubSeqProperties
  <2>2. \A k \in 1 .. len : k \in 1 .. (off + len) - (off + 1) + 1 /\ off + 1 + k - 1 = off + k
    BY <1>2
  <2> QED
    BY <2>1, <2>2
<1>4. \A k \in 1 .. len : (b[off + k] = 0) <=> (k = len)
  BY <1>3
<1> DEFINE Nul(n) == b[n + 1] = 0 /\ \A k \in off .. n - 1 : b[k + 1] # 0
<1>5. PICK z : z = off + len - 1 /\ z \in off .. Len(b) - 1 /\ z + 1 = off + len
  BY <1>2
<1>6. Nul(z)
  <2>1. b[z + 1] = 0
    BY <1>4, <1>5
  <2>2. ASSUME NEW k \in off .. z - 1 PROVE b[k + 1] # 0
    <3>1. PICK j \in 1 .. len : j = k - off + 1 /\ off + j = k + 1 /\ j # len
      BY <1>2, <1>5
    <3> QED
      BY <3>1, <1>4
  <2> QED
    BY <2>1, <2>2
<1>7. ASSUME NEW n \in off .. Len(b) - 1, Nul(n) PROVE n = z
  <2>1. CASE n < z
    <3>1. PICK j \in 1 .. len : j = n - off + 1 /\ off + j = n + 1 /\ j # len
      BY <1>2, <1>5, <2>1
    <3> QED
      BY <3>1, <1>4, <1>7
  <2>2. CASE n > z
    <3>1. z \in off .. n - 1
      BY <1>2, <1>5, <2>2
    <3> QED
      BY <3>1, <1>6, <1>7
  <2> QED
    BY <2>1, <2>2, <1>2, <1>5
<1>8. (CHOOSE n \in off .. Len(b) - 1 : Nul(n)) = z
  BY <1>5, <1>6, <1>7
<1> QED
  BY <1>5, <1>8 DEF Cstr

\* What Add does to entries: the new one is the last.
LEMMA AddEntries ==
  ASSUME NEW t, NEW s, TabInv(t), IsSeq(s), s # << >>, NEW u, u = Add(t, s), NEW n \in Nat, n = Len(t.vec)
  PROVE  /\ Len(u.vec) = n + 1 /\ EntryBytes(u, n + 1) = s /\ u.vec[n + 1].off = Len(t.buf)
         /\ Len(u.buf) = Len(t.buf) + Len(s) /\ Len(s) \in Nat \ {0} /\ Len(t.buf) \in Nat
         /\ \A i \in 1 .. n : EntryBytes(u, i) = EntryBytes(t, i) /\ u.vec[i] = t.vec[i]
<1>1. PICK v : v = Inserted(t, s)
  OBVIOUS
<1>2. /\ Len(v.vec) = n + 1 /\ Len(t.buf) \in Nat /\ Len(s) \in Nat /\ Len(v.buf) = Len(t.buf) + Len(s)
      /\ \A i \in 1 .. n : EntryBytes(v, i) = EntryBytes(t, i)
  BY ONLY <1>1, TabInv(t), IsSeq(s), n = Len(t.vec), InsertedShape
<1>3. Shape(t)
  BY DEF TabInv
<1>4. IsTab(v)
  BY <1>1 DEF Inserted, IsTab
<1>5. \E c : u = [v EXCEPT !.cache = c]
  BY ONLY <1>1, <1>3, u = Add(t, s), AddSteps
<1>6. u.vec = v.vec /\ u.buf = v.buf
  BY ONLY <1>4, <1>5, CacheSet
<1>7. v.vec = Append(t.vec, [off |-> Len(t.buf), len |-> Len(s)]) /\ v.buf = t.buf \o s
  BY ONLY <1>1 DEF Inserted
<1>8. \A i \in 1 .. n : u.vec[i] = t.vec[i]
  BY ONLY <1>3, <1>6, <1>7, n = Len(t.vec), AppendProperties DEF Shape
<1>9. u.vec[n + 1] = [off |-> Len(t.buf), len |-> Len(s)]
  BY ONLY <1>3, <1>6, <1>7, n = Len(t.vec), n \in Nat, <1>2, AppendProperties DEF Shape
<1>10. Len(s) # 0
  BY DEF IsSeq
<1>11. SubSeq(t.buf \o s, Len(t.buf) + 1, Len(t.buf) + Len(s)) = s
  <2>1. PICK S : t.buf \in Seq(S) /\ s \in Seq(S)
    BY <1>3, CommonSeq DEF Shape
  <2>2. PICK b : b = t.buf \o s
    OBVIOUS
  <2>3. PICK l \in Nat, k \in Nat : l = Len(t.buf) /\ k = Len(s)
    BY ONLY <1>2
  <2>4. b \in Seq(S) /\ Len(b) = l + k /\ \A j \in 1 .. k : b[l + j] = s[j]
    <3>1. b \in Seq(S) /\ Len(b) = l + k
          /\ \A j \in 1 .. Len(t.buf) + Len(s) : b[j] = IF j <= Len(t.buf) THEN t.buf[j] ELSE s[j - Len(t.buf)]
      BY ONLY <2>1, <2>2, <2>3, ConcatProperties
    <3>2. ASSUME NEW j \in 1 .. k PROVE b[l + j] = s[j]
      <4>1. l + j \in 1 .. l + k /\ ~(l + j <= l) /\ (l + j) - l = j
        OBVIOUS
      <4> QED
        BY ONLY <4>1, <3>1, <2>3
    <3> QED
      BY <3>1, <3>2
  <2>5. l + 1 \in 1 .. Len(b) + 1 /\ l + k \in 1 .. Len(b) /\ (l + k) - (l + 1) + 1 = k /\ l + 1 <= l + k
    BY ONLY <2>3, <2>4, <1>10, l \in Nat, k \in Nat
  <2>6. PICK q : q = SubSeq(b, l + 1, l + k)
    OBVIOUS
  <2>7. q \in Seq(S) /\ Len(q) = k /\ \A j \in 1 .. k : q[j] = b[l + 1 + j - 1]
    BY ONLY <2>4, <2>5, <2>6, SubSeqProperties
  <2>8. \A j \in 1 .. k : q[j] = s[j]
    <3>1. ASSUME NEW j \in 1 .. k PROVE l + 1 + j - 1 = l + j
      OBVIOUS
    <3> QED
      BY <3>1, <2>4, <2>7
  <2> QED
    BY ONLY <2>1, <2>2, <2>3, <2>6, <2>7, <2>8, SeqEqual
<1>12. EntryBytes(u, n + 1) = s
  <2>1. u.vec[n + 1].off = Len(t.buf) /\ u.vec[n + 1].len = Len(s) /\ u.buf = t.buf \o s
    <3>1. PICK e : e = u.vec[n + 1]
      OBVIOUS
    <3>2. e.off = Len(t.buf) /\ e.len = Len(s)
      BY ONLY <3>1, <1>9
    <3> QED
      BY ONLY <3>1, <3>2, <1>6, <1>7
  <2>2. PICK o, l, b : o = u.vec[n + 1].off /\ l = u.vec[n + 1].len /\ b = u.buf
    OBVIOUS
  <2>3. SubSeq(b, o + 1, o + l) = s
    BY ONLY <2>1, <2>2, <1>11
  <2> QED
    BY ONLY <2>2, <2>3 DEF EntryBytes, Bytes
<1>13. \A i \in 1 .. n : EntryBytes(u, i) = EntryBytes(t, i)
  BY ONLY <1>2, <1>6 DEF EntryBytes, Bytes
<1> QED
  BY ONLY <1>2, <1>6, <1>8, <1>9, <1>10, <1>12, <1>13

\* The fields of a module, of its functions and of those of the encoder.
IsWasm(w) == w = [x \in {"funcs", "globals", "data", "links"} |-> w[x]]

IsWasmFunc(f) == f = [x \in {"imported", "name", "rets", "params", "insts", "labels"} |-> f[x]]

IsFunc(f) == f = [x \in {"type", "name", "extern", "code"} |-> f[x]]

FuncsTyped(fs, ws, n) ==
  /\ IsSeq(fs) /\ IsSeq(ws) /\ Len(fs) = n /\ Len(ws) = n
  /\ \A i \in 1 .. n : IsFunc(fs[i]) /\ IsWasmFunc(ws[i])

\* The table of the module holds the empty name and then those of the functions.
NamesAgree(t, fs, ws, n) ==
  /\ Len(t.vec) = n + 1 /\ EntryBytes(t, 1) = << 0 >>
  /\ \A i \in 1 .. n : /\ fs[i].name = t.vec[i + 1].off /\ t.vec[i + 1].off # 0
                       /\ EntryBytes(t, i + 1) = ws[i].name
                       /\ ws[i].name \in Names /\ ws[i].name # << 0 >>

\* Of n functions the first m are imported, and the others have their code in order.
CodeAgrees(fs, ws, code, n, m) ==
  /\ m <= n /\ Len(code) = n - m
  /\ \A i \in 1 .. n : fs[i].extern = (i <= m) /\ ws[i].imported = (i <= m)
  /\ \A i \in m + 1 .. n : fs[i].code = i - m - 1 /\ code[i - m].insts = ws[i].insts

Paired(e, w, n, m) ==
  /\ IsWasm(w) /\ FuncsTyped(e.funcs, w.funcs, n) /\ NamesAgree(e.mod, e.funcs, w.funcs, n)
  /\ CodeAgrees(e.funcs, w.funcs, e.code, n, m)

\* A name that no function has is contained only if it is the empty one, which then no
\* function is found for.
LEMMA NewNameFails ==
  ASSUME NEW e, Started(e.mod), NEW ws, NEW n \in Nat, NamesAgree(e.mod, e.funcs, ws, n),
         IsSeq(e.funcs), Len(e.funcs) = n, NEW name,
         \A i \in 1 .. n : ws[i].name # name, Contained(e, name)
  PROVE  Request_fails(e, name)
<1>1. PICK t : t = e.mod
  OBVIOUS
<1>2. TabInv(t) /\ Len(t.vec) = n + 1
  BY <1>1 DEF Started, NamesAgree
<1>3. PICK k \in Hits(t, name) : Get_idx(t, name) = k.idx
  BY <1>1 DEF Contained, Contains_str, Get_idx
<1>4. k.idx \in Nat /\ k.idx < n + 1 /\ EntryBytes(t, k.idx + 1) = name
  BY <1>2, <1>3 DEF Hits, TabInv, KeysGood
<1>5. k.idx = 0
  <2> SUFFICES ASSUME k.idx # 0 PROVE FALSE
    OBVIOUS
  <2>1. PICK i \in 1 .. n : i = k.idx
    BY <1>4
  <2>2. EntryBytes(t, i + 1) = ws[i].name
    BY <1>1 DEF NamesAgree
  <2> QED
    BY <2>1, <2>2, <1>4
<1>6. \A i \in DOMAIN e.funcs : e.funcs[i].name # 0
  <2>1. DOMAIN e.funcs = 1 .. n
    BY DEF IsSeq
  <2> QED
    BY <2>1 DEF NamesAgree
<1>7. Named(e, name) = {}
  BY <1>1, <1>3, <1>5, <1>6 DEF Named
<1> QED
  BY <1>7 DEF Request_fails

\* A number that fits its field.
LEMMA FitsField ==
  ASSUME NEW x \in Nat, NEW u \in Nat, x < u
  PROVE  x % u = x
OBVIOUS

\* A name goes into table t, which then is u, and is the name of the last of functions
\* gs of the encoder and vs of the module.
NameGiven(t, fs, ws, n, name, u, gs, vs) ==
  /\ name \in Names /\ name # << 0 >> /\ u = Add(t, name) /\ Len(u.buf) <= UINT16
  /\ Len(gs) = n + 1 /\ gs[n + 1].name = Get_off(u, Len(t.vec)) % UINT16
  /\ Len(vs) = n + 1 /\ vs[n + 1].name = name
  /\ \A i \in 1 .. n : gs[i].name = fs[i].name /\ vs[i].name = ws[i].name

\* A function is added under a name that is not contained.
LEMMA NameAdded ==
  ASSUME NEW t, NEW fs, NEW ws, NEW n \in Nat, Started(t), NamesAgree(t, fs, ws, n),
         NEW name, NEW u, NEW gs, NEW vs, NameGiven(t, fs, ws, n, name, u, gs, vs)
  PROVE  NamesAgree(u, gs, vs, n + 1)
<1> SUFFICES ASSUME name \in Names, name # << 0 >>, u = Add(t, name), Len(u.buf) <= UINT16,
                    Len(gs) = n + 1, gs[n + 1].name = Get_off(u, Len(t.vec)) % UINT16,
                    Len(vs) = n + 1, vs[n + 1].name = name,
                    \A i \in 1 .. n : gs[i].name = fs[i].name /\ vs[i].name = ws[i].name
             PROVE  NamesAgree(u, gs, vs, n + 1)
  BY DEF NameGiven
<1>1. TabInv(t) /\ t.buf # << >> /\ Len(t.vec) = n + 1
  BY DEF Started, NamesAgree
<1>2. IsSeq(name) /\ name # << >>
  BY Given DEF NameOK
<1>3. PICK m \in Nat : m = n + 1
  OBVIOUS
<1>4. /\ Len(u.vec) = m + 1 /\ EntryBytes(u, m + 1) = name /\ u.vec[m + 1].off = Len(t.buf)
      /\ Len(u.buf) = Len(t.buf) + Len(name) /\ Len(name) \in Nat \ {0} /\ Len(t.buf) \in Nat
      /\ \A i \in 1 .. m : EntryBytes(u, i) = EntryBytes(t, i) /\ u.vec[i] = t.vec[i]
  BY ONLY <1>1, <1>2, <1>3, u = Add(t, name), AddEntries
<1>5. Len(t.buf) # 0
  BY <1>1 DEF TabInv, Shape, IsSeq
<1>6. gs[n + 1].name = Len(t.buf)
  <2>1. UINT16 \in Nat
    BY DEF UINT16
  <2>2. Len(t.buf) < UINT16
    BY ONLY <1>4, <2>1, Len(u.buf) <= UINT16
  <2>3. Len(t.buf) % UINT16 = Len(t.buf)
    BY ONLY <1>4, <2>1, <2>2, FitsField
  <2>4. Get_off(u, Len(t.vec)) = Len(t.buf)
    BY <1>1, <1>3, <1>4 DEF Get_off
  <2> QED
    BY ONLY <2>3, <2>4, gs[n + 1].name = Get_off(u, Len(t.vec)) % UINT16
<1>7. EntryBytes(u, 1) = << 0 >>
  BY <1>3, <1>4 DEF NamesAgree
<1>8. ASSUME NEW i \in 1 .. n + 1
      PROVE  /\ gs[i].name = u.vec[i + 1].off /\ u.vec[i + 1].off # 0
             /\ EntryBytes(u, i + 1) = vs[i].name
             /\ vs[i].name \in Names /\ vs[i].name # << 0 >>
  <2>1. CASE i = n + 1
    BY <2>1, <1>3, <1>4, <1>5, <1>6
  <2>2. CASE i # n + 1
    <3>1. i \in 1 .. n /\ i + 1 \in 1 .. m
      BY <2>2, <1>3
    <3>2. /\ fs[i].name = t.vec[i + 1].off /\ t.vec[i + 1].off # 0 /\ EntryBytes(t, i + 1) = ws[i].name
          /\ ws[i].name \in Names /\ ws[i].name # << 0 >>
      BY <3>1 DEF NamesAgree
    <3>3. u.vec[i + 1] = t.vec[i + 1] /\ EntryBytes(u, i + 1) = EntryBytes(t, i + 1)
      BY <3>1, <1>4
    <3>4. gs[i].name = fs[i].name /\ vs[i].name = ws[i].name
      BY <3>1
    <3> QED
      BY ONLY <3>2, <3>3, <3>4
  <2> QED
    BY <2>1, <2>2
<1> QED
  BY ONLY <1>3, <1>4, <1>7, <1>8, n \in Nat DEF NamesAgree

\* A name that is not contained is not the empty one.
LEMMA NotEmptyName ==
  ASSUME NEW e, Started(e.mod), NEW fs, NEW ws, NEW n \in Nat, NamesAgree(e.mod, fs, ws, n),
         NEW name, ~Contained(e, name)
  PROVE  name # << 0 >>
<1>1. TabInv(e.mod) /\ Len(e.mod.vec) = n + 1 /\ EntryBytes(e.mod, 1) = << 0 >>
  BY DEF Started, NamesAgree
<1>2. 1 \in 1 .. Len(e.mod.vec)
  BY <1>1
<1>3. Contains_str(e.mod, << 0 >>)
  BY <1>1, <1>2 DEF TabInv, FoundTo
<1> QED
  BY <1>3 DEF Contained

\* An element is put behind a sequence.
LEMMA AppendAny ==
  ASSUME NEW s, IsSeq(s), NEW n \in Nat, Len(s) = n, NEW x, NEW t, t = Append(s, x)
  PROVE  /\ IsSeq(t) /\ Len(t) = n + 1 /\ t[n + 1] = x
         /\ \A i \in 1 .. n : t[i] = s[i]
<1>1. PICK S : s \in Seq(S)
  BY DEF IsSeq
<1>2. s \in Seq(S \cup {x}) /\ x \in S \cup {x}
  BY <1>1
<1>3. /\ t \in Seq(S \cup {x}) /\ Len(t) = n + 1 /\ t[n + 1] = x /\ \A i \in 1 .. n : t[i] = s[i]
  BY ONLY <1>2, Len(s) = n, t = Append(s, x), AppendProperties
<1> QED
  BY ONLY <1>3 DEF IsSeq

\* An element of a sequence is replaced.
LEMMA ReplaceAny ==
  ASSUME NEW s, IsSeq(s), NEW n \in Nat, Len(s) = n, NEW c \in 1 .. n, NEW x, NEW t, t = [s EXCEPT ![c] = x]
  PROVE  IsSeq(t) /\ Len(t) = n /\ t[c] = x /\ \A i \in 1 .. n : i # c => t[i] = s[i]
<1>1. PICK S : s \in Seq(S)
  BY DEF IsSeq
<1>2. s \in [1 .. n -> S]
  BY <1>1
<1>3. t \in [1 .. n -> S \cup {x}] /\ t[c] = x /\ \A i \in 1 .. n : i # c => t[i] = s[i]
  BY ONLY <1>2, c \in 1 .. n, t = [s EXCEPT ![c] = x]
<1>4. t \in Seq(S \cup {x}) /\ Len(t) = n
  BY ONLY <1>3, n \in Nat
<1> QED
  BY ONLY <1>3, <1>4 DEF IsSeq

\* Function f under a new name is put behind those of the encoder, x behind those of
\* the module; ext says whether it is an import.
FuncAdded(e, w, name, ext, f, x, q, v) ==
  /\ name \in Names /\ ~Contained(e, name) /\ ext \in BOOLEAN
  /\ q.mod = Add(e.mod, name) /\ Len(q.mod.buf) <= UINT16
  /\ IsFunc(f) /\ f.name = Get_off(q.mod, Len(e.mod.vec)) % UINT16 /\ f.extern = ext
  /\ (~ext => f.code = Len(e.code)) /\ q.funcs = Append(e.funcs, f)
  /\ q.code = IF ext THEN e.code ELSE Append(e.code, Body)
  /\ IsWasmFunc(x) /\ x.name = name /\ x.imported = ext /\ x.insts = << >>
  /\ IsWasm(v) /\ v.funcs = Append(w.funcs, x)

\* A function with its code, or an import, is the next of both tables.
LEMMA FuncPaired ==
  ASSUME NEW e, NEW w, NEW n \in Nat, NEW m \in Nat, EncOK(e), Paired(e, w, n, m),
         NEW name, NEW ext, NEW f, NEW x, NEW q, NEW v, FuncAdded(e, w, name, ext, f, x, q, v),
         ext => m = n, NEW l, l = IF ext THEN n + 1 ELSE m
  PROVE  Paired(q, v, n + 1, l)
<1> SUFFICES ASSUME name \in Names, ~Contained(e, name), ext \in BOOLEAN,
                    q.mod = Add(e.mod, name), Len(q.mod.buf) <= UINT16,
                    IsFunc(f), f.name = Get_off(q.mod, Len(e.mod.vec)) % UINT16, f.extern = ext,
                    ~ext => f.code = Len(e.code), q.funcs = Append(e.funcs, f),
                    q.code = IF ext THEN e.code ELSE Append(e.code, Body),
                    IsWasmFunc(x), x.name = name, x.imported = ext, x.insts = << >>,
                    IsWasm(v), v.funcs = Append(w.funcs, x)
             PROVE  Paired(q, v, n + 1, l)
  BY DEF FuncAdded
<1>1. PICK fs, ws, gs, vs, code, dode : fs = e.funcs /\ ws = w.funcs /\ gs = q.funcs /\ vs = v.funcs
                                        /\ code = e.code /\ dode = q.code
  OBVIOUS
<1>2. FuncsTyped(fs, ws, n) /\ NamesAgree(e.mod, fs, ws, n) /\ CodeAgrees(fs, ws, code, n, m)
  BY <1>1 DEF Paired
<1>3. IsSeq(fs) /\ IsSeq(ws) /\ Len(fs) = n /\ Len(ws) = n
  BY <1>2 DEF FuncsTyped
<1>4. IsSeq(gs) /\ Len(gs) = n + 1 /\ gs[n + 1] = f /\ \A i \in 1 .. n : gs[i] = fs[i]
  <2>1. gs = Append(fs, f)
    BY ONLY <1>1, q.funcs = Append(e.funcs, f)
  <2>2. IsSeq(fs) /\ Len(fs) = n
    BY ONLY <1>3
  <2>3. IsSeq(gs)
    BY ONLY <2>1, <2>2, n \in Nat, AppendAny
  <2>4. Len(gs) = n + 1
    BY ONLY <2>1, <2>2, n \in Nat, AppendAny
  <2>5. gs[n + 1] = f
    BY ONLY <2>1, <2>2, n \in Nat, AppendAny
  <2>6. \A i \in 1 .. n : gs[i] = fs[i]
    BY ONLY <2>1, <2>2, n \in Nat, AppendAny
  <2> QED
    BY ONLY <2>3, <2>4, <2>5, <2>6
<1>5. IsSeq(vs) /\ Len(vs) = n + 1 /\ vs[n + 1] = x /\ \A i \in 1 .. n : vs[i] = ws[i]
  <2>1. vs = Append(ws, x)
    BY ONLY <1>1, v.funcs = Append(w.funcs, x)
  <2>2. IsSeq(ws) /\ Len(ws) = n
    BY ONLY <1>3
  <2>3. IsSeq(vs)
    BY ONLY <2>1, <2>2, n \in Nat, AppendAny
  <2>4. Len(vs) = n + 1
    BY ONLY <2>1, <2>2, n \in Nat, AppendAny
  <2>5. vs[n + 1] = x
    BY ONLY <2>1, <2>2, n \in Nat, AppendAny
  <2>6. \A i \in 1 .. n : vs[i] = ws[i]
    BY ONLY <2>1, <2>2, n \in Nat, AppendAny
  <2> QED
    BY ONLY <2>3, <2>4, <2>5, <2>6
<1>6. \A i \in 1 .. n + 1 : i = n + 1 \/ i \in 1 .. n
  OBVIOUS
<1>7. FuncsTyped(gs, vs, n + 1)
  BY ONLY <1>2, <1>4, <1>5, <1>6, IsFunc(f), IsWasmFunc(x) DEF FuncsTyped
<1>8. Started(e.mod)
  BY DEF EncOK
<1>9. name # << 0 >>
  BY ONLY <1>2, <1>8, n \in Nat, ~Contained(e, name), NotEmptyName
<1>10. NamesAgree(q.mod, gs, vs, n + 1)
  <2>1. \A i \in 1 .. n : gs[i].name = fs[i].name /\ vs[i].name = ws[i].name
    BY ONLY <1>4, <1>5
  <2>2. gs[n + 1].name = Get_off(q.mod, Len(e.mod.vec)) % UINT16 /\ vs[n + 1].name = name
    BY ONLY <1>4, <1>5, f.name = Get_off(q.mod, Len(e.mod.vec)) % UINT16, x.name = name
  <2>3. NameGiven(e.mod, fs, ws, n, name, q.mod, gs, vs)
    BY ONLY <2>1, <2>2, <1>4, <1>5, <1>9, name \in Names, q.mod = Add(e.mod, name), Len(q.mod.buf) <= UINT16
    DEF NameGiven
  <2> QED
    BY ONLY <2>3, <1>2, <1>8, n \in Nat, NameAdded
<1>11. CodeAgrees(gs, vs, dode, n + 1, l)
  <2>1. /\ m <= n /\ Len(code) = n - m
        /\ \A i \in 1 .. n : fs[i].extern = (i <= m) /\ ws[i].imported = (i <= m)
        /\ \A i \in m + 1 .. n : fs[i].code = i - m - 1 /\ code[i - m].insts = ws[i].insts
    BY ONLY <1>2 DEF CodeAgrees
  <2>2. CASE ext
    <3>1. l = n + 1 /\ m = n /\ dode = code
      BY <2>2, <1>1
    <3>2. l <= n + 1 /\ Len(dode) = (n + 1) - l
      BY ONLY <3>1, <2>1, n \in Nat
    <3>3. ASSUME NEW i \in 1 .. n + 1 PROVE gs[i].extern = (i <= l) /\ vs[i].imported = (i <= l)
      <4>1. i <= l
        BY ONLY <3>1, i \in 1 .. n + 1, n \in Nat
      <4>2. gs[i].extern = TRUE /\ vs[i].imported = TRUE
        <5>1. CASE i = n + 1
          BY <5>1, <1>4, <1>5, <2>2
        <5>2. CASE i \in 1 .. n
          BY <5>2, <1>4, <1>5, <2>1, <3>1
        <5> QED
          BY <5>1, <5>2, <1>6
      <4> QED
        BY <4>1, <4>2
    <3>4. l + 1 .. n + 1 = {}
      BY ONLY <3>1, n \in Nat
    <3> QED
      BY ONLY <3>2, <3>3, <3>4 DEF CodeAgrees
  <2>3. CASE ~ext
    <3>1. l = m /\ dode = Append(code, Body) /\ f.code = Len(code)
      BY <2>3, <1>1
    <3>2. PICK k \in Nat : k = Len(code) /\ k = n - m
      BY ONLY <2>1, n \in Nat, m \in Nat
    <3>3. IsSeq(code)
      BY <1>1 DEF EncOK, BodiesOK
    <3>4. Len(dode) = k + 1 /\ dode[k + 1] = Body /\ \A i \in 1 .. k : dode[i] = code[i]
      <4>1. dode = Append(code, Body) /\ Len(code) = k
        BY ONLY <3>1, <3>2
      <4> QED
        BY ONLY <4>1, <3>3, k \in Nat, AppendAny
    <3>5. l <= n + 1 /\ Len(dode) = (n + 1) - l
      BY ONLY <2>1, <3>1, <3>2, <3>4, n \in Nat, m \in Nat
    <3>6. ASSUME NEW i \in 1 .. n + 1 PROVE gs[i].extern = (i <= l) /\ vs[i].imported = (i <= l)
      <4>1. CASE i = n + 1
        <5>1. (i <= l) = FALSE
          BY ONLY <4>1, <2>1, <3>1, n \in Nat, m \in Nat
        <5>2. gs[i].extern = FALSE /\ vs[i].imported = FALSE
          <6>1. gs[i] = f /\ vs[i] = x
            BY ONLY <4>1, <1>4, <1>5
          <6>2. f.extern = FALSE /\ x.imported = FALSE
            BY ONLY <2>3, ext \in BOOLEAN, f.extern = ext, x.imported = ext
          <6> QED
            BY ONLY <6>1, <6>2
        <5> QED
          BY ONLY <5>1, <5>2, Zenon
      <4>2. CASE i \in 1 .. n
        BY ONLY <4>2, <1>4, <1>5, <2>1, <3>1
      <4> QED
        BY <4>1, <4>2, <1>6
    <3>7. ASSUME NEW i \in l + 1 .. n + 1 PROVE gs[i].code = i - l - 1 /\ dode[i - l].insts = vs[i].insts
      <4>1. CASE i = n + 1
        <5>1. i - l - 1 = k /\ i - l = k + 1
          BY ONLY <4>1, <3>1, <3>2, n \in Nat, m \in Nat
        <5>2. Body.insts = << >>
          BY DEF Body
        <5>3. gs[i] = f /\ vs[i] = x /\ dode[i - l] = Body /\ f.code = k
          BY ONLY <4>1, <5>1, <1>4, <1>5, <3>1, <3>2, <3>4
        <5> QED
          BY ONLY <5>1, <5>2, <5>3, x.insts = << >>
      <4>2. CASE i # n + 1
        <5>1. i \in m + 1 .. n /\ i \in 1 .. n /\ i - m \in 1 .. k
          BY ONLY <4>2, <3>1, <3>2, i \in l + 1 .. n + 1, n \in Nat, m \in Nat
        <5> QED
          BY ONLY <5>1, <1>4, <1>5, <2>1, <3>1, <3>4
      <4> QED
        BY <4>1, <4>2
    <3> QED
      BY ONLY <3>5, <3>6, <3>7 DEF CodeAgrees
  <2> QED
    BY <2>2, <2>3
<1> QED
  BY ONLY <1>1, <1>7, <1>10, <1>11, IsWasm(v) DEF Paired

\* A step that leaves the functions alone.
LEMMA OtherPaired ==
  ASSUME NEW e, NEW w, NEW n, NEW m, Paired(e, w, n, m),
         NEW q, q.mod = e.mod, q.funcs = e.funcs, q.code = e.code, NEW v, IsWasm(v), v.funcs = w.funcs
  PROVE  Paired(q, v, n, m)
BY DEF Paired

\* What Add_type leaves alone.
LEMMA AddTypeLeaves ==
  ASSUME NEW e, EncOK(e), NEW rets, NEW params, NEW q, q = Add_type(e, rets, params)
  PROVE  q.mod = e.mod /\ q.funcs = e.funcs /\ q.code = e.code
BY DEF Add_type, EncOK, IsEnc

\* The element that was put behind a sequence is replaced.
LastReplaced(s, n, x, y, t, v) ==
  IsSeq(s) /\ n \in Nat /\ Len(s) = n /\ t = Append(s, x) /\ v = [t EXCEPT ![n + 1] = y]

\* The sequence is then as if this one had been put there.
LEMMA ReplaceLast ==
  ASSUME NEW s, NEW n, NEW x, NEW y, NEW t, NEW v, LastReplaced(s, n, x, y, t, v)
  PROVE  v = Append(s, y)
<1> SUFFICES ASSUME IsSeq(s), n \in Nat, Len(s) = n, t = Append(s, x), v = [t EXCEPT ![n + 1] = y]
             PROVE  v = Append(s, y)
  BY DEF LastReplaced
<1>1. PICK u : u = Append(s, y)
  OBVIOUS
<1>2. PICK S : s \in Seq(S)
  BY DEF IsSeq
<1>3. PICK T : s \in Seq(T) /\ x \in T /\ y \in T
  <2>1. s \in Seq(S \cup {x, y}) /\ x \in S \cup {x, y} /\ y \in S \cup {x, y}
    BY ONLY <1>2
  <2> QED
    BY ONLY <2>1
<1>4. t \in Seq(T) /\ Len(t) = n + 1 /\ t[n + 1] = x /\ \A i \in 1 .. n : t[i] = s[i]
  BY ONLY <1>1, <1>3, Len(s) = n, t = Append(s, x), AppendProperties
<1>5. u \in Seq(T) /\ Len(u) = n + 1 /\ u[n + 1] = y /\ \A i \in 1 .. n : u[i] = s[i]
  BY ONLY <1>1, <1>3, Len(s) = n, t = Append(s, x), AppendProperties
<1>6. n + 1 \in 1 .. n + 1 /\ \A i \in 1 .. n + 1 : i = n + 1 \/ (i # n + 1 /\ i \in 1 .. n)
  BY ONLY n \in Nat
<1>7. t \in [1 .. n + 1 -> T] /\ u \in [1 .. n + 1 -> T]
  BY ONLY <1>4, <1>5
<1>8. v \in [1 .. n + 1 -> T] /\ v[n + 1] = y /\ \A i \in 1 .. n + 1 : i # n + 1 => v[i] = t[i]
  BY ONLY <1>3, <1>6, <1>7, v = [t EXCEPT ![n + 1] = y]
<1>9. \A i \in 1 .. n + 1 : v[i] = u[i]
  BY ONLY <1>4, <1>5, <1>6, <1>8
<1>10. v = u
  <2>1. v \in Seq(T) /\ Len(v) = n + 1
    BY ONLY <1>8, n \in Nat
  <2> QED
    BY ONLY <2>1, <1>5, <1>9, SeqEqual
<1> QED
  BY ONLY <1>1, <1>10

\* An import (U_ENCODER::Request_native_func).
LEMMA ImportPaired ==
  ASSUME NEW e, EncOK(e), NEW w, NEW n \in Nat, Paired(e, w, n, n), NEW name \in Names, ~Contained(e, name),
         NEW type, NEW rets, NEW params, NEW q, q = Request_native_func(e, name, type, rets, params),
         Len(q.mod.buf) <= UINT16, NEW sg, NEW v, v = [w EXCEPT !.funcs = Append(@, WasmFunc(TRUE, name, sg))]
  PROVE  Paired(q, v, n + 1, n + 1)
<1>1. PICK p : p = Inner_request_func(e, name, type, TRUE)
  OBVIOUS
<1>2. PICK f : f = [type |-> type, name |-> Get_off(Add(e.mod, name), Len(e.mod.vec)) % UINT16,
                    extern |-> TRUE, code |-> 0]
  OBVIOUS
<1>3. IsEnc(p) /\ p.mod = Add(e.mod, name) /\ p.funcs = Append(e.funcs, f) /\ p.code = e.code
  BY <1>1, <1>2 DEF Inner_request_func, EncOK, IsEnc
<1>4. q.mod = p.mod /\ q.funcs = p.funcs /\ q.code = p.code
  BY <1>1, <1>3 DEF Request_native_func, IsEnc
<1>5. q.mod = Add(e.mod, name) /\ q.funcs = Append(e.funcs, f) /\ q.code = e.code
  BY ONLY <1>3, <1>4
<1>6. IsFunc(f) /\ f.extern = TRUE /\ f.name = Get_off(q.mod, Len(e.mod.vec)) % UINT16
  BY ONLY <1>2, <1>5 DEF IsFunc
<1>7. PICK x : x = WasmFunc(TRUE, name, sg)
  OBVIOUS
<1>8. IsWasmFunc(x) /\ x.imported = TRUE /\ x.name = name /\ x.insts = << >>
  BY ONLY <1>7 DEF WasmFunc, IsWasmFunc
<1>9. IsWasm(v) /\ v.funcs = Append(w.funcs, x)
  BY <1>7 DEF Paired, IsWasm
<1>10. PICK ext \in BOOLEAN : ext = TRUE
  OBVIOUS
<1>11. q.code = IF ext THEN e.code ELSE Append(e.code, Body)
  BY ONLY <1>5, <1>10
<1>12. f.extern = ext /\ x.imported = ext /\ (~ext => f.code = Len(e.code)) /\ (ext => n = n)
  BY ONLY <1>6, <1>8, <1>10
<1>13. PICK l : l = (IF ext THEN n + 1 ELSE n) /\ l = n + 1
  BY ONLY <1>10
<1>14. FuncAdded(e, w, name, ext, f, x, q, v)
  BY ONLY <1>5, <1>6, <1>8, <1>9, <1>11, <1>12, ext \in BOOLEAN, name \in Names, ~Contained(e, name),
          Len(q.mod.buf) <= UINT16 DEF FuncAdded
<1>15. Paired(q, v, n + 1, l)
  BY ONLY <1>12, <1>13, <1>14, EncOK(e), n \in Nat, Paired(e, w, n, n), FuncPaired
<1> QED
  BY ONLY <1>13, <1>15

\* A function with code (U_ENCODER::Inner_request_func and Start_func).
LEMMA CodePaired ==
  ASSUME NEW e, EncOK(e), NEW w, NEW n \in Nat, NEW m \in Nat, Paired(e, w, n, m), NEW name \in Names, ~Contained(e, name),
         NEW type, NEW p, p = Inner_request_func(e, name, type, FALSE), NEW q, q = Start_func(p, Func_idx(e, p, name)),
         Len(q.mod.buf) <= UINT16, NEW sg, NEW v, v = [w EXCEPT !.funcs = Append(@, WasmFunc(FALSE, name, sg))]
  PROVE  Paired(q, v, n + 1, m)
<1>1. PICK g : g = [type |-> type, name |-> Get_off(Add(e.mod, name), Len(e.mod.vec)) % UINT16,
                    extern |-> FALSE, code |-> 0]
  OBVIOUS
<1>2. PICK f : f = [g EXCEPT !.code = Len(e.code)]
  OBVIOUS
<1>3. IsEnc(p) /\ p.mod = Add(e.mod, name) /\ p.funcs = Append(e.funcs, g) /\ p.code = e.code
  BY <1>1 DEF Inner_request_func, EncOK, IsEnc
<1>4. IsSeq(e.funcs) /\ Len(e.funcs) = n
  BY DEF Paired, FuncsTyped
<1>5. PICK fs, gs : fs = e.funcs /\ gs = p.funcs
  OBVIOUS
<1>6. Len(gs) = n + 1 /\ gs[n + 1] = g
  <2>1. gs = Append(fs, g)
    BY ONLY <1>3, <1>5
  <2>2. IsSeq(fs) /\ Len(fs) = n
    BY ONLY <1>4, <1>5
  <2>3. Len(gs) = n + 1
    BY ONLY <2>1, <2>2, n \in Nat, AppendAny
  <2>4. gs[n + 1] = g
    BY ONLY <2>1, <2>2, n \in Nat, AppendAny
  <2> QED
    BY ONLY <2>3, <2>4
<1>7. PICK k : k = Func_idx(e, p, name) /\ k = n /\ k + 1 = n + 1
  <2>1. Func_idx(e, p, name) = Len(gs) - 1
    BY <1>5 DEF Func_idx
  <2> QED
    BY ONLY <2>1, <1>6, n \in Nat
<1>8. q = [p EXCEPT !.code = Append(@, Body), !.funcs[k + 1].code = Len(p.code)]
  BY ONLY <1>7, q = Start_func(p, Func_idx(e, p, name)) DEF Start_func
<1>9. q.mod = p.mod /\ q.code = Append(p.code, Body) /\ q.funcs = [p.funcs EXCEPT ![k + 1].code = Len(p.code)]
  BY ONLY <1>3, <1>8 DEF IsEnc
<1>10. q.funcs = [gs EXCEPT ![n + 1] = f]
  <2>1. q.funcs = [gs EXCEPT ![n + 1] = [gs[n + 1] EXCEPT !.code = Len(e.code)]]
    BY ONLY <1>3, <1>5, <1>7, <1>9
  <2> QED
    BY ONLY <2>1, <1>6, <1>2
<1>11. q.funcs = Append(e.funcs, f)
  <2>1. IsSeq(fs) /\ Len(fs) = n /\ gs = Append(fs, g)
    BY ONLY <1>3, <1>4, <1>5
  <2>2. PICK hs : hs = [gs EXCEPT ![n + 1] = f]
    OBVIOUS
  <2>3. LastReplaced(fs, n, g, f, gs, hs)
    BY ONLY <2>1, <2>2, n \in Nat DEF LastReplaced
  <2>4. hs = Append(fs, f)
    BY ONLY <2>3, ReplaceLast
  <2> QED
    BY ONLY <2>2, <2>4, <1>5, <1>10
<1>12. q.mod = Add(e.mod, name) /\ q.code = Append(e.code, Body)
  BY ONLY <1>3, <1>9
<1>13. IsFunc(f) /\ f.extern = FALSE /\ f.name = Get_off(q.mod, Len(e.mod.vec)) % UINT16 /\ f.code = Len(e.code)
  <2>1. PICK y, o : y = Len(e.code) /\ o = Get_off(q.mod, Len(e.mod.vec)) % UINT16
    OBVIOUS
  <2>2. g = [type |-> type, name |-> o, extern |-> FALSE, code |-> 0] /\ f = [g EXCEPT !.code = y]
    BY ONLY <1>1, <1>2, <1>12, <2>1
  <2>3. f.extern = FALSE /\ f.name = o /\ f.code = y
    BY ONLY <2>2
  <2>4. IsFunc(f)
    BY ONLY <2>2 DEF IsFunc
  <2> QED
    BY ONLY <2>1, <2>3, <2>4
<1>14. PICK x : x = WasmFunc(FALSE, name, sg)
  OBVIOUS
<1>15. IsWasmFunc(x) /\ x.imported = FALSE /\ x.name = name /\ x.insts = << >>
  BY ONLY <1>14 DEF WasmFunc, IsWasmFunc
<1>16. IsWasm(v) /\ v.funcs = Append(w.funcs, x)
  BY <1>14 DEF Paired, IsWasm
<1>17. PICK ext \in BOOLEAN : ext = FALSE
  OBVIOUS
<1>18. q.code = IF ext THEN e.code ELSE Append(e.code, Body)
  BY ONLY <1>12, <1>17
<1>19. f.extern = ext /\ x.imported = ext /\ (~ext => f.code = Len(e.code)) /\ (ext => m = n)
  BY ONLY <1>13, <1>15, <1>17
<1>20. PICK l : l = (IF ext THEN n + 1 ELSE m) /\ l = m
  BY ONLY <1>17
<1>21. FuncAdded(e, w, name, ext, f, x, q, v)
  BY ONLY <1>11, <1>12, <1>13, <1>15, <1>16, <1>18, <1>19, ext \in BOOLEAN, name \in Names, ~Contained(e, name),
          Len(q.mod.buf) <= UINT16 DEF FuncAdded
<1>22. Paired(q, v, n + 1, l)
  BY ONLY <1>19, <1>20, <1>21, EncOK(e), n \in Nat, m \in Nat, Paired(e, w, n, m), FuncPaired
<1> QED
  BY ONLY <1>20, <1>22

\* The last code body becomes b and the last function x, with the same instructions.
BodyChanges(e, w, n, c, b, x, q, v) ==
  /\ c = Len(e.code) /\ q.mod = e.mod /\ q.funcs = e.funcs /\ q.code = [e.code EXCEPT ![c] = b]
  /\ IsWasmFunc(x) /\ x.name = w.funcs[n].name /\ x.imported = w.funcs[n].imported /\ b.insts = x.insts
  /\ IsWasm(v) /\ v.funcs = [w.funcs EXCEPT ![n] = x]

\* The last function and the last code body change together.
LEMMA BodyPaired ==
  ASSUME NEW e, NEW w, NEW n \in Nat, NEW m \in Nat, m < n, EncOK(e), Paired(e, w, n, m),
         NEW c, NEW b, NEW x, NEW q, NEW v, BodyChanges(e, w, n, c, b, x, q, v)
  PROVE  Paired(q, v, n, m)
<1> SUFFICES ASSUME c = Len(e.code), q.mod = e.mod, q.funcs = e.funcs, q.code = [e.code EXCEPT ![c] = b],
                    IsWasmFunc(x), x.name = w.funcs[n].name, x.imported = w.funcs[n].imported, b.insts = x.insts,
                    IsWasm(v), v.funcs = [w.funcs EXCEPT ![n] = x]
             PROVE  Paired(q, v, n, m)
  BY DEF BodyChanges
<1>1. PICK fs, ws, vs, code, dode : fs = e.funcs /\ ws = w.funcs /\ vs = v.funcs /\ code = e.code /\ dode = q.code
  OBVIOUS
<1>2. FuncsTyped(fs, ws, n) /\ NamesAgree(e.mod, fs, ws, n) /\ CodeAgrees(fs, ws, code, n, m)
  BY <1>1 DEF Paired
<1>3. IsSeq(ws) /\ Len(ws) = n
  BY <1>2 DEF FuncsTyped
<1>4. IsSeq(code)
  BY <1>1 DEF EncOK, BodiesOK
<1>5. c \in Nat /\ c = n - m /\ c \in 1 .. c /\ n \in 1 .. n /\ Len(code) = c
  <2>1. Len(code) = n - m
    BY <1>2 DEF CodeAgrees
  <2> QED
    BY ONLY <2>1, <1>1, c = Len(e.code), n \in Nat, m \in Nat, m < n
<1>6. IsSeq(vs) /\ Len(vs) = n /\ vs[n] = x /\ \A i \in 1 .. n : i # n => vs[i] = ws[i]
  <2>1. vs = [ws EXCEPT ![n] = x]
    BY ONLY <1>1, v.funcs = [w.funcs EXCEPT ![n] = x]
  <2>2. IsSeq(vs)
    BY ONLY <2>1, <1>3, <1>5, n \in Nat, ReplaceAny
  <2>3. Len(vs) = n
    BY ONLY <2>1, <1>3, <1>5, n \in Nat, ReplaceAny
  <2>4. vs[n] = x
    BY ONLY <2>1, <1>3, <1>5, n \in Nat, ReplaceAny
  <2>5. \A i \in 1 .. n : i # n => vs[i] = ws[i]
    BY ONLY <2>1, <1>3, <1>5, n \in Nat, ReplaceAny
  <2> QED
    BY ONLY <2>2, <2>3, <2>4, <2>5
<1>7. Len(dode) = c /\ dode[c] = b /\ \A i \in 1 .. c : i # c => dode[i] = code[i]
  <2>1. dode = [code EXCEPT ![c] = b] /\ Len(code) = c /\ c \in Nat /\ c \in 1 .. c
    BY ONLY <1>1, <1>5, q.code = [e.code EXCEPT ![c] = b]
  <2>2. Len(dode) = c
    BY ONLY <2>1, <1>4, ReplaceAny
  <2>3. dode[c] = b
    BY ONLY <2>1, <1>4, ReplaceAny
  <2>4. \A i \in 1 .. c : i # c => dode[i] = code[i]
    BY ONLY <2>1, <1>4, ReplaceAny
  <2> QED
    BY ONLY <2>2, <2>3, <2>4
<1>8. x.name = ws[n].name /\ x.imported = ws[n].imported
  BY ONLY <1>1, x.name = w.funcs[n].name, x.imported = w.funcs[n].imported
<1>9. \A i \in 1 .. n : vs[i].name = ws[i].name /\ vs[i].imported = ws[i].imported
  BY ONLY <1>6, <1>8
<1>10. FuncsTyped(fs, vs, n)
  BY ONLY <1>2, <1>6, IsWasmFunc(x) DEF FuncsTyped
<1>11. NamesAgree(e.mod, fs, vs, n)
  BY ONLY <1>2, <1>9 DEF NamesAgree
<1>12. CodeAgrees(fs, vs, dode, n, m)
  <2>1. /\ m <= n /\ Len(code) = n - m
        /\ \A i \in 1 .. n : fs[i].extern = (i <= m) /\ ws[i].imported = (i <= m)
        /\ \A i \in m + 1 .. n : fs[i].code = i - m - 1 /\ code[i - m].insts = ws[i].insts
    BY ONLY <1>2 DEF CodeAgrees
  <2>2. Len(dode) = n - m
    BY ONLY <1>5, <1>7
  <2>3. \A i \in 1 .. n : fs[i].extern = (i <= m) /\ vs[i].imported = (i <= m)
    BY ONLY <2>1, <1>9
  <2>4. ASSUME NEW i \in m + 1 .. n PROVE dode[i - m].insts = vs[i].insts
    <3>1. CASE i = n
      BY ONLY <3>1, <1>5, <1>6, <1>7, b.insts = x.insts
    <3>2. CASE i # n
      <4>1. i \in 1 .. n /\ i - m \in 1 .. c /\ i - m # c
        BY ONLY <3>2, <1>5, i \in m + 1 .. n, n \in Nat, m \in Nat
      <4> QED
        BY ONLY <4>1, <3>2, <1>6, <1>7, <2>1, i \in m + 1 .. n
    <3> QED
      BY <3>1, <3>2
  <2> QED
    BY ONLY <2>1, <2>2, <2>3, <2>4 DEF CodeAgrees
<1> QED
  BY ONLY <1>1, <1>10, <1>11, <1>12, q.mod = e.mod, q.funcs = e.funcs, IsWasm(v) DEF Paired

\* A module without functions.
LEMMA NewPaired == Paired(NewEncoder, NewModule, 0, 0)
<1>1. PICK e, w, t : e = NewEncoder /\ w = NewModule /\ t = Empty
  OBVIOUS
<1>2. /\ e.mod = Add(t, << 0 >>) /\ e.funcs = << >> /\ e.code = << >>
  BY ONLY <1>1 DEF NewEncoder
<1>3. IsWasm(w) /\ w.funcs = << >>
  BY ONLY <1>1 DEF NewModule, IsWasm
<1>4. TabInv(t) /\ Len(t.vec) = 0
  <2>1. t.vec = << >>
    BY ONLY <1>1 DEF Empty
  <2> QED
    BY ONLY <1>1, <2>1, EmptyKeeps
<1>5. IsSeq(<< 0 >>) /\ << 0 >> # << >>
  <2>1. << 0 >> \in Seq(Nat) /\ << 0 >> # << >>
    OBVIOUS
  <2> QED
    BY <2>1 DEF IsSeq
<1>6. PICK n \in Nat : n = 0
  OBVIOUS
<1>7. PICK u : u = Add(t, << 0 >>)
  OBVIOUS
<1>8. /\ Len(u.vec) = n + 1 /\ EntryBytes(u, n + 1) = << 0 >> /\ u.vec[n + 1].off = Len(t.buf)
      /\ Len(u.buf) = Len(t.buf) + Len(<< 0 >>) /\ Len(<< 0 >>) \in Nat \ {0} /\ Len(t.buf) \in Nat
  <2>1. n = Len(t.vec)
    BY ONLY <1>4, <1>6
  <2>2. PICK s : s = << 0 >> /\ IsSeq(s) /\ s # << >> /\ u = Add(t, s)
    BY ONLY <1>5, <1>7
  <2>3. IsSeq(s) /\ s # << >> /\ u = Add(t, s) /\ TabInv(t)
    BY ONLY <1>4, <2>2
  <2>4. /\ Len(u.vec) = n + 1 /\ EntryBytes(u, n + 1) = s /\ u.vec[n + 1].off = Len(t.buf)
        /\ Len(u.buf) = Len(t.buf) + Len(s) /\ Len(s) \in Nat \ {0} /\ Len(t.buf) \in Nat
        /\ \A i \in 1 .. n : EntryBytes(u, i) = EntryBytes(t, i) /\ u.vec[i] = t.vec[i]
    BY ONLY <2>1, <2>3, n \in Nat, AddEntries
  <2> QED
    BY ONLY <2>2, <2>4
<1>9. Len(u.vec) = 0 + 1 /\ EntryBytes(u, 1) = << 0 >>
  BY ONLY <1>6, <1>8
<1>10. << >> \in Seq({}) /\ Len(<< >>) = 0
  OBVIOUS
<1>11. FuncsTyped(<< >>, << >>, 0)
  BY ONLY <1>10 DEF FuncsTyped, IsSeq
<1>12. NamesAgree(u, << >>, << >>, 0)
  BY ONLY <1>9 DEF NamesAgree
<1>13. CodeAgrees(<< >>, << >>, << >>, 0, 0)
  BY ONLY <1>10 DEF CodeAgrees
<1> QED
  BY ONLY <1>1, <1>2, <1>3, <1>7, <1>11, <1>12, <1>13 DEF Paired

\* The encoder and the module have the same functions: first the imports, which are all
\* there are before the functions are converted; while one is, it has the last body.
IdxInv ==
  phase # "aborted" =>
    \E n, m \in Nat : /\ Paired(enc, wasm, n, m)
                      /\ phase \in {"imports", "globals"} => m = n
                      /\ phase = "body" => m < n

\* The names of functions fit the 16 bits that the offset of a name has (UBH_FUNC).
SmallNames == Len(enc.mod.buf) <= UINT16

\* No two functions of the wasm module have the same name.
NamesDiffer == "dupname" \notin Unusual

\* A declaration with a name that no function has adds a function, or the converter stops.
LEMMA NewNameAdded ==
  ASSUME NamesDiffer, NEW name, NewName(name), NEW n \in Nat, NEW m \in Nat, Paired(enc, wasm, n, m),
         NEW e, Started(e.mod), e.mod = enc.mod, e.funcs = enc.funcs, ~Request_fails(e, name)
  PROVE  ~Contained(e, name)
<1>1. \A i \in DOMAIN wasm.funcs : wasm.funcs[i].name # name
  BY DEF NewName, Usual, NamesDiffer
<1>2. IsSeq(wasm.funcs) /\ Len(wasm.funcs) = n /\ IsSeq(enc.funcs) /\ Len(enc.funcs) = n
      /\ NamesAgree(enc.mod, enc.funcs, wasm.funcs, n)
  BY DEF Paired, FuncsTyped
<1>3. PICK ws : ws = wasm.funcs
  OBVIOUS
<1>4. DOMAIN ws = 1 .. n
  BY <1>2, <1>3 DEF IsSeq
<1>5. \A i \in 1 .. n : ws[i].name # name
  BY ONLY <1>1, <1>3, <1>4
<1>6. NamesAgree(e.mod, e.funcs, ws, n) /\ IsSeq(e.funcs) /\ Len(e.funcs) = n
  BY ONLY <1>2, <1>3, e.mod = enc.mod, e.funcs = enc.funcs
<1> QED
  BY ONLY <1>5, <1>6, n \in Nat, Started(e.mod), ~Request_fails(e, name), NewNameFails

\* An import is a new function of both.
LEMMA ImportIdx ==
  ASSUME NamesDiffer, EncOK(enc), IdxInv, SmallNames', NEW d \in Decls, Import_func(d[1], d[2])
  PROVE  IdxInv'
<1>1. PICK name, sg, e : name = d[1] /\ sg = d[2] /\ e = Add_type(enc, sg[1], sg[2])
  OBVIOUS
<1>2. name \in Names /\ SigOK(sg)
  BY <1>1, Given, ImageAssumption
<1>3. EncOK(e)
  BY <1>1, <1>2, AddTypeKeeps DEF SigOK
<1>4. e.mod = enc.mod /\ e.funcs = enc.funcs /\ e.code = enc.code
  BY <1>1, AddTypeLeaves
<1>5. CASE phase' = "aborted"
  BY <1>5 DEF IdxInv
<1>6. CASE phase' # "aborted"
  <2>1. /\ phase = "imports" /\ NewName(name) /\ ~Request_fails(e, name) /\ phase' = "imports"
        /\ enc' = Request_native_func(e, name, Type_idx(e, sg[1], sg[2]), sg[1], sg[2])
        /\ wasm' = [wasm EXCEPT !.funcs = Append(@, WasmFunc(TRUE, name, sg))]
    BY ONLY Import_func(d[1], d[2]), <1>1, <1>6 DEF Import_func, Abort
  <2>2. PICK n \in Nat : Paired(enc, wasm, n, n)
    BY <2>1 DEF IdxInv
  <2>3. ~Contained(e, name)
    <3>1. Started(e.mod)
      BY ONLY <1>3 DEF EncOK
    <3> QED
      BY ONLY <3>1, <1>4, <2>1, <2>2, NamesDiffer, NewNameAdded
  <2>4. Paired(e, wasm, n, n)
    BY ONLY <1>4, <2>2 DEF Paired
  <2>5. PICK q, v, k : q = enc' /\ v = wasm' /\ k = Type_idx(e, sg[1], sg[2])
    OBVIOUS
  <2>6. /\ q = Request_native_func(e, name, k, sg[1], sg[2]) /\ v = [wasm EXCEPT !.funcs = Append(@, WasmFunc(TRUE, name, sg))]
        /\ Len(q.mod.buf) <= UINT16
    BY ONLY <2>1, <2>5, SmallNames' DEF SmallNames
  <2>7. Paired(q, v, n + 1, n + 1)
    BY ONLY <1>2, <1>3, <2>3, <2>4, <2>6, n \in Nat, ImportPaired
  <2>8. Paired(enc', wasm', n + 1, n + 1) /\ n + 1 \in Nat
    BY ONLY <2>5, <2>7, n \in Nat
  <2> QED
    BY ONLY <2>1, <2>8 DEF IdxInv
<1> QED
  BY <1>5, <1>6

\* A function with code is a new function of both, and has the last body.
LEMMA CreateIdx ==
  ASSUME NamesDiffer, EncOK(enc), IdxInv, SmallNames', NEW d \in Decls, Create_ubh_code(d[1], d[2])
  PROVE  IdxInv'
<1>1. PICK name, sg, e : name = d[1] /\ sg = d[2] /\ e = Add_type(enc, sg[1], sg[2])
  OBVIOUS
<1>2. name \in Names /\ SigOK(sg)
  BY <1>1, Given, ImageAssumption
<1>3. EncOK(e)
  BY <1>1, <1>2, AddTypeKeeps DEF SigOK
<1>4. e.mod = enc.mod /\ e.funcs = enc.funcs /\ e.code = enc.code
  BY <1>1, AddTypeLeaves
<1>5. CASE phase' = "aborted"
  BY <1>5 DEF IdxInv
<1>6. CASE phase' # "aborted"
  <2>1. PICK k, p : k = Type_idx(e, sg[1], sg[2]) /\ p = Inner_request_func(e, name, k, FALSE)
    OBVIOUS
  <2>2. /\ phase = "functions" /\ NewName(name) /\ ~Request_fails(e, name) /\ phase' = "body"
        /\ enc' = Start_func(p, Func_idx(e, p, name))
        /\ wasm' = [wasm EXCEPT !.funcs = Append(@, WasmFunc(FALSE, name, sg))]
    BY ONLY Create_ubh_code(d[1], d[2]), <1>1, <1>6, <2>1 DEF Create_ubh_code, Abort
  <2>3. PICK n \in Nat, m \in Nat : Paired(enc, wasm, n, m)
    BY <2>2 DEF IdxInv
  <2>4. ~Contained(e, name)
    <3>1. Started(e.mod)
      BY ONLY <1>3 DEF EncOK
    <3> QED
      BY ONLY <3>1, <1>4, <2>2, <2>3, NamesDiffer, NewNameAdded
  <2>5. Paired(e, wasm, n, m)
    BY ONLY <1>4, <2>3 DEF Paired
  <2>6. PICK q, v : q = enc' /\ v = wasm'
    OBVIOUS
  <2>7. /\ q = Start_func(p, Func_idx(e, p, name)) /\ v = [wasm EXCEPT !.funcs = Append(@, WasmFunc(FALSE, name, sg))]
        /\ Len(q.mod.buf) <= UINT16 /\ p = Inner_request_func(e, name, k, FALSE)
    BY ONLY <2>1, <2>2, <2>6, SmallNames' DEF SmallNames
  <2>8. Paired(q, v, n + 1, m)
    BY ONLY <1>2, <1>3, <2>4, <2>5, <2>7, n \in Nat, m \in Nat, CodePaired
  <2>9. Paired(enc', wasm', n + 1, m) /\ n + 1 \in Nat /\ m < n + 1
    <3>1. m <= n
      BY ONLY <2>3 DEF Paired, CodeAgrees
    <3> QED
      BY ONLY <3>1, <2>6, <2>8, n \in Nat, m \in Nat
  <2> QED
    BY ONLY <2>2, <2>9, m \in Nat DEF IdxInv
<1> QED
  BY <1>5, <1>6

\* An instruction is added to the function and to its body.
LEMMA InstIdx ==
  ASSUME EncOK(enc), IdxInv, NEW words, Add_inst(words)
  PROVE  IdxInv'
<1>1. /\ phase = "body" /\ phase' = "body"
      /\ enc' = [enc EXCEPT !.code[Cur].insts = @ \o words]
      /\ wasm' = [wasm EXCEPT !.funcs[Fn].insts = @ \o words]
  BY DEF Add_inst
<1>2. PICK n \in Nat, m \in Nat : Paired(enc, wasm, n, m) /\ m < n
  BY <1>1 DEF IdxInv
<1>3. IsWasm(wasm) /\ Fn = n /\ n \in 1 .. n /\ IsWasmFunc(wasm.funcs[n])
  <2>1. n \in 1 .. n
    BY ONLY <1>2, n \in Nat, m \in Nat
  <2> QED
    BY <2>1, <1>2 DEF Paired, FuncsTyped, Fn
<1>4. PICK q, v, c : q = enc' /\ v = wasm' /\ c = Cur /\ c = Len(enc.code)
  BY DEF Cur
<1>5. PICK b, x : b = [enc.code[c] EXCEPT !.insts = @ \o words] /\ x = [wasm.funcs[n] EXCEPT !.insts = @ \o words]
  OBVIOUS
<1>6. q = [enc EXCEPT !.code[c] = b] /\ v = [wasm EXCEPT !.funcs[n] = x]
  BY ONLY <1>1, <1>3, <1>4, <1>5
<1>7. q.mod = enc.mod /\ q.funcs = enc.funcs /\ q.code = [enc.code EXCEPT ![c] = b]
  BY <1>6 DEF EncOK, IsEnc
<1>8. IsWasm(v) /\ v.funcs = [wasm.funcs EXCEPT ![n] = x]
  BY ONLY <1>3, <1>6 DEF IsWasm
<1>9. /\ IsWasmFunc(x) /\ x.name = wasm.funcs[n].name /\ x.imported = wasm.funcs[n].imported
      /\ x.insts = wasm.funcs[n].insts \o words
  BY ONLY <1>3, <1>5 DEF IsWasmFunc
<1>10. IsBody(enc.code[c]) /\ enc.code[c].insts = wasm.funcs[n].insts
  <2>1. Len(enc.code) = n - m /\ \A i \in m + 1 .. n : enc.code[i - m].insts = wasm.funcs[i].insts
    BY ONLY <1>2 DEF Paired, CodeAgrees
  <2>2. n \in m + 1 .. n /\ c = n - m /\ c \in 1 .. Len(enc.code)
    BY ONLY <2>1, <1>2, <1>4, n \in Nat, m \in Nat
  <2>3. IsBody(enc.code[c])
    BY <2>2 DEF EncOK, BodiesOK
  <2> QED
    BY ONLY <2>1, <2>2, <2>3
<1>11. b.insts = x.insts
  <2>1. b.insts = enc.code[c].insts \o words
    BY ONLY <1>5, <1>10 DEF IsBody
  <2> QED
    BY ONLY <2>1, <1>9, <1>10
<1>12. Paired(q, v, n, m)
  <2>1. PICK e, w : e = enc /\ w = wasm
    OBVIOUS
  <2>2. EncOK(e) /\ Paired(e, w, n, m) /\ m < n /\ c = Len(e.code)
    BY ONLY <2>1, <1>2, <1>4, EncOK(enc)
  <2>3. BodyChanges(e, w, n, c, b, x, q, v)
    BY ONLY <2>1, <2>2, <1>7, <1>8, <1>9, <1>11 DEF BodyChanges
  <2> QED
    BY ONLY <2>2, <2>3, n \in Nat, m \in Nat, BodyPaired
<1>13. Paired(enc', wasm', n, m) /\ m < n
  BY ONLY <1>2, <1>4, <1>12
<1> QED
  BY ONLY <1>1, <1>13, n \in Nat, m \in Nat DEF IdxInv

\* A label does not change the instructions of its body.
LEMMA LabelLeaves ==
  ASSUME NEW b, IsBody(b), NEW l
  PROVE  Request_label(b, l).insts = b.insts /\ Set_label(b, l).insts = b.insts
<1>1. PICK c : c = Request_label(b, l)
  OBVIOUS
<1>2. IsBody(c) /\ c.insts = b.insts
  <2>1. CASE Contains_str(b.names, l)
    BY <1>1, <2>1 DEF Request_label
  <2>2. CASE ~Contains_str(b.names, l)
    BY <1>1, <2>2 DEF Request_label, IsBody
  <2> QED
    BY <2>1, <2>2
<1>3. PICK q : q = Set_label(b, l)
  OBVIOUS
<1>4. q.insts = c.insts
  BY <1>1, <1>2, <1>3 DEF Set_label, IsBody
<1> QED
  BY ONLY <1>1, <1>2, <1>3, <1>4

\* A label is requested or set in the last body.
LEMMA LabelIdx ==
  ASSUME EncOK(enc), IdxInv, phase = "body", phase' = "body", NEW b,
         IsBody(enc.code[Cur]) => b.insts = enc.code[Cur].insts, enc' = [enc EXCEPT !.code[Cur] = b],
         NEW x, IsWasmFunc(wasm.funcs[Fn]) => /\ IsWasmFunc(x) /\ x.name = wasm.funcs[Fn].name
                                             /\ x.imported = wasm.funcs[Fn].imported /\ x.insts = wasm.funcs[Fn].insts,
         wasm' = [wasm EXCEPT !.funcs[Fn] = x]
  PROVE  IdxInv'
<1>1. PICK n \in Nat, m \in Nat : Paired(enc, wasm, n, m) /\ m < n
  BY DEF IdxInv
<1>2. IsWasm(wasm) /\ Fn = n /\ n \in 1 .. n /\ IsWasmFunc(wasm.funcs[n])
  <2>1. n \in 1 .. n
    BY ONLY <1>1, n \in Nat, m \in Nat
  <2> QED
    BY <2>1, <1>1 DEF Paired, FuncsTyped, Fn
<1>3. PICK q, v, c : q = enc' /\ v = wasm' /\ c = Cur /\ c = Len(enc.code)
  BY DEF Cur
<1>4. q = [enc EXCEPT !.code[c] = b] /\ v = [wasm EXCEPT !.funcs[n] = x]
  BY ONLY <1>2, <1>3, enc' = [enc EXCEPT !.code[Cur] = b], wasm' = [wasm EXCEPT !.funcs[Fn] = x]
<1>5. q.mod = enc.mod /\ q.funcs = enc.funcs /\ q.code = [enc.code EXCEPT ![c] = b]
  BY <1>4 DEF EncOK, IsEnc
<1>6. IsWasm(v) /\ v.funcs = [wasm.funcs EXCEPT ![n] = x]
  BY ONLY <1>2, <1>4 DEF IsWasm
<1>7. /\ IsWasmFunc(x) /\ x.name = wasm.funcs[n].name /\ x.imported = wasm.funcs[n].imported
      /\ x.insts = wasm.funcs[n].insts
  BY <1>2
<1>8. IsBody(enc.code[c]) /\ enc.code[c].insts = wasm.funcs[n].insts
  <2>1. Len(enc.code) = n - m /\ \A i \in m + 1 .. n : enc.code[i - m].insts = wasm.funcs[i].insts
    BY ONLY <1>1 DEF Paired, CodeAgrees
  <2>2. n \in m + 1 .. n /\ c = n - m /\ c \in 1 .. Len(enc.code)
    BY ONLY <2>1, <1>1, <1>3, n \in Nat, m \in Nat
  <2>3. IsBody(enc.code[c])
    BY <2>2 DEF EncOK, BodiesOK
  <2> QED
    BY ONLY <2>1, <2>2, <2>3
<1>9. b.insts = x.insts
  <2>1. b.insts = enc.code[c].insts
    BY <1>3, <1>8
  <2> QED
    BY ONLY <2>1, <1>7, <1>8
<1>10. Paired(q, v, n, m)
  <2>1. PICK e, w : e = enc /\ w = wasm
    OBVIOUS
  <2>2. EncOK(e) /\ Paired(e, w, n, m) /\ m < n /\ c = Len(e.code)
    BY ONLY <2>1, <1>1, <1>3, EncOK(enc)
  <2>3. BodyChanges(e, w, n, c, b, x, q, v)
    BY ONLY <2>1, <2>2, <1>5, <1>6, <1>7, <1>9 DEF BodyChanges
  <2> QED
    BY ONLY <2>2, <2>3, n \in Nat, m \in Nat, BodyPaired
<1>11. Paired(enc', wasm', n, m) /\ m < n
  BY ONLY <1>1, <1>3, <1>10
<1> QED
  BY ONLY <1>11, phase' = "body", n \in Nat, m \in Nat DEF IdxInv

\* A label is mentioned by a branch.
LEMMA MentionIdx ==
  ASSUME EncOK(enc), IdxInv, NEW l, Request(l)
  PROVE  IdxInv'
<1>1. phase = "body" /\ phase' = "body" /\ enc' = [enc EXCEPT !.code[Cur] = Request_label(enc.code[Cur], l)]
      /\ wasm' = IF Mentioned(l) # 0 THEN wasm ELSE [wasm EXCEPT !.funcs[Fn].labels = With(l, None)]
  BY DEF Request
<1>2. PICK b : b = Request_label(enc.code[Cur], l)
  OBVIOUS
<1>3. enc' = [enc EXCEPT !.code[Cur] = b] /\ (IsBody(enc.code[Cur]) => b.insts = enc.code[Cur].insts)
  BY ONLY <1>1, <1>2, LabelLeaves
<1>4. PICK x : /\ wasm' = [wasm EXCEPT !.funcs[Fn] = x]
               /\ IsWasmFunc(wasm.funcs[Fn]) => /\ IsWasmFunc(x) /\ x.name = wasm.funcs[Fn].name
                                                /\ x.imported = wasm.funcs[Fn].imported /\ x.insts = wasm.funcs[Fn].insts
  <2>1. CASE Mentioned(l) # 0
    <3>1. wasm' = wasm
      BY ONLY <1>1, <2>1
    <3>2. IsWasm(wasm) /\ IsSeq(wasm.funcs)
      BY <1>1 DEF IdxInv, Paired, FuncsTyped
    <3>3. wasm.funcs = [wasm.funcs EXCEPT ![Fn] = wasm.funcs[Fn]]
      <4>1. PICK S : wasm.funcs \in Seq(S)
        BY ONLY <3>2 DEF IsSeq
      <4>2. wasm.funcs \in [1 .. Len(wasm.funcs) -> S]
        BY ONLY <4>1
      <4> QED
        BY ONLY <4>2
    <3>4. [wasm EXCEPT !.funcs[Fn] = wasm.funcs[Fn]] = wasm
      <4>1. PICK fs, f : fs = wasm.funcs /\ f = wasm.funcs[Fn] /\ [fs EXCEPT ![Fn] = f] = fs
        BY ONLY <3>3
      <4>2. [wasm EXCEPT !.funcs = fs] = wasm
        BY ONLY <3>2, <4>1 DEF IsWasm
      <4> QED
        BY ONLY <4>1, <4>2
    <3> QED
      BY ONLY <3>1, <3>4
  <2>2. CASE ~(Mentioned(l) # 0)
    <3>1. PICK ls, x : ls = With(l, None) /\ x = [wasm.funcs[Fn] EXCEPT !.labels = ls]
      OBVIOUS
    <3>2. wasm' = [wasm EXCEPT !.funcs[Fn].labels = ls]
      BY ONLY <1>1, <2>2, <3>1
    <3>3. wasm' = [wasm EXCEPT !.funcs[Fn] = x]
      BY ONLY <3>1, <3>2
    <3>4. IsWasmFunc(wasm.funcs[Fn]) => /\ IsWasmFunc(x) /\ x.name = wasm.funcs[Fn].name
                                        /\ x.imported = wasm.funcs[Fn].imported /\ x.insts = wasm.funcs[Fn].insts
      BY ONLY <3>1 DEF IsWasmFunc
    <3> QED
      BY ONLY <3>3, <3>4
  <2> QED
    BY <2>1, <2>2
<1> QED
  BY ONLY <1>1, <1>3, <1>4, EncOK(enc), IdxInv, LabelIdx

\* A label is set.
LEMMA SetIdx ==
  ASSUME EncOK(enc), IdxInv, NEW l, Add_label(l)
  PROVE  IdxInv'
<1>1. phase = "body" /\ phase' = "body" /\ enc' = [enc EXCEPT !.code[Cur] = Set_label(enc.code[Cur], l)]
      /\ wasm' = [wasm EXCEPT !.funcs[Fn].labels = With(l, Len(wasm.funcs[Fn].insts))]
  BY DEF Add_label
<1>2. PICK b : b = Set_label(enc.code[Cur], l)
  OBVIOUS
<1>3. enc' = [enc EXCEPT !.code[Cur] = b] /\ (IsBody(enc.code[Cur]) => b.insts = enc.code[Cur].insts)
  BY ONLY <1>1, <1>2, LabelLeaves
<1>4. PICK x : /\ wasm' = [wasm EXCEPT !.funcs[Fn] = x]
               /\ IsWasmFunc(wasm.funcs[Fn]) => /\ IsWasmFunc(x) /\ x.name = wasm.funcs[Fn].name
                                                /\ x.imported = wasm.funcs[Fn].imported /\ x.insts = wasm.funcs[Fn].insts
  <2>1. PICK ls, x : ls = With(l, Len(wasm.funcs[Fn].insts)) /\ x = [wasm.funcs[Fn] EXCEPT !.labels = ls]
    OBVIOUS
  <2>2. wasm' = [wasm EXCEPT !.funcs[Fn].labels = ls]
    BY ONLY <1>1, <2>1
  <2>3. wasm' = [wasm EXCEPT !.funcs[Fn] = x]
    BY ONLY <2>1, <2>2
  <2>4. IsWasmFunc(wasm.funcs[Fn]) => /\ IsWasmFunc(x) /\ x.name = wasm.funcs[Fn].name
                                      /\ x.imported = wasm.funcs[Fn].imported /\ x.insts = wasm.funcs[Fn].insts
    BY ONLY <2>1 DEF IsWasmFunc
  <2> QED
    BY ONLY <2>3, <2>4
<1> QED
  BY ONLY <1>1, <1>3, <1>4, EncOK(enc), IdxInv, LabelIdx

\* A step that leaves functions, names and code alone.
LEMMA OtherIdx ==
  ASSUME IdxInv, phase # "aborted", enc'.mod = enc.mod, enc'.funcs = enc.funcs, enc'.code = enc.code,
         wasm'.funcs = wasm.funcs, IsWasm(wasm) => IsWasm(wasm'),
         phase' \in {"imports", "globals"} => phase \in {"imports", "globals"}, phase' = "body" => phase = "body"
  PROVE  IdxInv'
<1>1. PICK n \in Nat, m \in Nat : /\ Paired(enc, wasm, n, m) /\ (phase \in {"imports", "globals"} => m = n)
                                  /\ (phase = "body" => m < n)
  BY DEF IdxInv
<1>2. PICK q, v : q = enc' /\ v = wasm'
  OBVIOUS
<1>3. q.mod = enc.mod /\ q.funcs = enc.funcs /\ q.code = enc.code /\ v.funcs = wasm.funcs
  BY ONLY <1>2, enc'.mod = enc.mod, enc'.funcs = enc.funcs, enc'.code = enc.code, wasm'.funcs = wasm.funcs
<1>4. IsWasm(v)
  BY <1>1, <1>2 DEF Paired
<1>5. Paired(q, v, n, m)
  BY ONLY <1>1, <1>3, <1>4, OtherPaired
<1>6. Paired(enc', wasm', n, m)
  BY ONLY <1>2, <1>5
<1>7. (phase' \in {"imports", "globals"} => m = n) /\ (phase' = "body" => m < n)
  BY <1>1
<1> QED
  BY ONLY <1>6, <1>7, n \in Nat, m \in Nat DEF IdxInv

\* Every step keeps the functions of the encoder and of the module together.
LEMMA StepIdx ==
  ASSUME NamesDiffer, EncOK(enc), IdxInv, SmallNames', [Next]_vars
  PROVE  IdxInv'
<1>1. CASE UNCHANGED <<phase, wasm, enc>>
  BY ONLY <1>1, IdxInv DEF IdxInv
<1>2. CASE phase' = "aborted"
  BY ONLY <1>2 DEF IdxInv
<1>3. ASSUME NEW d \in Decls, Import_func(d[1], d[2]) PROVE IdxInv'
  BY ONLY <1>3, NamesDiffer, EncOK(enc), IdxInv, SmallNames', ImportIdx
<1>4. ASSUME NEW d \in Decls, Create_ubh_code(d[1], d[2]) PROVE IdxInv'
  BY ONLY <1>4, NamesDiffer, EncOK(enc), IdxInv, SmallNames', CreateIdx
<1>5. ASSUME NEW nm \in GlobalNames, Import_global(nm) PROVE IdxInv'
  <2>1. CASE phase' # "aborted"
    <3>1. PICK g, x : /\ phase = "imports" /\ phase' = phase /\ enc' = [enc EXCEPT !.glb = g]
                      /\ wasm' = [wasm EXCEPT !.globals = x]
      BY ONLY <1>5, <2>1 DEF Import_global, Abort
    <3>2. enc'.mod = enc.mod /\ enc'.funcs = enc.funcs /\ enc'.code = enc.code
      BY <3>1 DEF EncOK, IsEnc
    <3>3. IsWasm(wasm)
      BY <3>1 DEF IdxInv, Paired
    <3>4. wasm'.funcs = wasm.funcs /\ IsWasm(wasm')
      BY ONLY <3>1, <3>3 DEF IsWasm
    <3> QED
      BY ONLY <3>1, <3>2, <3>4, IdxInv, OtherIdx
  <2> QED
    BY <1>2, <2>1
<1>6. ASSUME NEW nm \in GlobalNames, NEW i \in Inits, Add_global(nm, i) PROVE IdxInv'
  <2>1. CASE phase' # "aborted"
    <3>1. PICK g, y, x : /\ g = Add(enc.glb, nm) /\ y = Append(enc.glbls, i % Word)
                         /\ x = Append(wasm.globals, [imported |-> FALSE, init |-> i, id |-> Len(enc.glbls)])
      OBVIOUS
    <3>2. /\ phase \in {"imports", "globals"} /\ phase' = "globals"
          /\ enc' = [enc EXCEPT !.glb = g, !.glbls = y] /\ wasm' = [wasm EXCEPT !.globals = x]
      BY ONLY <1>6, <2>1, <3>1 DEF Add_global, Abort
    <3>3. enc'.mod = enc.mod /\ enc'.funcs = enc.funcs /\ enc'.code = enc.code
      BY <3>2 DEF EncOK, IsEnc
    <3>4. IsWasm(wasm)
      BY <3>2 DEF IdxInv, Paired
    <3>5. wasm'.funcs = wasm.funcs /\ IsWasm(wasm')
      BY ONLY <3>2, <3>4 DEF IsWasm
    <3> QED
      BY ONLY <3>2, <3>3, <3>5, IdxInv, OtherIdx
  <2> QED
    BY <1>2, <2>1
<1>7. ASSUME NEW n \in DataSizes, Static_data(n) PROVE IdxInv'
  <2>1. PICK k : /\ phase \in {"imports", "globals"} /\ phase' = "functions"
                 /\ enc' = [enc EXCEPT !.data = k] /\ wasm' = [wasm EXCEPT !.data = n]
    BY ONLY <1>7 DEF Static_data
  <2>2. enc'.mod = enc.mod /\ enc'.funcs = enc.funcs /\ enc'.code = enc.code
    BY <2>1 DEF EncOK, IsEnc
  <2>3. IsWasm(wasm)
    BY <2>1 DEF IdxInv, Paired
  <2>4. wasm'.funcs = wasm.funcs /\ IsWasm(wasm')
    BY ONLY <2>1, <2>3 DEF IsWasm
  <2> QED
    BY ONLY <2>1, <2>2, <2>4, IdxInv, OtherIdx
<1>8. ASSUME NEW k \in {1, 2}, Add_inst(Words(k)) PROVE IdxInv'
  BY ONLY <1>8, EncOK(enc), IdxInv, InstIdx
<1>9. ASSUME NEW l \in LabelNames, Request(l) PROVE IdxInv'
  BY ONLY <1>9, EncOK(enc), IdxInv, MentionIdx
<1>10. ASSUME NEW l \in LabelNames, Add_label(l) PROVE IdxInv'
  BY ONLY <1>10, EncOK(enc), IdxInv, SetIdx
<1>11. CASE End_func
  <2>1. phase = "body" /\ phase' = "functions" /\ wasm' = wasm /\ enc' = enc
    BY ONLY <1>11 DEF End_func
  <2> QED
    BY ONLY <2>1, IdxInv, OtherIdx
<1>12. CASE Write
  <2>1. phase' \in {"imports", "written"} /\ wasm' = NewModule /\ enc' = NewEncoder
    BY ONLY <1>12 DEF Write
  <2>2. Paired(enc', wasm', 0, 0) /\ 0 \in Nat
    BY ONLY <2>1, NewPaired
  <2> QED
    BY ONLY <2>1, <2>2 DEF IdxInv
<1>13. ASSUME NEW n \in DOMAIN disk, NEW so \in Objects, Link(n, so) PROVE IdxInv'
  BY ONLY <1>1, <1>13 DEF Link
<1>14. ASSUME NEW n \in DOMAIN disk, NEW b \in Builds, Load_from_file(b, n) \/ UVM_load(b, n) PROVE IdxInv'
  BY ONLY <1>1, <1>14 DEF Load_from_file, UVM_load, Load
<1>15. CASE UNCHANGED vars
  BY ONLY <1>1, <1>15 DEF vars
<1> QED
  BY ONLY <1>3, <1>4, <1>5, <1>6, <1>7, <1>8, <1>9, <1>10, <1>11, <1>12, <1>13, <1>14, <1>15, [Next]_vars DEF Next

\* The imports are counted by the first function with code.
LEMMA LeadingIs ==
  ASSUME NEW e, NEW n \in Nat, NEW m \in Nat, m < n, IsSeq(e.funcs), Len(e.funcs) = n,
         \A i \in 1 .. n : e.funcs[i].extern = (i <= m)
  PROVE  Leading(e) = m + 1
<1>1. PICK fs : fs = e.funcs
  OBVIOUS
<1>2. PICK I : I = {i \in 1 .. Len(fs) : ~fs[i].extern}
  OBVIOUS
<1>3. ASSUME NEW i \in 1 .. n PROVE i \in I <=> i > m
  <2>1. fs[i].extern = (i <= m)
    BY <1>1
  <2>2. (i <= m) <=> ~(i > m)
    BY ONLY i \in 1 .. n, n \in Nat, m \in Nat
  <2>3. Len(fs) = n
    BY <1>1
  <2> QED
    BY ONLY <2>1, <2>2, <2>3, <1>2, i \in 1 .. n
<1>4. I \subseteq 1 .. n
  BY <1>1, <1>2
<1>5. m + 1 \in I /\ \A y \in I : m + 1 <= y
  <2>1. m + 1 \in 1 .. n /\ m + 1 > m
    BY ONLY m < n, n \in Nat, m \in Nat
  <2>2. \A y \in I : m + 1 <= y
    BY ONLY <1>3, <1>4, m \in Nat, n \in Nat
  <2> QED
    BY ONLY <2>1, <2>2, <1>3
<1>6. \A x \in I : (\A y \in I : x <= y) => x = m + 1
  BY ONLY <1>4, <1>5, n \in Nat, m \in Nat
<1>7. Min(I) = m + 1
  BY ONLY <1>5, <1>6 DEF Min
<1> QED
  BY <1>1, <1>2, <1>5, <1>7 DEF Leading, SelectInSeq

\* The string at the offset of a name is the name.
LEMMA NameFound ==
  ASSUME NEW t, TabInv(t), NEW k \in 1 .. Len(t.vec), NEW s \in Names, EntryBytes(t, k) = s
  PROVE  Cstr(t.buf, t.vec[k].off) = s
<1>1. PICK b, off, len : b = t.buf /\ off = t.vec[k].off /\ len = t.vec[k].len
  OBVIOUS
<1>2. IsSeq(b) /\ off \in Nat /\ len \in Nat /\ off + len <= Len(b)
  <2>1. Shape(t)
    BY DEF TabInv
  <2>2. t.vec[k].off \in Nat /\ t.vec[k].len \in Nat
    BY ONLY <2>1, k \in 1 .. Len(t.vec), EntryNat
  <2>3. IsSeq(t.buf)
    BY ONLY <2>1 DEF Shape
  <2>4. t.vec[k].off + t.vec[k].len <= Len(t.buf)
    BY ONLY <2>1, k \in 1 .. Len(t.vec) DEF Shape
  <2> QED
    BY ONLY <2>2, <2>3, <2>4, <1>1
<1>3. s = SubSeq(b, off + 1, off + len)
  BY <1>1 DEF EntryBytes, Bytes
<1>4. s \in Seq(0 .. 255) /\ s # << >> /\ \A j \in DOMAIN s : (s[j] = 0) <=> (j = Len(s))
  BY ImageAssumption
<1>5. Len(s) = len
  <2>1. PICK S : b \in Seq(S)
    BY <1>2 DEF IsSeq
  <2>2. CASE len # 0
    <3>1. off + 1 \in 1 .. Len(b) + 1 /\ off + len \in 1 .. Len(b) /\ off + 1 <= off + len
          /\ (off + len) - (off + 1) + 1 = len
      BY ONLY <1>2, <2>1, <2>2
    <3> QED
      BY ONLY <2>1, <3>1, <1>3, SubSeqProperties
  <2>3. CASE len = 0
    <3>1. s = << >>
      BY ONLY <2>1, <2>3, <1>2, <1>3, off + 0 < off + 1, SubSeqProperties
    <3> QED
      BY ONLY <3>1, <1>4
  <2> QED
    BY <2>2, <2>3
<1>6. len # 0 /\ \A j \in 1 .. len : (s[j] = 0) <=> (j = len)
  <2>1. Len(s) # 0 /\ DOMAIN s = 1 .. Len(s)
    BY ONLY <1>4
  <2> QED
    BY ONLY <2>1, <1>4, <1>5
<1>7. Cstr(b, off) = s
  <2>1. NullEnds(b, off, len, s)
    BY ONLY <1>2, <1>3, <1>6 DEF NullEnds
  <2> QED
    BY ONLY <2>1, CstrIs
<1> QED
  BY ONLY <1>1, <1>7

\* What it means for the indices.
LEMMA IdxAgrees ==
  ASSUME EncOK(enc), IdxInv
  PROVE  IndicesAgree
<1> SUFFICES ASSUME phase # "aborted" PROVE IndicesAgree
  BY DEF IndicesAgree
<1>1. PICK n \in Nat, m \in Nat : Paired(enc, wasm, n, m) /\ (phase = "body" => m < n)
  BY DEF IdxInv
<1>2. PICK fs, ws, t, code : fs = enc.funcs /\ ws = wasm.funcs /\ t = enc.mod /\ code = enc.code
  OBVIOUS
<1>3. FuncsTyped(fs, ws, n) /\ NamesAgree(t, fs, ws, n) /\ CodeAgrees(fs, ws, code, n, m)
  BY ONLY <1>1, <1>2 DEF Paired
<1>4. IsSeq(fs) /\ Len(fs) = n /\ Len(ws) = n
  BY ONLY <1>3 DEF FuncsTyped
<1>5. /\ m <= n /\ Len(code) = n - m
      /\ \A i \in 1 .. n : fs[i].extern = (i <= m) /\ ws[i].imported = (i <= m)
      /\ \A i \in m + 1 .. n : fs[i].code = i - m - 1 /\ code[i - m].insts = ws[i].insts
  BY ONLY <1>3 DEF CodeAgrees
<1>6. Fn = n /\ Cur = n - m
  BY ONLY <1>2, <1>4, <1>5 DEF Fn, Cur
<1>7. ASSUME m < n, NEW i \in 1 .. n PROVE Get_inst_encoder(enc, i - 1) = i - m
  <2>1. Leading(enc) = m + 1
    <3>1. IsSeq(enc.funcs) /\ Len(enc.funcs) = n /\ \A j \in 1 .. n : enc.funcs[j].extern = (j <= m)
      BY ONLY <1>2, <1>4, <1>5
    <3> QED
      BY ONLY <3>1, <1>7, n \in Nat, m \in Nat, LeadingIs
  <2> QED
    BY ONLY <2>1, i \in 1 .. n, n \in Nat, m \in Nat DEF Get_inst_encoder
<1>8. ASSUME NEW i \in 1 .. n PROVE Cstr(t.buf, fs[i].name) = ws[i].name
  <2>1. /\ fs[i].name = t.vec[i + 1].off /\ EntryBytes(t, i + 1) = ws[i].name /\ ws[i].name \in Names
        /\ Len(t.vec) = n + 1
    BY ONLY <1>3, i \in 1 .. n DEF NamesAgree
  <2>2. TabInv(t)
    BY <1>2 DEF EncOK, Started
  <2>3. PICK k \in 1 .. Len(t.vec) : k = i + 1
    BY ONLY <2>1, i \in 1 .. n, n \in Nat
  <2>4. Cstr(t.buf, t.vec[k].off) = ws[i].name
    BY ONLY <2>1, <2>2, <2>3, NameFound
  <2> QED
    BY ONLY <2>1, <2>3, <2>4
<1>9. ASSUME NEW i \in 1 .. n PROVE fs[i].extern = ws[i].imported
  BY ONLY <1>5, i \in 1 .. n, Zenon
<1>10. ASSUME NEW i \in 1 .. n, ~ws[i].imported
       PROVE  fs[i].code + 1 = Get_inst_encoder(enc, i - 1) /\ code[fs[i].code + 1].insts = ws[i].insts
  <2>1. ~(i <= m)
    BY ONLY <1>5, <1>10
  <2>2. i \in m + 1 .. n /\ m < n
    BY ONLY <2>1, i \in 1 .. n, n \in Nat, m \in Nat
  <2>3. fs[i].code + 1 = i - m
    BY ONLY <2>2, <1>5, n \in Nat, m \in Nat
  <2>4. Get_inst_encoder(enc, i - 1) = i - m
    BY ONLY <2>2, <1>7, i \in 1 .. n
  <2> QED
    BY ONLY <2>2, <2>3, <2>4, <1>5
<1>11. phase = "body" => Get_inst_encoder(enc, n - 1) = n - m
  <2> SUFFICES ASSUME phase = "body" PROVE Get_inst_encoder(enc, n - 1) = n - m
    OBVIOUS
  <2>1. m < n /\ n \in 1 .. n
    BY ONLY <1>1, phase = "body", n \in Nat, m \in Nat
  <2> QED
    BY ONLY <2>1, <1>7
<1>12. /\ Len(fs) = Fn
       /\ \A i \in 1 .. Fn : /\ Cstr(t.buf, fs[i].name) = ws[i].name /\ fs[i].extern = ws[i].imported
                             /\ ~ws[i].imported => /\ fs[i].code + 1 = Get_inst_encoder(enc, i - 1)
                                                   /\ code[fs[i].code + 1].insts = ws[i].insts
       /\ phase = "body" => Get_inst_encoder(enc, Fn - 1) = Cur
  BY ONLY <1>4, <1>6, <1>8, <1>9, <1>10, <1>11
<1> QED
  BY ONLY <1>2, <1>12 DEF IndicesAgree

\* However many functions a module imports and defines, their indices in the wasm file,
\* in the table of functions and among the code bodies agree at every point of the
\* conversion (Conv_func_idx, Cur_code_body, Get_inst_encoder), if no two of them have
\* the same name and the names fit the offset a function has for its name.
THEOREM FunctionIndices ==
  ASSUME NamesDiffer
  PROVE  Spec /\ []SmallNames => []IndicesAgree
<1>1. Init => IdxInv
  <2>1. Paired(NewEncoder, NewModule, 0, 0) /\ 0 \in Nat
    BY NewPaired
  <2> QED
    BY ONLY <2>1 DEF Init, IdxInv
<1>2. EncInv /\ IdxInv /\ SmallNames' /\ [Next]_vars => IdxInv'
  BY StepIdx DEF EncInv
<1>3. EncInv /\ IdxInv => IndicesAgree
  BY IdxAgrees DEF EncInv
<1> QED
  BY <1>1, <1>2, <1>3, EncoderInvariant, PTL DEF Spec

=============================================================================
