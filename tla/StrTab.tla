------------------------------- MODULE StrTab -------------------------------
(***************************************************************************)
(* U_STR_TAB: a buffer of bytes, the entries in it, and a cache that finds *)
(* an entry by its contents.  The keys of the cache are pointers into the  *)
(* buffer, a vector that moves when it grows: base numbers the places the  *)
(* buffer has been at, and a key is good only while it carries the current *)
(* one.  Entries and offsets count from 0, as in the code.                 *)
(***************************************************************************)
EXTENDS Integers, Sequences, FiniteSets

Empty == [buf |-> << >>, vec |-> << >>, cache |-> {}, cap |-> 0, base |-> 0]

Bytes(t, off, len) == SubSeq(t.buf, off + 1, off + len)

\* The entries of the cache the comparator finds equal to s.
Hits(t, s) == {k \in t.cache : k.base = t.base /\ Bytes(t, k.off, k.len) = s}

Contains_str(t, s) == Hits(t, s) # {}

Get_idx(t, s) == IF Contains_str(t, s) THEN (CHOOSE k \in Hits(t, s) : TRUE).idx ELSE 0

Get_off(t, idx) == t.vec[idx + 1].off

Key(t, idx) ==
  [base |-> t.base, off |-> t.vec[idx + 1].off, len |-> t.vec[idx + 1].len, idx |-> idx]

\* _cache[key] = idx: an equal key keeps its pointer and takes the new index.
Stored(t, idx) ==
  LET new == Key(t, idx)
      old == Hits(t, Bytes(t, new.off, new.len))
  IN IF old = {} THEN t.cache \cup {new}
     ELSE (t.cache \ old) \cup {[k EXCEPT !.idx = idx] : k \in old}

\* Mutant: the pointers into the old buffer are kept.
Rebuilt_never(t) == Stored(t, Len(t.vec) - 1)

\* The cache of the moved buffer; insert() keeps the first of equal keys.
Rebuilt(t) ==
  LET keys == {Key(t, i) : i \in 0 .. Len(t.vec) - 1}
  IN {k \in keys : \A j \in keys :
        Bytes(t, j.off, j.len) = Bytes(t, k.off, k.len) => k.idx <= j.idx}

\* How a vector grows: it takes as much again, or what is needed.
Grown(size, n) == size + (IF n > size THEN n ELSE size)

Add(t, s) ==
  LET off == Len(t.buf)
      moves == off + Len(s) > t.cap
      u == [t EXCEPT !.buf = @ \o s,
                     !.vec = Append(@, [off |-> off, len |-> Len(s)]),
                     !.cap = IF moves THEN Grown(off, Len(s)) ELSE @,
                     !.base = IF moves THEN @ + 1 ELSE @]
  IN [u EXCEPT !.cache = IF moves /\ off > 0 THEN Rebuilt(u) ELSE Stored(u, Len(t.vec))]

\* Request: the table afterwards, and the index it returns.
Requested(t, s) == IF Contains_str(t, s) THEN t ELSE Add(t, s)

RequestIdx(t, s) == Get_idx(Requested(t, s), s)

Zeros(n) == [k \in 1 .. n |-> 0]

Pad(t, align) ==
  IF (Len(t.buf) % align) # 0 THEN Add(t, Zeros(align - (Len(t.buf) % align))) ELSE t

\* The null-terminated string at an offset of a buffer.
Cstr(buf, off) ==
  LET nul == CHOOSE n \in off .. Len(buf) - 1 :
               buf[n + 1] = 0 /\ \A k \in off .. n - 1 : buf[k + 1] # 0
  IN SubSeq(buf, off + 1, nul + 1)
=============================================================================
