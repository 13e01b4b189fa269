---------------------------- MODULE SecurityCodes ----------------------------
(***************************************************************************)
(* market_data/identity.py: the history of the codes a security is traded  *)
(* under, loaded once.  A history is a set of intervals [sid, code, from,  *)
(* to], `to` excluded and Never if there is none; the empty set stands for *)
(* a reader without a history, for which a code is its own identity.       *)
(***************************************************************************)
LOCAL INSTANCE Naturals

CONSTANT Never   \* a date after every other: no end

Following(h, i, j) ==
  /\ i.sid = j.sid /\ i.from < j.from
  /\ ~\E k \in h : k.sid = i.sid /\ i.from < k.from /\ k.from < j.from

\* SecurityCodeHistory.__init__ raises nothing: a code belongs to one security
\* for ever, and the intervals of a security meet without a gap or an overlap.
Accepts(h) ==
  /\ h # {}
  /\ \A i \in h : i.from < i.to
  /\ \A i, j \in h : i.code = j.code => i.sid = j.sid
  /\ \A i, j \in h : i.sid = j.sid /\ i.from = j.from => i = j
  /\ \A i, j \in h : Following(h, i, j) => i.to = j.from

KnownCodes(h) == {i.code : i \in h}

\* sid
Sid(h, code) == (CHOOSE i \in h : i.code = code).sid

Aliases(h, sid) == {i.code : i \in {j \in h : j.sid = sid}}

\* aliases(sid)[0]: the code of the earliest interval.
First(h, sid) ==
  (CHOOSE i \in h : i.sid = sid /\ \A j \in h : j.sid = sid => i.from <= j.from).code

\* canonical; what the views make of a source's code leaves an unknown one as it is.
Canonical(h, code) == IF code \in KnownCodes(h) THEN First(h, Sid(h, code)) ELSE code

\* canonical_symbols raises nothing.
Mapped(h, codes) == h = {} \/ codes \subseteq KnownCodes(h)

InForce(i, sid, day) == i.sid = sid /\ i.from <= day /\ day < i.to

\* code_at, which raises an error on a day without a code.
HasCodeAt(h, sid, day) == \E i \in h : InForce(i, sid, day)
CodeAt(h, sid, day) == (CHOOSE i \in h : InForce(i, sid, day)).code
=============================================================================
