--------------------------- MODULE SecretsProofs ---------------------------
(***************************************************************************)
(* What saving and deleting a secret come to, whichever of their accesses  *)
(* fail and wherever the program ends.                                     *)
(***************************************************************************)
EXTENDS Secrets, TLAPS

Ending == {"ok", "error", "half", "crash"}
Stores(V, C) ==
  {s \in [hasKeychain : BOOLEAN, conf : C, keychain : [Names -> V], file : [Names -> V]] :
     ~s.hasKeychain => \A n \in Names : s.keychain[n] = Nothing}
Outcomes(S) == [s : S, is : Ending, bad : Nat]

(* The copies of a secret, of which there may be none. *)
Copies(s, n) == {s.file[n], s.keychain[n], Nothing}

(* At most the secret n is another, v or an older copy. *)
Touched(s, t, n, v) ==
  /\ t.conf = s.conf /\ t.hasKeychain = s.hasKeychain
  /\ \A m \in Names \ {n} : t.file[m] = s.file[m] /\ t.keychain[m] = s.keychain[m]
  /\ Copies(t, n) \subseteq Copies(s, n) \cup {v}
  /\ Get(t, n) \in {Get(s, n), v}

(* One outcome after another. *)
Like(x, o) == x.s = o.s /\ x.is = o.is

-----------------------------------------------------------------------------
LEMMA Ended ==
  ASSUME NEW S, NEW s \in S, NEW is \in Ending, NEW bad \in Nat, NEW o \in Ends(s, is, bad)
  PROVE  o \in Outcomes(S) /\ o.s = s /\ o.is = is
BY DEF Ends, Outcomes

LEMMA Written ==
  ASSUME NEW S, NEW s \in S, NEW t \in S, NEW o \in Write(s, t)
  PROVE  /\ o \in Outcomes(S) /\ o.is \in {"ok", "error", "crash"}
         /\ o.s = IF o.is = "error" THEN s ELSE t
BY DEF Write, Ends, Outcomes, Ending

LEMMA Afterwards ==
  ASSUME NEW S, NEW b \in Nat, NEW Q, NEW o \in After(b, Q), Q \subseteq Outcomes(S)
  PROVE  \E q \in Q : Like(o, q) /\ o \in Outcomes(S)
<1>1. PICK q \in Q : o = [q EXCEPT !.bad = @ + b] BY DEF After
<1>2. q \in Outcomes(S) OBVIOUS
<1> QED BY <1>1, <1>2 DEF Outcomes, Like

LEMMA ReadEnds ==
  ASSUME NEW S, NEW s \in S, NEW r \in FileRead(s)
  PROVE  r \in Outcomes(S) /\ r.s = s /\ r.is \in {"ok", "error"} /\ r.bad \in Nat
BY DEF FileRead, Done, Ends, Outcomes, Ending

LEMMA AsEnds ==
  ASSUME NEW S, NEW o \in Outcomes(S), NEW q \in As(o)
  PROVE  q \in Outcomes(S) /\ Like(q, o)
BY DEF As, Outcomes, Like

LEMMA UndoneEnds ==
  ASSUME NEW S, NEW Q, Q \subseteq Outcomes(S), NEW o \in Undone(Q)
  PROVE  \E q \in Q : /\ o.s = q.s /\ o \in Outcomes(S)
                      /\ \/ q.is = "ok" /\ o.is = "error"
                         \/ q.is \in {"error", "half"} /\ o.is = "half"
                         \/ q.is = "crash" /\ o.is = "crash"
<1>1. PICK q \in Q : o \in CASE q.is = "ok" -> After(q.bad, Fails(q.s))
                             [] q.is \in {"error", "half"} -> After(q.bad, Half(q.s))
                             [] OTHER -> {q}
  BY DEF Undone, Then
<1>2. q \in Outcomes(S) /\ q.s \in S /\ q.bad \in Nat /\ q.is \in Ending BY DEF Outcomes
<1>3. CASE q.is = "ok"
  <2>1. \A f \in Fails(q.s) : f \in Outcomes(S) /\ f.s = q.s /\ f.is = "error"
    BY <1>2, Ended DEF Fails, Ending
  <2>2. o \in After(q.bad, Fails(q.s)) BY <1>1, <1>3
  <2> QED BY <1>2, <1>3, <2>1, <2>2, Afterwards DEF Like
<1>4. CASE q.is \in {"error", "half"}
  <2>1. \A f \in Half(q.s) : f \in Outcomes(S) /\ f.s = q.s /\ f.is = "half"
    BY <1>2, Ended DEF Half, Ending
  <2>2. o \in After(q.bad, Half(q.s)) BY <1>1, <1>4
  <2> QED BY <1>2, <1>4, <2>1, <2>2, Afterwards DEF Like
<1>5. CASE q.is = "crash" BY <1>1, <1>2, <1>5
<1> QED BY <1>2, <1>3, <1>4, <1>5 DEF Ending

-----------------------------------------------------------------------------
(* The two places *)
KeychainWith(s, n, v) == [s EXCEPT !.keychain[n] = v]
FileWith(s, n, v) == [s EXCEPT !.file[n] = v]

LEMMA InKeychain ==
  ASSUME NEW V, NEW C, Nothing \in V, NEW s \in Stores(V, C), NEW n \in Names, NEW v \in V,
         v # Nothing => s.hasKeychain
  PROVE  LET t == KeychainWith(s, n, v)
         IN /\ t \in Stores(V, C) /\ t.conf = s.conf /\ t.hasKeychain = s.hasKeychain
            /\ t.file = s.file /\ t.keychain[n] = v
            /\ \A m \in Names \ {n} : t.keychain[m] = s.keychain[m]
<1> DEFINE t == [s EXCEPT !.keychain[n] = v]
<1>1. /\ t \in [hasKeychain : BOOLEAN, conf : C, keychain : [Names -> V], file : [Names -> V]]
      /\ t.conf = s.conf /\ t.hasKeychain = s.hasKeychain
      /\ t.file = s.file /\ t.keychain[n] = v
      /\ \A m \in Names \ {n} : t.keychain[m] = s.keychain[m]
  BY DEF Stores
<1>2. t \in Stores(V, C) BY <1>1 DEF Stores
<1> QED BY <1>1, <1>2 DEF KeychainWith

LEMMA GoneFromKeychain ==
  ASSUME NEW V, NEW C, Nothing \in V, NEW s \in Stores(V, C), NEW n \in Names
  PROVE  LET t == KeychainWith(s, n, Nothing)
         IN /\ t \in Stores(V, C) /\ t.conf = s.conf /\ t.hasKeychain = s.hasKeychain
            /\ t.file = s.file /\ t.keychain[n] = Nothing
            /\ \A m \in Names \ {n} : t.keychain[m] = s.keychain[m]
<1>1. Nothing # Nothing => s.hasKeychain OBVIOUS
<1> QED BY <1>1, InKeychain

LEMMA BackInKeychain ==
  ASSUME NEW V, NEW C, NEW s \in Stores(V, C), NEW n \in Names, NEW v
  PROVE  KeychainWith(KeychainWith(s, n, v), n, s.keychain[n]) = s
<1> DEFINE t == [[s EXCEPT !.keychain[n] = v] EXCEPT !.keychain[n] = s.keychain[n]]
<1>1. t.keychain = s.keychain BY DEF Stores
<1>2. t = s BY <1>1 DEF Stores
<1> QED BY <1>2 DEF KeychainWith

LEMMA InFile ==
  ASSUME NEW V, NEW C, Nothing \in V, NEW s \in Stores(V, C), NEW n \in Names, NEW v \in V
  PROVE  LET t == FileWith(s, n, v)
         IN /\ t \in Stores(V, C) /\ t.conf = s.conf /\ t.hasKeychain = s.hasKeychain
            /\ t.keychain = s.keychain /\ t.file[n] = v
            /\ \A m \in Names \ {n} : t.file[m] = s.file[m]
<1> DEFINE t == [s EXCEPT !.file[n] = v]
<1>1. /\ t \in [hasKeychain : BOOLEAN, conf : C, keychain : [Names -> V], file : [Names -> V]]
      /\ t.conf = s.conf /\ t.hasKeychain = s.hasKeychain
      /\ t.keychain = s.keychain /\ t.file[n] = v
      /\ \A m \in Names \ {n} : t.file[m] = s.file[m]
  BY DEF Stores
<1>2. t \in Stores(V, C) BY <1>1 DEF Stores
<1> QED BY <1>1, <1>2 DEF FileWith

LEMMA BackInFile ==
  ASSUME NEW V, NEW C, NEW s \in Stores(V, C), NEW n \in Names, NEW v
  PROVE  FileWith(FileWith(s, n, v), n, s.file[n]) = s
<1> DEFINE t == [[s EXCEPT !.file[n] = v] EXCEPT !.file[n] = s.file[n]]
<1>1. t.file = s.file BY DEF Stores
<1>2. t = s BY <1>1 DEF Stores
<1> QED BY <1>2 DEF FileWith

-----------------------------------------------------------------------------
(* Saving a secret, or deleting it (v is Nothing): no older copy is left;  *)
(* or what counts is as before; or in the middle of it each place has what *)
(* it had, the new secret or none, and what counts is the old or the new.  *)
SetsTo(s, o, n, v) ==
  /\ Touched(s, o.s, n, v)
  /\ o.is = "ok" => Copies(o.s, n) \subseteq {v, Nothing} /\ Get(o.s, n) = v
  /\ o.is = "error" => Get(o.s, n) = Get(s, n)

LEMMA OutOfFileEnds ==
  ASSUME NEW V, NEW C, Nothing \in V, NEW s \in Stores(V, C), NEW n \in Names, NEW v \in V \ {Nothing},
         s.hasKeychain,
         NEW o \in OutOfFile(s.keychain[n], KeychainWith(s, n, v), n)
  PROVE  o \in Outcomes(Stores(V, C)) /\ SetsTo(s, o, n, v)
<1> DEFINE S == Stores(V, C)
           k == KeychainWith(s, n, v)
<1>1. /\ k \in S /\ k.conf = s.conf /\ k.hasKeychain = s.hasKeychain
      /\ k.file = s.file /\ k.keychain[n] = v
      /\ \A m \in Names \ {n} : k.keychain[m] = s.keychain[m]
      /\ KeychainWith(k, n, s.keychain[n]) = s
  <2>1. v \in V /\ (v # Nothing => s.hasKeychain) OBVIOUS
  <2> QED BY ONLY <2>1, InKeychain, BackInKeychain, Nothing \in V, s \in Stores(V, C), n \in Names
<1>2. s.keychain[n] \in V BY DEF Stores
<1> HIDE DEF k
<1>3. CASE k.file[n] = Nothing
  <2>1. o \in Outcomes(S) /\ o.s = k /\ o.is = "ok" BY <1>1, <1>3, Ended DEF OutOfFile, Done, Ending, k
  <2> QED BY <1>1, <1>3, <2>1 DEF SetsTo, Touched, Copies, Get
<1>4. CASE k.file[n] # Nothing
  <2> DEFINE t == FileWith(k, n, Nothing)
  <2>1. /\ t \in S /\ t.conf = k.conf /\ t.hasKeychain = k.hasKeychain
        /\ t.keychain = k.keychain /\ t.file[n] = Nothing
        /\ \A m \in Names \ {n} : t.file[m] = k.file[m]
    BY ONLY <1>1, InFile, Nothing \in V, n \in Names
  <2> HIDE DEF t
  <2>2. \A p \in FilePut(k, n, Nothing) :
          p \in Outcomes(S) /\ p.is \in {"ok", "error", "crash"} /\ p.s = IF p.is = "error" THEN k ELSE t
    BY <1>1, <2>1, Written DEF FilePut, FileWith, t
  <2>3. PICK p \in FilePut(k, n, Nothing) :
          o \in CASE p.is = "ok" -> After(p.bad, Done(p.s))
                  [] p.is \in {"error", "half"} -> After(p.bad, Undone(KeychainPut(k, n, s.keychain[n])))
                  [] OTHER -> {p}
    BY <1>4 DEF OutOfFile, Then, k
  <2>4. p \in Outcomes(S) /\ p.bad \in Nat BY <2>2 DEF Outcomes
  <2>5. CASE p.is = "ok"
    <3>1. \A q \in Done(t) : q \in Outcomes(S) /\ q.s = t /\ q.is = "ok" BY <2>1, Ended DEF Done, Ending
    <3>2. o \in After(p.bad, Done(t)) BY <2>2, <2>3, <2>5
    <3>3. o \in Outcomes(S) /\ o.s = t /\ o.is = "ok" BY <2>4, <3>1, <3>2, Afterwards DEF Like
    <3> QED BY <1>1, <2>1, <3>3, ZenonT(30) DEF SetsTo, Touched, Copies, Get
  <2>6. CASE p.is = "error"
    <3>1. KeychainPut(k, n, s.keychain[n]) = Write(k, s) BY <1>1 DEF KeychainPut, KeychainWith
    <3>2. Write(k, s) \subseteq Outcomes(S) BY <1>1, Written
    <3>3. o \in After(p.bad, Undone(Write(k, s))) BY <2>3, <2>6, <3>1
    <3>4. Undone(Write(k, s)) \subseteq Outcomes(S) BY <3>2, UndoneEnds
    <3>5. PICK q \in Undone(Write(k, s)) : Like(o, q) /\ o \in Outcomes(S)
      BY <2>4, <3>3, <3>4, Afterwards
    <3>6. PICK w \in Write(k, s) : /\ q.s = w.s
                                   /\ \/ w.is = "ok" /\ q.is = "error"
                                      \/ w.is \in {"error", "half"} /\ q.is = "half"
                                      \/ w.is = "crash" /\ q.is = "crash"
      BY <3>2, UndoneEnds
    <3>7. w.is \in {"ok", "error", "crash"} /\ w.s = IF w.is = "error" THEN k ELSE s BY <1>1, Written
    <3>8. o.is # "ok" /\ (o.s = s \/ (o.s = k /\ o.is # "error"))
      <4>1. o.s = w.s /\ o.is = q.is BY <3>5, <3>6 DEF Like
      <4>2. CASE w.is = "ok" BY <3>6, <3>7, <4>1, <4>2
      <4>3. CASE w.is = "error" BY <3>6, <3>7, <4>1, <4>3
      <4>4. CASE w.is = "crash" BY <3>6, <3>7, <4>1, <4>4
      <4> QED BY <3>7, <4>2, <4>3, <4>4
    <3> QED BY <1>1, <1>4, <3>5, <3>8 DEF SetsTo, Touched, Copies, Get
  <2>7. CASE p.is = "crash"
    <3>1. o = p /\ p.s = t BY <2>2, <2>3, <2>7
    <3> QED BY <1>1, <2>1, <2>4, <2>7, <3>1, ZenonT(30) DEF SetsTo, Touched, Copies, Get
  <2> QED BY <2>2, <2>5, <2>6, <2>7
<1> QED BY <1>3, <1>4

LEMMA IntoFileEnds ==
  ASSUME NEW V, NEW C, Nothing \in V, NEW s \in Stores(V, C), NEW n \in Names, NEW v \in V \ {Nothing},
         NEW o \in IntoFile(s, n, v)
  PROVE  o \in Outcomes(Stores(V, C)) /\ SetsTo(s, o, n, v)
<1> DEFINE S == Stores(V, C)
           w == FileWith(s, n, v)
<1>1. /\ w \in S /\ w.conf = s.conf /\ w.hasKeychain = s.hasKeychain
      /\ w.keychain = s.keychain /\ w.file[n] = v
      /\ \A m \in Names \ {n} : w.file[m] = s.file[m]
      /\ FileWith(w, n, s.file[n]) = s
  <2>1. v \in V OBVIOUS
  <2> QED BY ONLY <2>1, InFile, BackInFile, Nothing \in V, s \in Stores(V, C), n \in Names
<1> HIDE DEF w
<1>2. \A p \in FilePut(s, n, v) :
        p \in Outcomes(S) /\ p.is \in {"ok", "error", "crash"} /\ p.s = IF p.is = "error" THEN s ELSE w
  BY <1>1, Written DEF FilePut, FileWith, w
<1>3. PICK p \in FilePut(s, n, v) :
        o \in CASE p.is = "ok" -> After(p.bad, IF p.s.keychain[n] = Nothing THEN Done(p.s)
                 ELSE Then(KeychainDelete(p.s, n), Done, LAMBDA x : Undone(FilePut(p.s, n, s.file[n]))))
                [] p.is \in {"error", "half"} -> After(p.bad, As(p))
                [] OTHER -> {p}
  BY DEF IntoFile, Then
<1>4. p \in Outcomes(S) /\ p.bad \in Nat BY <1>2 DEF Outcomes
<1>5. CASE p.is = "error"
  <2>1. p.s = s BY <1>2, <1>5
  <2>2. \A q \in As(p) : q \in Outcomes(S) /\ q.s = s /\ q.is = "error"
    BY <1>4, <1>5, <2>1, AsEnds DEF Like
  <2>3. o \in After(p.bad, As(p)) BY <1>3, <1>5
  <2>4. o \in Outcomes(S) /\ o.s = s /\ o.is = "error" BY <1>4, <2>2, <2>3, Afterwards DEF Like
  <2> QED BY <2>4 DEF SetsTo, Touched, Copies
<1>6. CASE p.is = "crash"
  <2>1. o = p /\ p.s = w BY <1>2, <1>3, <1>6
  <2> QED BY <1>1, <1>4, <1>6, <2>1 DEF SetsTo, Touched, Copies, Get
<1>7. CASE p.is = "ok" /\ w.keychain[n] = Nothing
  <2>1. p.s = w BY <1>2, <1>7
  <2>2. \A q \in Done(w) : q \in Outcomes(S) /\ q.s = w /\ q.is = "ok" BY <1>1, Ended DEF Done, Ending
  <2>3. o \in After(p.bad, Done(w)) BY <1>3, <1>7, <2>1
  <2>4. o \in Outcomes(S) /\ o.s = w /\ o.is = "ok" BY <1>4, <2>2, <2>3, Afterwards DEF Like
  <2> QED BY <1>1, <1>7, <2>4 DEF SetsTo, Touched, Copies, Get
<1>8. CASE p.is = "ok" /\ w.keychain[n] # Nothing
  <2> DEFINE g == KeychainWith(w, n, Nothing)
             D == Then(Write(w, g), Done, LAMBDA x : Undone(Write(w, s)))
  <2>1. w \in Stores(V, C) /\ w.hasKeychain BY <1>1, <1>8 DEF Stores
  <2>2. /\ g \in S /\ g.conf = w.conf /\ g.hasKeychain = w.hasKeychain
        /\ g.file = w.file /\ g.keychain[n] = Nothing
        /\ \A m \in Names \ {n} : g.keychain[m] = w.keychain[m]
    <3>1. \A x \in S : LET t == KeychainWith(x, n, Nothing)
                       IN /\ t \in S /\ t.conf = x.conf /\ t.hasKeychain = x.hasKeychain
                          /\ t.file = x.file /\ t.keychain[n] = Nothing
                          /\ \A m \in Names \ {n} : t.keychain[m] = x.keychain[m]
      BY GoneFromKeychain
    <3>2. w \in S BY <2>1
    <3> QED BY ONLY <3>1, <3>2
  <2>3. p.s = w BY <1>2, <1>8
  <2>4. /\ KeychainDelete(w, n) = Write(w, g) /\ FilePut(w, n, s.file[n]) = Write(w, s)
    BY <1>1, <2>1 DEF KeychainDelete, KeychainWith, FilePut, FileWith
  <2> HIDE DEF g
  <2>5. o \in After(p.bad, D) BY <1>3, <1>8, <2>3, <2>4
  <2>6. \A x \in D : x \in Outcomes(S) /\ SetsTo(s, x, n, v)
    <3> SUFFICES ASSUME NEW x \in D PROVE x \in Outcomes(S) /\ SetsTo(s, x, n, v) OBVIOUS
    <3>1. PICK d \in Write(w, g) :
            x \in CASE d.is = "ok" -> After(d.bad, Done(d.s))
                    [] d.is \in {"error", "half"} -> After(d.bad, Undone(Write(w, s)))
                    [] OTHER -> {d}
      BY DEF Then
    <3>2. d \in Outcomes(S) /\ d.is \in {"ok", "error", "crash"} /\ d.s = IF d.is = "error" THEN w ELSE g
      BY <1>1, <2>2, Written
    <3>3. d.bad \in Nat BY <3>2 DEF Outcomes
    <3>4. CASE d.is = "ok"
      <4>1. \A q \in Done(g) : q \in Outcomes(S) /\ q.s = g /\ q.is = "ok" BY <2>2, Ended DEF Done, Ending
      <4>2. x \in After(d.bad, Done(g)) BY <3>1, <3>2, <3>4
      <4>3. x \in Outcomes(S) /\ x.s = g /\ x.is = "ok" BY <3>3, <4>1, <4>2, Afterwards DEF Like
      <4> QED BY <1>1, <2>2, <4>3 DEF SetsTo, Touched, Copies, Get
    <3>5. CASE d.is = "error"
      <4>1. Write(w, s) \subseteq Outcomes(S) BY <1>1, Written
      <4>2. x \in After(d.bad, Undone(Write(w, s))) BY <3>1, <3>5
      <4>3. Undone(Write(w, s)) \subseteq Outcomes(S) BY <4>1, UndoneEnds
      <4>4. PICK q \in Undone(Write(w, s)) : Like(x, q) /\ x \in Outcomes(S)
        BY <3>3, <4>2, <4>3, Afterwards
      <4>5. PICK u \in Write(w, s) : /\ q.s = u.s
                                     /\ \/ u.is = "ok" /\ q.is = "error"
                                        \/ u.is \in {"error", "half"} /\ q.is = "half"
                                        \/ u.is = "crash" /\ q.is = "crash"
        BY <4>1, UndoneEnds
      <4>6. u.is \in {"ok", "error", "crash"} /\ u.s = IF u.is = "error" THEN w ELSE s BY <1>1, Written
      <4>7. x.is # "ok" /\ (x.s = s \/ (x.s = w /\ x.is # "error"))
        <5>1. x.s = u.s /\ x.is = q.is BY <4>4, <4>5 DEF Like
        <5>2. CASE u.is = "ok" BY <4>5, <4>6, <5>1, <5>2
        <5>3. CASE u.is = "error" BY <4>5, <4>6, <5>1, <5>3
        <5>4. CASE u.is = "crash" BY <4>5, <4>6, <5>1, <5>4
        <5> QED BY <4>6, <5>2, <5>3, <5>4
      <4> QED BY <1>1, <4>4, <4>7 DEF SetsTo, Touched, Copies, Get
    <3>6. CASE d.is = "crash"
      <4>1. x = d /\ d.s = g BY <3>1, <3>2, <3>6
      <4> QED BY <1>1, <2>2, <3>2, <3>6, <4>1 DEF SetsTo, Touched, Copies, Get
    <3> QED BY <3>2, <3>4, <3>5, <3>6
  <2> HIDE DEF D
  <2> QED BY <1>4, <2>5, <2>6, Afterwards DEF Like, SetsTo
<1> QED BY <1>2, <1>5, <1>6, <1>7, <1>8

LEMMA SetEnds ==
  ASSUME NEW V, NEW C, Nothing \in V, NEW s \in Stores(V, C), NEW n \in Names, NEW v \in V \ {Nothing},
         NEW o \in Set(s, n, v)
  PROVE  o \in Outcomes(Stores(V, C)) /\ SetsTo(s, o, n, v)
<1> DEFINE S == Stores(V, C)
           k == KeychainWith(s, n, v)
           D == Then(KeychainPut(s, n, v), LAMBDA x : OutOfFile(s.keychain[n], x, n),
                     LAMBDA x : IntoFile(s, n, v))
<1>1. PICK r \in FileRead(s) :
        o \in CASE r.is = "ok" ->
                After(r.bad, Then(KeychainPut(r.s, n, v),
                                  LAMBDA x : OutOfFile(r.s.keychain[n], x, n),
                                  LAMBDA x : IntoFile(r.s, n, v)))
                [] r.is \in {"error", "half"} -> After(r.bad, As(r))
                [] OTHER -> {r}
  BY DEF Set, Then
<1>2. r \in Outcomes(S) /\ r.s = s /\ r.is \in {"ok", "error"} /\ r.bad \in Nat
  BY ReadEnds
<1>3. CASE r.is = "error"
  <2>1. \A q \in As(r) : q \in Outcomes(S) /\ q.s = s /\ q.is = "error"
    BY <1>2, <1>3, AsEnds DEF Like
  <2>2. o \in After(r.bad, As(r)) BY <1>1, <1>3
  <2>3. o \in Outcomes(S) /\ o.s = s /\ o.is = "error" BY <1>2, <2>1, <2>2, Afterwards DEF Like
  <2> QED BY <2>3 DEF SetsTo, Touched, Copies
<1>4. CASE r.is = "ok"
  <2>1. o \in After(r.bad, D) BY <1>1, <1>2, <1>4
  <2>2. \A x \in D : x \in Outcomes(S) /\ SetsTo(s, x, n, v)
    <3> SUFFICES ASSUME NEW x \in D PROVE x \in Outcomes(S) /\ SetsTo(s, x, n, v) OBVIOUS
    <3>1. PICK p \in KeychainPut(s, n, v) :
            x \in CASE p.is = "ok" -> After(p.bad, OutOfFile(s.keychain[n], p.s, n))
                    [] p.is \in {"error", "half"} -> After(p.bad, IntoFile(s, n, v))
                    [] OTHER -> {p}
      BY DEF Then
    <3>2. CASE p.is = "error"
      <4>1. p.bad \in Nat BY DEF KeychainPut, Write, Fails, Ends
      <4>2. x \in After(p.bad, IntoFile(s, n, v)) BY <3>1, <3>2
      <4>3. \A q \in IntoFile(s, n, v) : q \in Outcomes(S) /\ SetsTo(s, q, n, v) BY IntoFileEnds
      <4> QED BY <4>1, <4>2, <4>3, Afterwards DEF Like, SetsTo
    <3>3. CASE p.is # "error"
      <4>1. s.hasKeychain BY <3>3 DEF KeychainPut, Fails, Ends
      <4>2. v \in V /\ (v # Nothing => s.hasKeychain) BY <4>1
      <4>3. /\ k \in S /\ k.conf = s.conf /\ k.hasKeychain = s.hasKeychain
            /\ k.file = s.file /\ k.keychain[n] = v
            /\ \A m \in Names \ {n} : k.keychain[m] = s.keychain[m]
        BY ONLY <4>2, InKeychain, Nothing \in V, s \in Stores(V, C), n \in Names
      <4>4. KeychainPut(s, n, v) = Write(s, k) BY <4>1 DEF KeychainPut, KeychainWith
      <4> HIDE DEF k
      <4>5. p \in Outcomes(S) /\ p.is \in {"ok", "crash"} /\ p.s = k /\ p.bad \in Nat
        BY <3>3, <4>3, <4>4, Written DEF Outcomes
      <4>6. CASE p.is = "ok"
        <5>1. x \in After(p.bad, OutOfFile(s.keychain[n], k, n)) BY <3>1, <4>5, <4>6
        <5>2. \A q \in OutOfFile(s.keychain[n], k, n) : q \in Outcomes(S) /\ SetsTo(s, q, n, v)
          BY <4>1, OutOfFileEnds DEF k
        <5> QED BY <4>5, <5>1, <5>2, Afterwards DEF Like, SetsTo
      <4>7. CASE p.is = "crash"
        <5>1. x = p BY <3>1, <4>7
        <5> QED BY <4>3, <4>5, <4>7, <5>1 DEF SetsTo, Touched, Copies, Get
      <4> QED BY <4>5, <4>6, <4>7
    <3> QED BY <3>2, <3>3
  <2> HIDE DEF D
  <2> QED BY <1>2, <2>1, <2>2, Afterwards DEF Like, SetsTo
<1> QED BY <1>2, <1>3, <1>4

LEMMA DeleteEnds ==
  ASSUME NEW V, NEW C, Nothing \in V, NEW s \in Stores(V, C), NEW n \in Names, NEW o \in Delete(s, n)
  PROVE  o \in Outcomes(Stores(V, C)) /\ SetsTo(s, o, n, Nothing)
<1> DEFINE S == Stores(V, C)
           k == KeychainWith(s, n, Nothing)
           F(w) == Then(FileRead(w),
                        LAMBDA r : IF r.file[n] = Nothing THEN Done(r) ELSE FilePut(r, n, Nothing),
                        LAMBDA x : IF w.keychain = s.keychain THEN As(x) ELSE Half(x.s))
<1>1. /\ k \in S /\ k.conf = s.conf /\ k.hasKeychain = s.hasKeychain
      /\ k.file = s.file /\ k.keychain[n] = Nothing
      /\ \A m \in Names \ {n} : k.keychain[m] = s.keychain[m]
  BY GoneFromKeychain
<1> HIDE DEF k
(* In either place of the keychain's deletion the rest ends alike. *)
<1>2. ASSUME NEW w \in S, w.conf = s.conf, w.hasKeychain = s.hasKeychain, w.file = s.file,
             w.keychain[n] = Nothing, \A m \in Names \ {n} : w.keychain[m] = s.keychain[m],
             NEW x \in F(w)
      PROVE  x \in Outcomes(S) /\ SetsTo(s, x, n, Nothing)
  <2> USE <1>2
  <2> DEFINE t == FileWith(w, n, Nothing)
  <2>1. /\ t \in S /\ t.conf = w.conf /\ t.hasKeychain = w.hasKeychain
        /\ t.keychain = w.keychain /\ t.file[n] = Nothing
        /\ \A m \in Names \ {n} : t.file[m] = w.file[m]
    BY ONLY InFile, Nothing \in V, w \in S, n \in Names
  <2> HIDE DEF t
  <2>2. PICK r \in FileRead(w) :
          x \in CASE r.is = "ok" ->
                  After(r.bad, IF r.s.file[n] = Nothing THEN Done(r.s) ELSE FilePut(r.s, n, Nothing))
                  [] r.is \in {"error", "half"} ->
                  After(r.bad, IF w.keychain = s.keychain THEN As(r) ELSE Half(r.s))
                  [] OTHER -> {r}
    BY DEF Then
  <2>3. r \in Outcomes(S) /\ r.s = w /\ r.is \in {"ok", "error"} /\ r.bad \in Nat
    BY ReadEnds
  <2>4. CASE r.is = "error"
    <3>1. \A q \in As(r) : q \in Outcomes(S) /\ q.s = w /\ q.is = "error"
      BY <2>3, <2>4, AsEnds DEF Like
    <3>2. \A q \in Half(w) : q \in Outcomes(S) /\ q.s = w /\ q.is = "half" BY Ended DEF Half, Ending
    <3>3. CASE w.keychain = s.keychain
      <4>1. x \in After(r.bad, As(r)) BY <2>2, <2>4, <3>3
      <4>2. x \in Outcomes(S) /\ x.s = w /\ x.is = "error" BY <2>3, <3>1, <4>1, Afterwards DEF Like
      <4> QED BY <3>3, <4>2 DEF SetsTo, Touched, Copies, Get
    <3>4. CASE w.keychain # s.keychain
      <4>1. x \in After(r.bad, Half(w)) BY <2>2, <2>3, <2>4, <3>4
      <4>2. x \in Outcomes(S) /\ x.s = w /\ x.is = "half" BY <2>3, <3>2, <4>1, Afterwards DEF Like
      <4> QED BY <4>2 DEF SetsTo, Touched, Copies, Get
    <3> QED BY <3>3, <3>4
  <2>5. CASE r.is = "ok" /\ w.file[n] = Nothing
    <3>1. \A q \in Done(w) : q \in Outcomes(S) /\ q.s = w /\ q.is = "ok" BY Ended DEF Done, Ending
    <3>2. x \in After(r.bad, Done(w)) BY <2>2, <2>3, <2>5
    <3>3. x \in Outcomes(S) /\ x.s = w /\ x.is = "ok" BY <2>3, <3>1, <3>2, Afterwards DEF Like
    <3> QED BY <2>5, <3>3 DEF SetsTo, Touched, Copies, Get
  <2>6. CASE r.is = "ok" /\ w.file[n] # Nothing
    <3>1. FilePut(w, n, Nothing) = Write(w, t) BY DEF FilePut, FileWith, t
    <3>2. x \in After(r.bad, Write(w, t)) BY <2>2, <2>3, <2>6, <3>1
    <3>3. \A q \in Write(w, t) : q \in Outcomes(S) /\ q.is \in {"ok", "error", "crash"}
                                 /\ q.s = IF q.is = "error" THEN w ELSE t
      BY <2>1, Written
    <3>4. /\ x \in Outcomes(S) /\ x.is \in {"ok", "error", "crash"}
          /\ x.s = IF x.is = "error" THEN w ELSE t
      BY <2>3, <3>2, <3>3, Afterwards DEF Like
    <3> QED BY <2>1, <2>6, <3>4 DEF SetsTo, Touched, Copies, Get
  <2> QED BY <2>3, <2>4, <2>5, <2>6
<1> HIDE DEF F
<1>3. PICK p \in KeychainDelete(s, n) :
        o \in CASE p.is = "ok" -> After(p.bad, F(p.s))
                [] p.is \in {"error", "half"} -> After(p.bad, As(p))
                [] OTHER -> {p}
  BY DEF Delete, Then, F
<1>4. /\ p \in Outcomes(S) /\ p.is \in {"ok", "error", "crash"} /\ p.bad \in Nat
      /\ p.s = IF p.is = "error" THEN s ELSE k
  <2>1. CASE s.hasKeychain
    <3>1. KeychainDelete(s, n) = Write(s, k) BY <2>1 DEF KeychainDelete, KeychainWith, k
    <3> QED BY <1>1, <3>1, Written DEF Outcomes
  <2>2. CASE ~s.hasKeychain
    <3>1. k = s
      <4>1. k.keychain = s.keychain BY <1>1, <2>2 DEF Stores
      <4> QED BY <1>1, <4>1 DEF Stores
    <3>2. KeychainDelete(s, n) = Done(s) BY <2>2 DEF KeychainDelete
    <3> QED BY <3>1, <3>2, Ended DEF Done, Ending, Outcomes
  <2> QED BY <2>1, <2>2
<1>5. CASE p.is = "ok"
  <2>1. o \in After(p.bad, F(k)) BY <1>3, <1>4, <1>5
  <2>2. \A x \in F(k) : x \in Outcomes(S) /\ SetsTo(s, x, n, Nothing) BY <1>1, <1>2
  <2> QED BY <1>4, <2>1, <2>2, Afterwards DEF Like, SetsTo
<1>6. CASE p.is = "error"
  <2>1. \A q \in As(p) : q \in Outcomes(S) /\ q.s = s /\ q.is = "error"
    BY <1>4, <1>6, AsEnds DEF Like
  <2>2. o \in After(p.bad, As(p)) BY <1>3, <1>6
  <2>3. o \in Outcomes(S) /\ o.s = s /\ o.is = "error" BY <1>4, <2>1, <2>2, Afterwards DEF Like
  <2> QED BY <2>3 DEF SetsTo, Touched, Copies
<1>7. CASE p.is = "crash"
  <2>1. o = p BY <1>3, <1>7
  <2> QED BY <1>1, <1>4, <1>7, <2>1 DEF SetsTo, Touched, Copies, Get
<1> QED BY <1>4, <1>5, <1>6, <1>7

LEMMA PutBackEnds ==
  ASSUME NEW V, NEW C, Nothing \in V, NEW s \in Stores(V, C), NEW n \in Names, NEW v \in V,
         NEW o \in PutBack(s, n, v)
  PROVE  o \in Outcomes(Stores(V, C)) /\ SetsTo(s, o, n, v)
BY SetEnds, DeleteEnds DEF PutBack

=============================================================================
