--------------------------- MODULE SettingsProofs ---------------------------
(***************************************************************************)
(* Proofs of what the settings promise: a secret goes only to whom it is   *)
(* for, a refused change has changed nothing, and an OBS's own settings    *)
(* are there as long as it streams to us.                                  *)
(***************************************************************************)
EXTENDS Settings, SecretsProofs

ServerOrNone == Servers \cup {"none"}
Ports == {r.port : r \in Runs}
Confs == [url : ServerOrNone, mode : {"stored", "passthrough"}, obs : Obses, backup : Obses \cup {"none"}]

(* What an OBS streams to: what its user set, or what we did.              *)
Streams(o) ==
  {x \in [server : Servers \cup Ports, key : Servers \cup {"own"}, by : {o, "us"}] :
     /\ x.by = "us" => x.server \in Ports
     /\ x.by # "us" => x.key = x.server /\ x.server \in Servers}
AnyStream == UNION {Streams(o) : o \in Obses}

Secret ==
  {Nothing} \cup [owner : ServerOrNone \cup Obses \cup {"unknown"},
                  value : ServerOrNone \cup Obses \cup {"own"} \cup AnyStream]

IsWizard(w) ==
  \/ w \in {Idle, [step |-> "restored"]}
  \/ \E o \in Obses :
       w \in [step : {"connect", "configure"}, obs : {o}, typed : BOOLEAN, password : {o, "none"},
             config : Confs, server : Ports, found : Streams(o)]
  \/ w \in [step : {"stream"}, obs : Obses, server : Ports, key : Servers \cup {"own"}]

Commands == [up : BOOLEAN, url : ServerOrNone, given : BOOLEAN, port : Ports \cup {"none"}, first : ServerOrNone]

Types ==
  /\ kept \in Stores(Secret, Confs)
  /\ config \in Confs
  /\ run \in Commands /\ (run.up => run.port \in Ports)
  /\ obs \in [Obses -> AnyStream] /\ \A o \in Obses : obs[o] \in Streams(o)
  /\ IsWizard(wizard)
  /\ wizard.step = "connect" /\ wizard.typed => wizard.password = wizard.obs
  /\ mine \in Obses \cup {"none"}

(* Every copy of the stream key is for the server it is a key for, or for  *)
(* none; an older version's, which does not say, is for that of the        *)
(* settings file.  A password is the one of the OBS it is for, and a       *)
(* backup has settings of its OBS.                                         *)
FreshKey(k) == k = Nothing \/ (k.owner # "unknown" /\ k.owner \in {k.value, "none"})
KeyHome(k, url) == FreshKey(k) \/ (k.owner = "unknown" /\ url \in {k.value, "none"})
PasswordHome(p) == p = Nothing \/ p.value = p.owner
BackupHome(b) == b = Nothing \/ (b.owner \in Obses /\ b.value \in Streams(b.owner))
Homes(s) ==
  /\ \A k \in Copies(s, "key") : KeyHome(k, s.conf.url)
  /\ \A p \in Copies(s, "password") : PasswordHome(p)
  /\ \A b \in Copies(s, "backup") : BackupHome(b)

RelayHome == relay.key \in {"none", relay.url}

(* The settings in effect name the backup those saved name. *)
OneBackup == config.backup = kept.conf.backup
BackupOf(o) == kept.conf.backup = o

MineBackedUp == mine # "none" /\ obs[mine].by = "us" => BackupOf(mine)
BackupIsOwn ==
  mine # "none" /\ BackupOf(mine) =>
    /\ Get(kept, "backup") # Nothing
    /\ Get(kept, "backup").owner = mine /\ Get(kept, "backup").value.by = mine
ConfigureKnows ==
  wizard.step = "configure" =>
    /\ wizard.config.backup = config.backup
    /\ wizard.obs = mine /\ wizard.found.by = "us" => BackupOf(mine)
StreamKnows == wizard.step = "stream" /\ wizard.obs = mine => BackupOf(mine)
RestoredIsOwn == wizard.step = "restored" /\ mine # "none" => obs[mine].by # "us"

HomeInv == Types /\ Homes(kept) /\ RelayHome
OwnInv == OneBackup /\ MineBackedUp /\ BackupIsOwn /\ ConfigureKnows /\ StreamKnows /\ RestoredIsOwn

-----------------------------------------------------------------------------
(* What a change of the settings does to the store: each secret n is as it *)
(* was or one of w[n], in every place and in what counts.                  *)
Alters(s, t, w) ==
  \A n \in Names : /\ Copies(t, n) \subseteq Copies(s, n) \cup w[n]
                   /\ Get(t, n) \in {Get(s, n)} \cup w[n]

(* The settings file is as it was or has the new settings, and then the    *)
(* key is the new one in every place, if there is one.                     *)
ChangesTo(s, o, w, key, new) ==
  /\ Alters(s, o.s, w)
  /\ o.s.conf \in {s.conf, new}
  /\ o.s.conf # s.conf => key.do = "keep" \/ Copies(o.s, "key") \subseteq w["key"] \cup {Nothing}
  /\ o.is = "ok" => o.s.conf = new
  /\ o.is \in {"error", "half"} => o.s.conf = s.conf
  /\ o.is = "error" => Kept(o.s) = Kept(s)

LEMMA AltersNothing ==
  ASSUME NEW s, NEW t, NEW w, t.file = s.file, t.keychain = s.keychain
  PROVE  Alters(s, t, w) /\ Kept(t) = Kept(s)
BY DEF Alters, Copies, Get, Kept

LEMMA AltersTwice ==
  ASSUME NEW s, NEW t, NEW u, NEW w, Alters(s, t, w), Alters(t, u, w)
  PROVE  Alters(s, u, w)
<1> SUFFICES ASSUME NEW n \in Names
             PROVE  /\ Copies(u, n) \subseteq Copies(s, n) \cup w[n]
                    /\ Get(u, n) \in {Get(s, n)} \cup w[n]
  BY DEF Alters
<1>1. /\ Copies(t, n) \subseteq Copies(s, n) \cup w[n] /\ Get(t, n) \in {Get(s, n)} \cup w[n]
      /\ Copies(u, n) \subseteq Copies(t, n) \cup w[n] /\ Get(u, n) \in {Get(t, n)} \cup w[n]
  BY DEF Alters
<1> QED BY <1>1

LEMMA AltersBySet ==
  ASSUME NEW s, NEW o, NEW w, NEW n \in Names, NEW v \in w[n], SetsTo(s, o, n, v)
  PROVE  Alters(s, o.s, w)
BY DEF SetsTo, Touched, Alters, Copies, Get

(* Put back, a secret counts as it did before it was altered.              *)
LEMMA AltersPutBack ==
  ASSUME NEW s, NEW t, NEW o, NEW w, NEW n \in Names, Alters(s, t, w), SetsTo(t, o, n, Get(s, n))
  PROVE  /\ Alters(s, o.s, w) /\ o.s.conf = t.conf
         /\ (o.is = "ok" /\ \A m \in Names \ {n} : Get(t, m) = Get(s, m)) => Kept(o.s) = Kept(s)
<1>1. /\ \A m \in Names \ {n} : Copies(o.s, m) = Copies(t, m) /\ Get(o.s, m) = Get(t, m)
      /\ Copies(o.s, n) \subseteq Copies(t, n) \cup {Get(s, n)}
      /\ Get(o.s, n) \in {Get(t, n), Get(s, n)}
      /\ o.is = "ok" => Get(o.s, n) = Get(s, n)
      /\ o.s.conf = t.conf
  BY DEF SetsTo, Touched, Copies, Get
<1>2. Get(s, n) \in Copies(s, n) BY DEF Get, Copies
<1>3. Alters(s, o.s, w)
  <2> SUFFICES ASSUME NEW m \in Names
               PROVE  /\ Copies(o.s, m) \subseteq Copies(s, m) \cup w[m]
                      /\ Get(o.s, m) \in {Get(s, m)} \cup w[m]
    BY DEF Alters
  <2>1. /\ Copies(t, m) \subseteq Copies(s, m) \cup w[m] /\ Get(t, m) \in {Get(s, m)} \cup w[m]
    BY DEF Alters
  <2> QED BY <1>1, <1>2, <2>1
<1> QED BY <1>1, <1>3 DEF Kept

LEMMA KeptByError ==
  ASSUME NEW s, NEW o, NEW n \in Names, NEW v, SetsTo(s, o, n, v), o.is = "error"
  PROVE  Kept(o.s) = Kept(s)
BY DEF SetsTo, Touched, Kept, Get

SavedIn(s, c) == [s EXCEPT !.conf = c]

LEMMA Saved ==
  ASSUME NEW V, NEW C, NEW s \in Stores(V, C), NEW c \in C
  PROVE  LET t == SavedIn(s, c)
         IN /\ t \in Stores(V, C) /\ t.conf = c /\ t.hasKeychain = s.hasKeychain
            /\ t.file = s.file /\ t.keychain = s.keychain
BY DEF Stores, SavedIn

LEMMA GetIsKept ==
  ASSUME NEW V, NEW C, Nothing \in V, NEW s \in Stores(V, C), NEW n \in Names
  PROVE  Get(s, n) \in V /\ Get(s, n) \in Copies(s, n) /\ Copies(s, n) \subseteq V
BY DEF Get, Stores, Copies

LEMMA ConfsChanged ==
  ASSUME NEW a \in Confs, NEW b \in Confs, NEW c \in Confs
  PROVE  LET t == WithChanges(a, b, c)
         IN /\ t \in Confs
            /\ t.url = IF b.url # c.url THEN c.url ELSE a.url
            /\ t.backup = IF b.backup # c.backup THEN c.backup ELSE a.backup
<1> DEFINE t == WithChanges(a, b, c)
<1>1. DOMAIN a = {"url", "mode", "obs", "backup"} BY DEF Confs
<1>2. t = [f \in {"url", "mode", "obs", "backup"} |-> IF b[f] # c[f] THEN c[f] ELSE a[f]]
  BY <1>1 DEF WithChanges
<1> QED BY <1>2 DEF Confs

-----------------------------------------------------------------------------
(* A change of the key that leaves v, if it is one. *)
IsKeyStep(key, v, V) ==
  /\ key.do \in {"keep", "forget", "save"}
  /\ v \in V
  /\ key.do = "forget" => v = Nothing
  /\ key.do = "save" => v # Nothing /\ v = Bound(key.server, key.key)

LEMMA KeyStepEnds ==
  ASSUME NEW V, NEW C, Nothing \in V, NEW s \in Stores(V, C), NEW key, NEW v,
         IsKeyStep(key, v, V), NEW q \in KeyStep(s, key)
  PROVE  /\ q \in Outcomes(Stores(V, C))
         /\ key.do = "keep" => q.s = s /\ q.is = "ok"
         /\ key.do # "keep" => SetsTo(s, q, "key", v)
<1>1. "key" \in Names BY Constants
<1>2. CASE key.do = "keep"
  <2>1. q \in Done(s) BY <1>2 DEF KeyStep
  <2> QED BY <1>2, <2>1, Ended DEF Done, Ending
<1>3. CASE key.do = "forget"
  <2>1. q \in Delete(s, "key") /\ v = Nothing BY <1>3 DEF KeyStep, IsKeyStep
  <2> QED BY <1>1, <1>3, <2>1, DeleteEnds
<1>4. CASE key.do = "save"
  <2>1. q \in Set(s, "key", v) /\ v \in V \ {Nothing} BY <1>4 DEF KeyStep, IsKeyStep
  <2> QED BY <1>1, <1>4, <2>1, SetEnds
<1> QED BY <1>2, <1>3, <1>4 DEF IsKeyStep

(* The key, the settings, and the key put back if those cannot be saved.   *)
LEMMA ChangedEnds ==
  ASSUME NEW V, NEW C, Nothing \in V, NEW s \in Stores(V, C), NEW key, NEW v, IsKeyStep(key, v, V),
         NEW after, WithChanges(s.conf, config, after) \in C,
         NEW w, key.do # "keep" => v \in w["key"],
         NEW o \in Changed(s, key, after)
  PROVE  o \in Outcomes(Stores(V, C)) /\ ChangesTo(s, o, w, key, WithChanges(s.conf, config, after))
<1> DEFINE S == Stores(V, C)
           new == WithChanges(s.conf, config, after)
           Rest(r) == Then(KeyStep(r, key),
                        LAMBDA k : Then(Save(k, WithChanges(k.conf, config, after)), Done,
                                        LAMBDA x : KeyPutBack(k, s, key)),
                        As)
           Good(x) == x \in Outcomes(S) /\ ChangesTo(s, x, w, key, new)
<1>1. "key" \in Names BY Constants
<1>2. ASSUME NEW x, NEW y, Good(y), Like(x, y), x \in Outcomes(S) PROVE Good(x)
  BY <1>2 DEF Like, ChangesTo
<1>3. ASSUME NEW x \in Outcomes(S), x.s = s, x.is = "error" PROVE Good(x)
  BY <1>3, AltersNothing DEF ChangesTo
(* The settings file after the key, k. *)
<1>4. ASSUME NEW k \in S, k.conf = s.conf, Alters(s, k, w),
             key.do = "keep" => k = s,
             key.do # "keep" => /\ Copies(k, "key") \subseteq {v, Nothing}
                                /\ \A m \in Names \ {"key"} : Get(k, m) = Get(s, m),
             NEW x \in Then(Save(k, WithChanges(k.conf, config, after)), Done,
                            LAMBDA y : KeyPutBack(k, s, key))
      PROVE  Good(x)
  <2> USE <1>4
  <2> DEFINE t == SavedIn(k, new)
  <2>1. t \in S /\ t.conf = new /\ t.file = k.file /\ t.keychain = k.keychain BY Saved
  <2>2. Save(k, WithChanges(k.conf, config, after)) = Write(k, t) BY DEF Save, SavedIn
  <2> HIDE DEF t
  <2>3. PICK p \in Write(k, t) :
          x \in CASE p.is = "ok" -> After(p.bad, Done(p.s))
                  [] p.is \in {"error", "half"} -> After(p.bad, KeyPutBack(k, s, key))
                  [] OTHER -> {p}
    BY <2>2 DEF Then
  <2>4. p \in Outcomes(S) /\ p.is \in {"ok", "error", "crash"} /\ p.s = IF p.is = "error" THEN k ELSE t
    BY <2>1, Written
  <2>5. p.bad \in Nat BY <2>4 DEF Outcomes
  <2>6. /\ Alters(s, t, w)
        /\ key.do = "keep" \/ Copies(t, "key") \subseteq w["key"] \cup {Nothing}
    <3>1. Alters(k, t, w) BY <2>1, AltersNothing
    <3>2. Alters(s, t, w) BY <3>1, AltersTwice
    <3>3. Copies(t, "key") = Copies(k, "key") BY <2>1 DEF Copies
    <3> QED BY <3>2, <3>3
  <2>7. CASE p.is = "ok"
    <3>1. \A q \in Done(t) : q \in Outcomes(S) /\ q.s = t /\ q.is = "ok" BY <2>1, Ended DEF Done, Ending
    <3>2. x \in After(p.bad, Done(t)) BY <2>3, <2>4, <2>7
    <3>3. x \in Outcomes(S) /\ x.s = t /\ x.is = "ok" BY <2>5, <3>1, <3>2, Afterwards DEF Like
    <3> QED BY <2>1, <2>6, <3>3 DEF ChangesTo
  <2>8. CASE p.is = "crash"
    <3>1. x = p /\ p.s = t BY <2>3, <2>4, <2>8
    <3> QED BY <2>1, <2>4, <2>6, <2>8, <3>1 DEF ChangesTo
  <2>9. CASE p.is = "error" /\ key.do = "keep"
    <3>1. \A q \in Fails(s) : q \in Outcomes(S) /\ q.s = s /\ q.is = "error" BY Ended DEF Fails, Ending
    <3>2. x \in After(p.bad, Fails(s)) BY <2>3, <2>9 DEF KeyPutBack
    <3>3. x \in Outcomes(S) /\ x.s = s /\ x.is = "error" BY <2>5, <3>1, <3>2, Afterwards DEF Like
    <3> QED BY <1>3, <3>3
  <2>10. CASE p.is = "error" /\ key.do # "keep"
    <3> DEFINE B == PutBack(k, "key", Get(s, "key"))
    <3>1. Get(s, "key") \in V BY <1>1, GetIsKept
    <3>2. \A b \in B : b \in Outcomes(S) /\ SetsTo(k, b, "key", Get(s, "key")) BY <1>1, <3>1, PutBackEnds
    <3>3. x \in After(p.bad, Undone(B)) BY <2>3, <2>10 DEF KeyPutBack
    <3> HIDE DEF B
    <3>4. B \subseteq Outcomes(S) BY <3>2
    <3>5. Undone(B) \subseteq Outcomes(S) BY <3>4, UndoneEnds
    <3>6. PICK q \in Undone(B) : Like(x, q) /\ x \in Outcomes(S) BY <2>5, <3>3, <3>5, Afterwards
    <3>7. PICK b \in B : /\ q.s = b.s
                         /\ \/ b.is = "ok" /\ q.is = "error"
                            \/ b.is \in {"error", "half"} /\ q.is = "half"
                            \/ b.is = "crash" /\ q.is = "crash"
      BY <3>4, UndoneEnds
    <3>8. SetsTo(k, b, "key", Get(s, "key")) BY <3>2
    <3>9. Alters(s, b.s, w) /\ b.s.conf = s.conf /\ (b.is = "ok" => Kept(b.s) = Kept(s))
      BY <1>1, <2>10, <3>8, AltersPutBack
    <3>10. x.s = b.s /\ x.is # "ok" /\ (x.is = "error" => b.is = "ok")
      <4>1. x.s = q.s /\ x.is = q.is BY <3>6 DEF Like
      <4>2. q.is # "ok" /\ (q.is = "error" => b.is = "ok") BY <3>7
      <4> QED BY <3>7, <4>1, <4>2
    <3> QED BY <3>6, <3>9, <3>10 DEF ChangesTo
  <2> QED BY <2>4, <2>7, <2>8, <2>9, <2>10
<1>5. ASSUME NEW x \in Rest(s) PROVE Good(x)
  <2> USE <1>5
  <2>1. PICK p \in KeyStep(s, key) :
          x \in CASE p.is = "ok" ->
                  After(p.bad, Then(Save(p.s, WithChanges(p.s.conf, config, after)), Done,
                                    LAMBDA y : KeyPutBack(p.s, s, key)))
                  [] p.is \in {"error", "half"} -> After(p.bad, As(p))
                  [] OTHER -> {p}
    BY DEF Then
  <2>2. /\ p \in Outcomes(S)
        /\ key.do = "keep" => p.s = s /\ p.is = "ok"
        /\ key.do # "keep" => SetsTo(s, p, "key", v)
    BY KeyStepEnds
  <2>3. p.s \in S /\ p.bad \in Nat /\ p.is \in Ending BY <2>2 DEF Outcomes
  <2>4. Alters(s, p.s, w) /\ p.s.conf = s.conf
    <3>1. CASE key.do = "keep" BY <2>2, <3>1, AltersNothing
    <3>2. CASE key.do # "keep"
      <4>1. SetsTo(s, p, "key", v) /\ v \in w["key"] BY <2>2, <3>2
      <4>2. Alters(s, p.s, w) BY <1>1, <4>1, AltersBySet
      <4> QED BY <4>1, <4>2 DEF SetsTo, Touched
    <3> QED BY <3>1, <3>2
  <2>5. CASE p.is = "ok"
    <3> DEFINE D == Then(Save(p.s, WithChanges(p.s.conf, config, after)), Done,
                         LAMBDA y : KeyPutBack(p.s, s, key))
    <3>1. key.do # "keep" => /\ Copies(p.s, "key") \subseteq {v, Nothing}
                             /\ \A m \in Names \ {"key"} : Get(p.s, m) = Get(s, m)
      BY <2>2, <2>5 DEF SetsTo, Touched, Get
    <3>2. x \in After(p.bad, D) BY <2>1, <2>5
    <3>3. \A y \in D : Good(y) BY <1>4, <2>2, <2>3, <2>4, <3>1
    <3> HIDE DEF D
    <3> QED BY <1>2, <2>3, <3>2, <3>3, Afterwards
  <2>6. CASE p.is \in {"error", "half"}
    <3>1. \A q \in As(p) : q \in Outcomes(S) /\ Like(q, p) BY <2>2, AsEnds
    <3>2. x \in After(p.bad, As(p)) BY <2>1, <2>6
    <3>3. x \in Outcomes(S) /\ x.s = p.s /\ x.is = p.is BY <2>3, <3>1, <3>2, Afterwards DEF Like
    <3>4. p.is = "error" => Kept(p.s) = Kept(s)
      <4>1. SetsTo(s, p, "key", v) BY <2>2, <2>6
      <4> QED BY <1>1, <4>1, KeptByError
    <3> QED BY <2>4, <2>6, <3>3, <3>4 DEF ChangesTo
  <2>7. CASE p.is = "crash"
    <3>1. x = p BY <2>1, <2>7
    <3> QED BY <2>2, <2>4, <2>7, <3>1 DEF ChangesTo
  <2> QED BY <2>3, <2>5, <2>6, <2>7 DEF Ending
<1> HIDE DEF Good
<1>6. PICK r \in ReadBefore(s, key) :
        o \in CASE r.is = "ok" -> After(r.bad, Rest(r.s))
                [] r.is \in {"error", "half"} -> After(r.bad, As(r))
                [] OTHER -> {r}
  BY DEF Changed, Then
<1>7. r \in Outcomes(S) /\ r.s = s /\ r.is \in {"ok", "error"} /\ r.bad \in Nat
  <2>1. r \in FileRead(s) BY DEF ReadBefore, FileRead
  <2> QED BY <2>1, ReadEnds
<1> HIDE DEF Rest
<1>8. CASE r.is = "ok"
  <2>1. o \in After(r.bad, Rest(s)) BY <1>6, <1>7, <1>8
  <2>2. \A x \in Rest(s) : Good(x) BY <1>5
  <2>3. Rest(s) \subseteq Outcomes(S) BY <2>2 DEF Good
  <2>4. PICK q \in Rest(s) : Like(o, q) /\ o \in Outcomes(S) BY <1>7, <2>1, <2>3, Afterwards
  <2>5. Good(o) BY <1>2, <2>2, <2>4
  <2> QED BY <2>5 DEF Good
<1>9. CASE r.is = "error"
  <2>1. \A q \in As(r) : q \in Outcomes(S) /\ Like(q, r) BY <1>7, AsEnds
  <2>2. o \in After(r.bad, As(r)) BY <1>6, <1>9
  <2>3. o \in Outcomes(S) /\ o.s = s /\ o.is = "error" BY <1>7, <1>9, <2>1, <2>2, Afterwards DEF Like
  <2>4. Good(o) BY <1>3, <2>3
  <2> QED BY <2>4 DEF Good
<1> QED BY <1>7, <1>8, <1>9

(* Another secret with them: if it is changed to x, it is x wherever the   *)
(* settings are the new.                                                   *)
Updates(updated, S, s, name, x) == \A u \in updated : u \in Outcomes(S) /\ Touched(s, u.s, name, x)
Sets(updated, name, x) == \A u \in updated : u.is = "ok" => Get(u.s, name) = x

LEMMA ChangedWithEnds ==
  ASSUME NEW V, NEW C, Nothing \in V, NEW s \in Stores(V, C), NEW key, NEW v, IsKeyStep(key, v, V),
         NEW after, WithChanges(s.conf, config, after) \in C,
         NEW w, key.do # "keep" => v \in w["key"],
         NEW name \in Names \ {"key"}, NEW x \in w[name],
         NEW updated, Updates(updated, Stores(V, C), s, name, x),
         NEW o \in ChangedWith(s, name, updated, key, after)
  PROVE  /\ o \in Outcomes(Stores(V, C))
         /\ ChangesTo(s, o, w, key, WithChanges(s.conf, config, after))
         /\ Sets(updated, name, x) /\ (o.is = "ok" \/ o.s.conf # s.conf) => Get(o.s, name) = x
<1> DEFINE S == Stores(V, C)
           new == WithChanges(s.conf, config, after)
           sets == Sets(updated, name, x)
           B(t) == PutBack(t, name, Get(s, name))
           After1(u) == Then(Changed(u, key, after), Done,
                             LAMBDA y : IF y.is = "half"
                                        THEN Then(B(y.s), Half, LAMBDA p : Half(p.s))
                                        ELSE Undone(B(y.s)))
           Rest == Then(updated, After1, LAMBDA y : Undone(B(y.s)))
           Good(y) == /\ y \in Outcomes(S) /\ ChangesTo(s, y, w, key, new)
                      /\ sets /\ (y.is = "ok" \/ y.s.conf # s.conf) => Get(y.s, name) = x
           w1 == [n \in Names |-> IF n = "key" THEN w["key"] ELSE {}]
<1>1. "key" \in Names BY Constants
<1>2. ASSUME NEW y, NEW z, Good(z), Like(y, z), y \in Outcomes(S) PROVE Good(y)
  BY <1>2 DEF Like, ChangesTo
<1>3. ASSUME NEW y \in Outcomes(S), y.s = s, y.is = "error" PROVE Good(y)
  BY <1>3, AltersNothing DEF ChangesTo
(* The other secret put back, whatever else failed. *)
<1>4. ASSUME NEW t \in S, Alters(s, t, w), t.conf = s.conf, NEW b \in B(t)
      PROVE  /\ b \in Outcomes(S) /\ Alters(s, b.s, w) /\ b.s.conf = s.conf
             /\ (b.is = "ok" /\ \A m \in Names \ {name} : Get(t, m) = Get(s, m)) => Kept(b.s) = Kept(s)
  <2>1. Get(s, name) \in V BY GetIsKept
  <2>2. b \in Outcomes(S) /\ SetsTo(t, b, name, Get(s, name)) BY <1>4, <2>1, PutBackEnds
  <2> QED BY <1>4, <2>2, AltersPutBack
<1>5. ASSUME NEW t \in S, Alters(s, t, w), t.conf = s.conf,
             \A m \in Names \ {name} : Get(t, m) = Get(s, m), NEW y \in Undone(B(t))
      PROVE  Good(y)
  <2>1. B(t) \subseteq Outcomes(S) BY <1>4, <1>5
  <2>2. PICK b \in B(t) : /\ y.s = b.s /\ y \in Outcomes(S)
                          /\ \/ b.is = "ok" /\ y.is = "error"
                             \/ b.is \in {"error", "half"} /\ y.is = "half"
                             \/ b.is = "crash" /\ y.is = "crash"
    BY <1>5, <2>1, UndoneEnds
  <2>3. /\ Alters(s, b.s, w) /\ b.s.conf = s.conf /\ (b.is = "ok" => Kept(b.s) = Kept(s))
    BY <1>4, <1>5
  <2>4. y.is # "ok" /\ (y.is = "error" => b.is = "ok") BY <2>2
  <2> QED BY <2>2, <2>3, <2>4 DEF ChangesTo
<1>6. ASSUME NEW t \in S, Alters(s, t, w), t.conf = s.conf,
             NEW y \in Then(B(t), Half, LAMBDA p : Half(p.s))
      PROVE  Good(y)
  <2>1. PICK b \in B(t) : y \in CASE b.is = "ok" -> After(b.bad, Half(b.s))
                                  [] b.is \in {"error", "half"} -> After(b.bad, Half(b.s))
                                  [] OTHER -> {b}
    BY <1>6 DEF Then
  <2>2. b \in Outcomes(S) /\ Alters(s, b.s, w) /\ b.s.conf = s.conf BY <1>4, <1>6
  <2>3. b.s \in S /\ b.bad \in Nat /\ b.is \in Ending BY <2>2 DEF Outcomes
  <2>4. CASE b.is = "crash"
    <3>1. y = b BY <2>1, <2>4
    <3> QED BY <2>2, <2>4, <3>1 DEF ChangesTo
  <2>5. CASE b.is # "crash"
    <3>1. \A q \in Half(b.s) : q \in Outcomes(S) /\ q.s = b.s /\ q.is = "half"
      BY <2>3, Ended DEF Half, Ending
    <3>2. y \in After(b.bad, Half(b.s)) BY <2>1, <2>3, <2>5 DEF Ending
    <3>3. y \in Outcomes(S) /\ y.s = b.s /\ y.is = "half" BY <2>3, <3>1, <3>2, Afterwards DEF Like
    <3> QED BY <2>2, <3>3 DEF ChangesTo
  <2> QED BY <2>4, <2>5
<1> HIDE DEF B
(* The settings, after the other secret: u. *)
<1>7. ASSUME NEW u \in S, Touched(s, u, name, x), sets => Get(u, name) = x, NEW y \in After1(u)
      PROVE  Good(y)
  <2> USE <1>7
  <2>1. /\ u.conf = s.conf /\ \A m \in Names \ {name} : Get(u, m) = Get(s, m)
        /\ Alters(s, u, w)
    BY DEF Touched, Alters, Copies, Get
  <2>2. WithChanges(u.conf, config, after) = new BY <2>1
  <2>3. PICK c \in Changed(u, key, after) :
          y \in CASE c.is = "ok" -> After(c.bad, Done(c.s))
                  [] c.is \in {"error", "half"} ->
                       After(c.bad, IF c.is = "half" THEN Then(B(c.s), Half, LAMBDA p : Half(p.s))
                                                     ELSE Undone(B(c.s)))
                  [] OTHER -> {c}
    BY DEF Then
  <2>4. key.do # "keep" => v \in w1["key"] BY <1>1
  <2>5. c \in Outcomes(S) /\ ChangesTo(u, c, w1, key, new)
    <3> HIDE DEF w1
    <3> QED BY <2>2, <2>4, ChangedEnds
  <2>6. c.s \in S /\ c.bad \in Nat /\ c.is \in Ending BY <2>5 DEF Outcomes
  <2>7. Alters(s, c.s, w)
    <3>1. Alters(u, c.s, w1) BY <2>5 DEF ChangesTo
    <3>2. Alters(u, c.s, w)
      <4> SUFFICES ASSUME NEW n \in Names
                   PROVE  /\ Copies(c.s, n) \subseteq Copies(u, n) \cup w[n]
                          /\ Get(c.s, n) \in {Get(u, n)} \cup w[n]
        BY DEF Alters
      <4>1. /\ Copies(c.s, n) \subseteq Copies(u, n) \cup w1[n]
            /\ Get(c.s, n) \in {Get(u, n)} \cup w1[n]
        BY <3>1 DEF Alters
      <4>2. w1[n] \subseteq w[n] OBVIOUS
      <4> HIDE DEF w1
      <4> QED BY <4>1, <4>2
    <3> QED BY <2>1, <3>2, AltersTwice
  <2>8. Get(c.s, name) = Get(u, name)
    <3>1. Get(c.s, name) \in {Get(u, name)} \cup w1[name] BY <2>5 DEF ChangesTo, Alters
    <3>2. w1[name] = {} OBVIOUS
    <3> QED BY <3>1, <3>2
  <2>9. /\ c.s.conf \in {s.conf, new}
        /\ c.s.conf # s.conf => key.do = "keep" \/ Copies(c.s, "key") \subseteq w["key"] \cup {Nothing}
        /\ c.is = "ok" => c.s.conf = new
        /\ c.is \in {"error", "half"} => c.s.conf = s.conf
        /\ c.is = "error" => Kept(c.s) = Kept(u)
    <3>1. w1["key"] = w["key"] BY <1>1
    <3> HIDE DEF w1
    <3> QED BY <2>1, <2>5, <3>1 DEF ChangesTo
  <2> HIDE DEF w1
  <2>10. CASE c.is = "ok"
    <3>1. \A q \in Done(c.s) : q \in Outcomes(S) /\ q.s = c.s /\ q.is = "ok" BY <2>6, Ended DEF Done, Ending
    <3>2. y \in After(c.bad, Done(c.s)) BY <2>3, <2>10
    <3>3. y \in Outcomes(S) /\ y.s = c.s /\ y.is = "ok" BY <2>6, <3>1, <3>2, Afterwards DEF Like
    <3> QED BY <2>7, <2>8, <2>9, <2>10, <3>3 DEF ChangesTo
  <2>11. CASE c.is = "error"
    <3> DEFINE U == Undone(B(c.s))
    <3>1. \A m \in Names \ {name} : Get(c.s, m) = Get(s, m)
      <4>1. \A m \in Names : Get(c.s, m) = Get(u, m) BY <2>9, <2>11 DEF Kept
      <4> QED BY <2>1, <4>1
    <3>2. \A z \in U : Good(z) BY <1>5, <2>6, <2>7, <2>9, <2>11, <3>1
    <3>3. y \in After(c.bad, U) BY <2>3, <2>11
    <3> HIDE DEF U
    <3>4. U \subseteq Outcomes(S) BY <3>2
    <3> HIDE DEF Good
    <3>5. PICK q \in U : Like(y, q) /\ y \in Outcomes(S) BY <2>6, <3>3, <3>4, Afterwards
    <3> QED BY <1>2, <3>2, <3>5
  <2>12. CASE c.is = "half"
    <3> DEFINE U == Then(B(c.s), Half, LAMBDA p : Half(p.s))
    <3>1. \A z \in U : Good(z) BY <1>6, <2>6, <2>7, <2>9, <2>12
    <3>2. y \in After(c.bad, U) BY <2>3, <2>12
    <3> HIDE DEF U
    <3>3. U \subseteq Outcomes(S) BY <3>1
    <3> HIDE DEF Good
    <3>4. PICK q \in U : Like(y, q) /\ y \in Outcomes(S) BY <2>6, <3>2, <3>3, Afterwards
    <3> QED BY <1>2, <3>1, <3>4
  <2>13. CASE c.is = "crash"
    <3>1. y = c BY <2>3, <2>13
    <3> QED BY <2>5, <2>7, <2>8, <2>9, <2>13, <3>1 DEF ChangesTo
  <2> QED BY <2>6, <2>10, <2>11, <2>12, <2>13 DEF Ending
<1> HIDE DEF w1, After1
<1>8. ASSUME NEW y \in Rest PROVE Good(y)
  <2> USE <1>8
  <2>1. PICK u \in updated :
          y \in CASE u.is = "ok" -> After(u.bad, After1(u.s))
                  [] u.is \in {"error", "half"} -> After(u.bad, Undone(B(u.s)))
                  [] OTHER -> {u}
    BY DEF Then
  <2>2. /\ u \in Outcomes(S) /\ Touched(s, u.s, name, x)
        /\ u.is = "ok" /\ sets => Get(u.s, name) = x
    BY DEF Updates, Sets
  <2>3. u.s \in S /\ u.bad \in Nat /\ u.is \in Ending BY <2>2 DEF Outcomes
  <2>4. /\ u.s.conf = s.conf /\ \A m \in Names \ {name} : Get(u.s, m) = Get(s, m)
        /\ Alters(s, u.s, w)
    BY <2>2 DEF Touched, Alters, Copies, Get
  <2>5. CASE u.is = "ok"
    <3>1. \A z \in After1(u.s) : Good(z) BY <1>7, <2>2, <2>3, <2>5
    <3>2. After1(u.s) \subseteq Outcomes(S) BY <3>1
    <3>3. y \in After(u.bad, After1(u.s)) BY <2>1, <2>5
    <3> HIDE DEF Good
    <3>4. PICK q \in After1(u.s) : Like(y, q) /\ y \in Outcomes(S) BY <2>3, <3>2, <3>3, Afterwards
    <3> QED BY <1>2, <3>1, <3>4
  <2>6. CASE u.is \in {"error", "half"}
    <3> DEFINE U == Undone(B(u.s))
    <3>1. \A z \in U : Good(z) BY <1>5, <2>3, <2>4
    <3>2. y \in After(u.bad, U) BY <2>1, <2>6
    <3> HIDE DEF U
    <3>3. U \subseteq Outcomes(S) BY <3>1
    <3> HIDE DEF Good
    <3>4. PICK q \in U : Like(y, q) /\ y \in Outcomes(S) BY <2>3, <3>2, <3>3, Afterwards
    <3> QED BY <1>2, <3>1, <3>4
  <2>7. CASE u.is = "crash"
    <3>1. y = u BY <2>1, <2>7
    <3> QED BY <2>2, <2>4, <2>7, <3>1 DEF ChangesTo
  <2> QED BY <2>3, <2>5, <2>6, <2>7 DEF Ending
<1>9. PICK r \in FileRead(s) :
        o \in CASE r.is = "ok" -> After(r.bad, Rest)
                [] r.is \in {"error", "half"} -> After(r.bad, As(r))
                [] OTHER -> {r}
  BY DEF ChangedWith, Then, After1, B
<1>10. r \in Outcomes(S) /\ r.s = s /\ r.is \in {"ok", "error"} /\ r.bad \in Nat BY ReadEnds
<1> HIDE DEF Rest
<1>11. CASE r.is = "ok"
  <2>1. o \in After(r.bad, Rest) BY <1>9, <1>11
  <2>2. Rest \subseteq Outcomes(S) BY <1>8
  <2> HIDE DEF Good
  <2>3. PICK q \in Rest : Like(o, q) /\ o \in Outcomes(S) BY <1>10, <2>1, <2>2, Afterwards
  <2>4. Good(o) BY <1>2, <1>8, <2>3
  <2> QED BY <2>4 DEF Good
<1>12. CASE r.is = "error"
  <2>1. \A q \in As(r) : q \in Outcomes(S) /\ Like(q, r) BY <1>10, AsEnds
  <2>2. o \in After(r.bad, As(r)) BY <1>9, <1>12
  <2>3. o \in Outcomes(S) /\ o.s = s /\ o.is = "error" BY <1>10, <1>12, <2>1, <2>2, Afterwards DEF Like
  <2>4. Good(o) BY <1>3, <2>3
  <2> QED BY <2>4
<1> QED BY <1>10, <1>11, <1>12

(* The settings, and then the backup nothing names any more, if it can be. *)
LEMMA BackupForgottenEnds ==
  ASSUME NEW V, NEW C, Nothing \in V, NEW s \in Stores(V, C),
         NEW after, WithChanges(s.conf, config, after) \in C,
         NEW w, Nothing \in w["backup"],
         NEW o \in BackupForgotten(s, after)
  PROVE  /\ o \in Outcomes(Stores(V, C))
         /\ ChangesTo(s, o, w, Keep, WithChanges(s.conf, config, after))
         /\ Get(o.s, "backup") # Get(s, "backup") => o.s.conf = WithChanges(s.conf, config, after)
<1> DEFINE S == Stores(V, C)
           new == WithChanges(s.conf, config, after)
           none == [n \in Names |-> {}]
           D(c) == Then(Delete(c, "backup"), Done, LAMBDA y : Done(y.s))
<1>1. "backup" \in Names BY Constants
<1>2. PICK c \in Changed(s, Keep, after) :
        o \in CASE c.is = "ok" -> After(c.bad, D(c.s))
                [] c.is \in {"error", "half"} -> After(c.bad, As(c))
                [] OTHER -> {c}
  BY DEF BackupForgotten, Then
<1>3. IsKeyStep(Keep, Nothing, V) /\ Keep.do = "keep" BY DEF IsKeyStep, Keep
<1> HIDE DEF none
<1>4. c \in Outcomes(S) /\ ChangesTo(s, c, none, Keep, new) BY <1>3, ChangedEnds
<1>5. c.s \in S /\ c.bad \in Nat /\ c.is \in Ending BY <1>4 DEF Outcomes
<1>6. Alters(s, c.s, w) /\ \A n \in Names : Get(c.s, n) = Get(s, n)
  <2>1. \A n \in Names : none[n] = {} BY DEF none
  <2> QED BY <1>4, <2>1 DEF ChangesTo, Alters
<1>7. CASE c.is = "ok"
  <2>1. c.s.conf = new BY <1>4, <1>7 DEF ChangesTo
  <2>2. \A x \in D(c.s) : x \in Outcomes(S) /\ x.s.conf = new /\ Alters(s, x.s, w) /\ x.is \in {"ok", "crash"}
    <3> SUFFICES ASSUME NEW x \in D(c.s)
                 PROVE  x \in Outcomes(S) /\ x.s.conf = new /\ Alters(s, x.s, w) /\ x.is \in {"ok", "crash"}
      OBVIOUS
    <3>1. PICK d \in Delete(c.s, "backup") :
            x \in CASE d.is = "ok" -> After(d.bad, Done(d.s))
                    [] d.is \in {"error", "half"} -> After(d.bad, Done(d.s))
                    [] OTHER -> {d}
      BY DEF Then
    <3>2. d \in Outcomes(S) /\ SetsTo(c.s, d, "backup", Nothing) BY <1>1, <1>5, DeleteEnds
    <3>3. d.s \in S /\ d.bad \in Nat /\ d.is \in Ending BY <3>2 DEF Outcomes
    <3>4. Alters(s, d.s, w) /\ d.s.conf = new
      <4>1. Alters(c.s, d.s, w) BY <1>1, <3>2, AltersBySet
      <4>2. d.s.conf = c.s.conf BY <3>2 DEF SetsTo, Touched
      <4> QED BY <1>6, <2>1, <4>1, <4>2, AltersTwice
    <3>5. CASE d.is = "crash"
      <4>1. x = d BY <3>1, <3>5
      <4> QED BY <3>2, <3>4, <3>5, <4>1
    <3>6. CASE d.is # "crash"
      <4>1. \A q \in Done(d.s) : q \in Outcomes(S) /\ q.s = d.s /\ q.is = "ok"
        BY <3>3, Ended DEF Done, Ending
      <4>2. x \in After(d.bad, Done(d.s)) BY <3>1, <3>3, <3>6 DEF Ending
      <4>3. x \in Outcomes(S) /\ x.s = d.s /\ x.is = "ok" BY <3>3, <4>1, <4>2, Afterwards DEF Like
      <4> QED BY <3>4, <4>3
    <3> QED BY <3>5, <3>6
  <2>3. o \in After(c.bad, D(c.s)) BY <1>2, <1>7
  <2> HIDE DEF D
  <2>4. D(c.s) \subseteq Outcomes(S) BY <2>2
  <2>5. PICK q \in D(c.s) : Like(o, q) /\ o \in Outcomes(S) BY <1>5, <2>3, <2>4, Afterwards
  <2>6. o.s.conf = new /\ Alters(s, o.s, w) /\ o.is \in {"ok", "crash"} BY <2>2, <2>5 DEF Like
  <2> QED BY <1>3, <2>5, <2>6 DEF ChangesTo
<1>8. CASE c.is \in {"error", "half"}
  <2>1. \A q \in As(c) : q \in Outcomes(S) /\ Like(q, c) BY <1>4, AsEnds
  <2>2. o \in After(c.bad, As(c)) BY <1>2, <1>8
  <2>3. o \in Outcomes(S) /\ o.s = c.s /\ o.is = c.is BY <1>5, <2>1, <2>2, Afterwards DEF Like
  <2> QED BY <1>1, <1>3, <1>4, <1>6, <1>8, <2>3 DEF ChangesTo
<1>9. CASE c.is = "crash"
  <2>1. o = c BY <1>2, <1>9
  <2> QED BY <1>1, <1>3, <1>4, <1>6, <1>9, <2>1 DEF ChangesTo
<1> QED BY <1>5, <1>7, <1>8, <1>9 DEF Ending

-----------------------------------------------------------------------------
(* What is saved goes home: the steps of the inductive invariant.          *)
LEMMA BoundIs ==
  ASSUME NEW o, NEW v
  PROVE  Bound(o, v) # Nothing /\ Bound(o, v).owner = o /\ Bound(o, v).value = v
<1>1. DOMAIN Bound(o, v) = {"owner", "value"} BY DEF Bound
<1>2. DOMAIN Nothing = {"owner"} BY DEF Nothing
<1> QED BY <1>1, <1>2 DEF Bound

LEMMA BoundIsSecret ==
  ASSUME NEW o \in ServerOrNone \cup Obses \cup {"unknown"},
         NEW v \in ServerOrNone \cup Obses \cup {"own"} \cup AnyStream
  PROVE  Bound(o, v) \in Secret \ {Nothing}
BY BoundIs DEF Secret, Bound

LEMMA SecretIsBound ==
  ASSUME NEW x \in Secret, x # Nothing
  PROVE  /\ x.owner \in ServerOrNone \cup Obses \cup {"unknown"}
         /\ x.value \in ServerOrNone \cup Obses \cup {"own"} \cup AnyStream
BY DEF Secret

LEMMA SomeNames == Nothing \in Secret /\ {"key", "password", "backup"} = Names
BY Constants DEF Secret

Fresh3(w) ==
  /\ \A k \in w["key"] : FreshKey(k)
  /\ \A p \in w["password"] : PasswordHome(p)
  /\ \A b \in w["backup"] : BackupHome(b)

LEMMA HomesStay ==
  ASSUME NEW s, NEW o, NEW w, NEW key, NEW new, Homes(s), ChangesTo(s, o, w, key, new), Fresh3(w),
         key.do = "keep" => new.url \in {s.conf.url, "none"}
  PROVE  Homes(o.s)
<1>1. \A n \in Names : Copies(o.s, n) \subseteq Copies(s, n) \cup w[n] BY DEF ChangesTo, Alters
<1>2. \A p \in Copies(o.s, "password") : PasswordHome(p) BY <1>1, SomeNames DEF Homes, Fresh3
<1>3. \A b \in Copies(o.s, "backup") : BackupHome(b) BY <1>1, SomeNames DEF Homes, Fresh3
<1>4. ASSUME NEW k \in Copies(o.s, "key") PROVE KeyHome(k, o.s.conf.url)
  <2>1. k \in Copies(s, "key") \/ k \in w["key"] BY <1>1, <1>4, SomeNames
  <2>2. CASE k \in w["key"] BY <2>2 DEF Fresh3, KeyHome
  <2>3. CASE k \in Copies(s, "key") /\ o.s.conf.url \in {s.conf.url, "none"}
    BY <2>3 DEF Homes, KeyHome
  <2>4. CASE o.s.conf.url \notin {s.conf.url, "none"}
    <3>1. o.s.conf # s.conf /\ o.s.conf = new BY <2>4 DEF ChangesTo
    <3>2. key.do # "keep" BY <2>4, <3>1
    <3>3. k \in w["key"] \cup {Nothing} BY <1>4, <3>1, <3>2 DEF ChangesTo
    <3> QED BY <3>3 DEF Fresh3, KeyHome, FreshKey
  <2> QED BY <2>1, <2>2, <2>3, <2>4
<1> QED BY <1>2, <1>3, <1>4 DEF Homes

(* The stream key goes to the server it is for (dest_key::for_url).        *)
LEMMA DestinationHome ==
  ASSUME NEW s \in Stores(Secret, Confs), Homes(s), NEW c, NEW r
  PROVE  Destination(s, c, r).key \in {"none", Destination(s, c, r).url}
<1> DEFINE k == Get(s, "key")
<1>1. k \in Copies(s, "key") BY SomeNames, GetIsKept
<1>2. KeyHome(k, s.conf.url) BY <1>1 DEF Homes
<1>3. ASSUME c.url # "none", KeyFor(s, c.url) # "none" PROVE KeyFor(s, c.url) = c.url
  <2>1. /\ k # Nothing /\ KeyFor(s, c.url) = k.value
        /\ (IF k.owner = "unknown" THEN s.conf.url ELSE k.owner) = c.url
    BY <1>3 DEF KeyFor, Different
  <2> QED BY <1>2, <1>3, <2>1 DEF KeyHome, FreshKey
<1> QED BY <1>3 DEF Destination, Override, Different

LEMMA PasswordHomeFor ==
  ASSUME NEW s \in Stores(Secret, Confs), Homes(s), NEW o
  PROVE  PasswordFor(s, o) \in {o, "none"}
BY SomeNames, GetIsKept DEF Homes, PasswordFor, PasswordHome

(* Every action that changes settings takes a change of this kind: w are   *)
(* the new secrets, key the change of the key, after the settings.         *)
Taken(o, w, key, after) ==
  /\ o \in Outcomes(Stores(Secret, Confs)) /\ after \in Confs
  /\ ChangesTo(kept, o, w, key, WithChanges(kept.conf, config, after))
  /\ Fresh3(w)
  /\ key.do = "keep" => WithChanges(kept.conf, config, after).url \in {kept.conf.url, "none"}
  /\ Takes(o, after)

LEMMA TakenHome ==
  ASSUME HomeInv, NEW o, NEW w, NEW key, NEW after, Taken(o, w, key, after)
  PROVE  /\ kept' \in Stores(Secret, Confs) /\ config' \in Confs
         /\ run' \in Commands /\ (run'.up => run'.port \in Ports)
         /\ Homes(kept') /\ RelayHome'
<1>1. o.s \in Stores(Secret, Confs) /\ o.is \in Ending BY DEF Taken, Outcomes
<1>2. o.s.conf \in Confs BY <1>1 DEF Stores
<1>3. kept' = o.s BY DEF Taken, Takes
<1>4. Homes(o.s) BY HomesStay DEF Taken, HomeInv
<1>5. config' \in Confs
  <2>1. after \in Confs BY DEF Taken
  <2>2. config' \in {after, o.s.conf, config} BY <1>1 DEF Taken, Takes, Ending
  <2> QED BY <1>2, <2>1, <2>2 DEF HomeInv, Types
<1>6. run' \in Commands /\ (run'.up => run'.port \in Ports)
  <2>1. run' \in {run, Down} BY DEF Taken, Takes
  <2>2. run \in Commands /\ (run.up => run.port \in Ports) BY DEF HomeInv, Types
  <2>3. Down \in Commands /\ ~Down.up BY <2>2 DEF Down, Commands
  <2> QED BY <2>1, <2>2, <2>3
<1>7. RelayHome'
  <2>1. relay' \in {Destination(o.s, after, run), NoDestination, relay} BY <1>1 DEF Taken, Takes, Ending
  <2>2. Destination(o.s, after, run).key \in {"none", Destination(o.s, after, run).url}
    BY <1>1, <1>4, DestinationHome
  <2>3. NoDestination.key \in {"none", NoDestination.url} BY DEF NoDestination
  <2> QED BY <2>1, <2>2, <2>3 DEF HomeInv, RelayHome
<1> QED BY <1>1, <1>3, <1>4, <1>5, <1>6, <1>7

LEMMA TakenRefused ==
  ASSUME NEW o, NEW w, NEW key, NEW after, Taken(o, w, key, after), ended' = "error"
  PROVE  Kept(kept') = Kept(kept) /\ kept'.conf = kept.conf /\ config' = config /\ relay' = relay
BY DEF Taken, Takes, ChangesTo

-----------------------------------------------------------------------------
(* The actions that change settings *)

(* w: the new keys K, and x for the secret name. *)
New(name, x, K) == [n \in Names |-> IF n = "key" THEN K ELSE IF n = name THEN {x} ELSE {}]

(* A change that has nothing to do with a backup. *)
PlainChange ==
  /\ \E o, w, key, after :
       Taken(o, w, key, after) /\ w["backup"] = {} /\ after.backup = config.backup
  /\ wizard' \in {wizard, Idle} /\ UNCHANGED <<obs, mine>>

LEMMA SameConf ==
  ASSUME NEW a \in Confs, NEW b
  PROVE  WithChanges(a, b, b) = a
<1>1. DOMAIN a = {"url", "mode", "obs", "backup"} BY DEF Confs
<1>2. WithChanges(a, b, b) = [f \in {"url", "mode", "obs", "backup"} |-> a[f]] BY <1>1 DEF WithChanges
<1>3. a = [f \in {"url", "mode", "obs", "backup"} |-> a[f]] BY <1>1 DEF Confs
<1> QED BY <1>2, <1>3

LEMMA UpdateConfigTakes ==
  ASSUME HomeInv, UpdateConfig
  PROVE  PlainChange
<1>1. PICK url \in Servers \cup {"none"}, mode \in {"stored", "passthrough"}, typed \in BOOLEAN :
        LET after == [config EXCEPT !.url = url, !.mode = mode]
            key == IF typed THEN SaveKey(url, url)
                   ELSE IF Different(kept.conf.url, SavedAfter(url)) THEN Forget ELSE Keep
        IN /\ typed => url # "none" /\ ~Different(SavedAfter(url), url)
           /\ \E o \in Changed(kept, key, after) : Takes(o, after) /\ Stays(o)
  BY DEF UpdateConfig
<1> DEFINE after == [config EXCEPT !.url = url, !.mode = mode]
           key == IF typed THEN SaveKey(url, url)
                  ELSE IF Different(kept.conf.url, SavedAfter(url)) THEN Forget ELSE Keep
           v == IF typed THEN Bound(url, url) ELSE Nothing
           K == IF key.do = "keep" THEN {} ELSE {v}
           w == New("none", Nothing, K)
           new == WithChanges(kept.conf, config, after)
<1>2. PICK o \in Changed(kept, key, after) : Takes(o, after) /\ Stays(o) BY <1>1
<1>3. /\ kept \in Stores(Secret, Confs) /\ kept.conf \in Confs /\ config \in Confs
  BY DEF HomeInv, Types, Stores
<1>4. after \in Confs /\ after.url = url /\ after.backup = config.backup BY <1>3 DEF Confs, ServerOrNone
<1>5. new \in Confs /\ new.url = SavedAfter(url)
  <2> HIDE DEF after
  <2> QED BY <1>3, <1>4, ConfsChanged DEF SavedAfter
<1>6. IsKeyStep(key, v, Secret)
  <2>1. CASE typed
    <3>1. v \in Secret \ {Nothing} BY <2>1, BoundIsSecret DEF ServerOrNone
    <3> QED BY <2>1, <3>1 DEF IsKeyStep, SaveKey
  <2>2. CASE ~typed BY <2>2, SomeNames DEF IsKeyStep, Forget, Keep
  <2> QED BY <2>1, <2>2
<1>7. key.do = "keep" => new.url \in {kept.conf.url, "none"}
  <2>1. key.do = "keep" => ~Different(kept.conf.url, SavedAfter(url)) BY DEF SaveKey, Forget, Keep
  <2> QED BY <1>5, <2>1 DEF Different
<1>8. /\ w["key"] = K /\ w["password"] = {} /\ w["backup"] = {}
  <2> HIDE DEF K
  <2> QED BY SomeNames DEF New
<1>9. Fresh3(w)
  <2>1. FreshKey(v)
    <3>1. CASE typed
      <4>1. url # "unknown" BY <1>1, Constants
      <4> QED BY <3>1, <4>1, BoundIs DEF FreshKey
    <3>2. CASE ~typed BY <3>2 DEF FreshKey
    <3> QED BY <3>1, <3>2
  <2> HIDE DEF w, v
  <2> QED BY <1>8, <2>1 DEF Fresh3
<1>10. key.do # "keep" => v \in w["key"] BY <1>8
<1> HIDE DEF after, key, v, K, w
<1>11. o \in Outcomes(Stores(Secret, Confs)) /\ ChangesTo(kept, o, w, key, new)
  BY <1>3, <1>5, <1>6, <1>10, SomeNames, ChangedEnds
<1> HIDE DEF new
<1>12. Taken(o, w, key, after) BY <1>2, <1>4, <1>7, <1>9, <1>11 DEF Taken, new
<1> QED BY <1>2, <1>4, <1>8, <1>12 DEF PlainChange, Stays, UpdateConfig

LEMMA KeyAloneTakes ==
  ASSUME HomeInv, NEW v \in Secret, FreshKey(v), NEW o \in Outcomes(Stores(Secret, Confs)),
         SetsTo(kept, o, "key", v), Takes(o, config), Stays(o), UNCHANGED <<obs, mine>>
  PROVE  PlainChange
<1> DEFINE w == New("none", Nothing, {v})
<1>1. kept.conf \in Confs /\ config \in Confs BY DEF HomeInv, Types, Stores
<1>2. WithChanges(kept.conf, config, config) = kept.conf BY <1>1, SameConf
<1>3. w["key"] = {v} /\ w["password"] = {} /\ w["backup"] = {} BY SomeNames DEF New
<1> HIDE DEF w
<1>4. Alters(kept, o.s, w) BY <1>3, SomeNames, AltersBySet
<1>5. o.s.conf = kept.conf BY DEF SetsTo, Touched
<1>6. o.is = "error" => Kept(o.s) = Kept(kept) BY SomeNames, KeptByError
<1>7. ChangesTo(kept, o, w, Keep, kept.conf) BY <1>4, <1>5, <1>6 DEF ChangesTo
<1>8. Fresh3(w) BY <1>3 DEF Fresh3
<1>9. Taken(o, w, Keep, config) BY <1>1, <1>2, <1>7, <1>8 DEF Taken
<1> QED BY <1>3, <1>9 DEF PlainChange, Stays

LEMMA SetKeyTakes ==
  ASSUME HomeInv, SetKey
  PROVE  PlainChange
<1> DEFINE to == IF config.url = "none" THEN kept.conf.url ELSE config.url
           v == Bound(kept.conf.url, to)
<1>1. PICK o \in Set(kept, "key", v) : Takes(o, config) /\ Stays(o) BY DEF SetKey
<1>2. kept \in Stores(Secret, Confs) /\ kept.conf.url \in ServerOrNone /\ config.url \in ServerOrNone
  BY DEF HomeInv, Types, Stores, Confs
<1>3. to = kept.conf.url BY DEF SetKey, Different
<1>4. v \in Secret \ {Nothing} BY <1>2, <1>3, BoundIsSecret
<1>5. FreshKey(v)
  <2>1. kept.conf.url # "unknown" BY <1>2, Constants DEF ServerOrNone
  <2> QED BY <1>3, <2>1, BoundIs DEF FreshKey
<1> HIDE DEF v
<1>6. o \in Outcomes(Stores(Secret, Confs)) /\ SetsTo(kept, o, "key", v)
  BY <1>1, <1>2, <1>4, SomeNames, SetEnds
<1> QED BY <1>1, <1>4, <1>5, <1>6, KeyAloneTakes DEF SetKey

LEMMA DeleteKeyTakes ==
  ASSUME HomeInv, DeleteKey
  PROVE  PlainChange
<1>1. PICK o \in Delete(kept, "key") : Takes(o, config) /\ Stays(o) BY DEF DeleteKey
<1>2. kept \in Stores(Secret, Confs) BY DEF HomeInv, Types
<1>3. o \in Outcomes(Stores(Secret, Confs)) /\ SetsTo(kept, o, "key", Nothing)
  BY <1>1, <1>2, SomeNames, DeleteEnds
<1> QED BY <1>1, <1>3, SomeNames, KeyAloneTakes DEF DeleteKey, FreshKey

(* The wizard's records *)
LEMMA WizardIs ==
  ASSUME Types
  PROVE  /\ wizard.step \in {"connect", "configure"} =>
              /\ wizard.obs \in Obses /\ wizard.typed \in BOOLEAN
              /\ wizard.password \in {wizard.obs, "none"} /\ wizard.config \in Confs
              /\ wizard.server \in Ports /\ wizard.found \in Streams(wizard.obs)
         /\ wizard.step = "stream" =>
              wizard.obs \in Obses /\ wizard.server \in Ports /\ wizard.key \in Servers \cup {"own"}
<1>1. CASE wizard \in {Idle, [step |-> "restored"]} BY <1>1 DEF Idle
<1>2. CASE \E o \in Obses :
             wizard \in [step : {"connect", "configure"}, obs : {o}, typed : BOOLEAN, password : {o, "none"},
                        config : Confs, server : Ports, found : Streams(o)]
  <2>1. PICK o \in Obses :
               wizard \in [step : {"connect", "configure"}, obs : {o}, typed : BOOLEAN, password : {o, "none"},
                          config : Confs, server : Ports, found : Streams(o)]
    BY <1>2
  <2>2. wizard.obs = o /\ wizard.step \in {"connect", "configure"} BY <2>1
  <2> QED BY <2>1, <2>2
<1>3. CASE wizard \in [step : {"stream"}, obs : Obses, server : Ports, key : Servers \cup {"own"}]
  BY <1>3
<1> QED BY <1>1, <1>2, <1>3 DEF Types, IsWizard

LEMMA ConnectedTakes ==
  ASSUME HomeInv, Connected
  PROVE  PlainChange
<1> DEFINE u == wizard
           after == [config EXCEPT !.obs = u.obs]
           same == u.obs = u.config.obs
           updated == CASE u.typed -> Set(kept, "password", Bound(u.obs, u.password))
                        [] ~u.typed /\ ~same -> Delete(kept, "password")
                        [] OTHER -> Done(kept)
           x == IF u.typed THEN Bound(u.obs, u.password) ELSE Nothing
           w == New("password", x, {})
           new == WithChanges(kept.conf, config, after)
           S == Stores(Secret, Confs)
<1>1. PICK o \in ChangedWith(kept, "password", updated, Keep, after) : Takes(o, after)
  BY DEF Connected
<1>2. kept \in S /\ kept.conf \in Confs /\ config \in Confs BY DEF HomeInv, Types, Stores
<1>3. u.obs \in Obses /\ u.typed \in BOOLEAN /\ (u.typed => u.password = u.obs)
  BY WizardIs DEF Connected, HomeInv, Types
<1>4. after \in Confs /\ after.url = config.url /\ after.backup = config.backup BY <1>2, <1>3 DEF Confs
<1>5. new \in Confs /\ new.url = kept.conf.url
  <2> HIDE DEF after
  <2> QED BY <1>2, <1>4, ConfsChanged
<1>6. x \in Secret /\ PasswordHome(x)
  <2>1. CASE u.typed BY <1>3, <2>1, BoundIsSecret, BoundIs DEF PasswordHome
  <2>2. CASE ~u.typed BY <2>2, SomeNames DEF PasswordHome
  <2> QED BY <2>1, <2>2
<1>7. \A q \in updated : q \in Outcomes(S) /\ Touched(kept, q.s, "password", x)
  <2> SUFFICES ASSUME NEW q \in updated
               PROVE  q \in Outcomes(S) /\ Touched(kept, q.s, "password", x)
    OBVIOUS
  <2>1. CASE u.typed
    <3>1. q \in Set(kept, "password", x) BY <2>1
    <3>2. x \in Secret \ {Nothing} BY <1>3, <2>1, BoundIsSecret
    <3> HIDE DEF x
    <3> QED BY <1>2, <3>1, <3>2, SomeNames, SetEnds DEF SetsTo
  <2>2. CASE ~u.typed /\ ~same
    <3>1. q \in Delete(kept, "password") /\ x = Nothing BY <2>2
    <3> HIDE DEF x
    <3> QED BY <1>2, <3>1, SomeNames, DeleteEnds DEF SetsTo
  <2>3. CASE ~u.typed /\ same
    <3>1. q \in Done(kept) BY <2>3
    <3>2. q \in Outcomes(S) /\ q.s = kept BY <1>2, <3>1, Ended DEF Done, Ending
    <3> QED BY <3>2 DEF Touched, Copies
  <2> QED BY <1>3, <2>1, <2>2, <2>3
<1> HIDE DEF after, updated, x
<1>8. w["key"] = {} /\ w["password"] = {x} /\ w["backup"] = {} BY SomeNames DEF New
<1> HIDE DEF w
<1>9. Fresh3(w) BY <1>6, <1>8 DEF Fresh3
<1>10. IsKeyStep(Keep, Nothing, Secret) /\ Keep.do = "keep" BY SomeNames DEF IsKeyStep, Keep
<1>11. "password" \in Names \ {"key"} BY SomeNames
<1>12. Updates(updated, S, kept, "password", x) BY <1>7 DEF Updates
<1>13. o \in Outcomes(S) /\ ChangesTo(kept, o, w, Keep, new)
  <2>1. Keep.do # "keep" => Nothing \in w["key"] BY <1>10
  <2>2. x \in w["password"] BY <1>8
  <2> QED BY <1>1, <1>2, <1>5, <1>10, <1>11, <1>12, <2>1, <2>2, SomeNames, ChangedWithEnds
<1>14. Taken(o, w, Keep, after) BY <1>1, <1>4, <1>5, <1>9, <1>13 DEF Taken
<1> QED BY <1>4, <1>8, <1>14 DEF PlainChange, Connected

(* A back-up, and what it leaves. *)
BackedUp(o, w, key, after) ==
  /\ Taken(o, w, key, after)
  /\ after.backup = wizard.obs /\ w["backup"] = {Bound(wizard.obs, wizard.found)}
  /\ o.is = "ok" \/ o.s.conf # kept.conf => Get(o.s, "backup") = Bound(wizard.obs, wizard.found)
  /\ mine' = CASE o.is = "ok" -> IF wizard.found.by = wizard.obs \/ wizard.obs = mine
                                  THEN wizard.obs ELSE "none"
              [] o.is \in {"crash", "half"} /\ wizard.obs # mine -> "none"
              [] OTHER -> mine
  /\ \/ wizard' = Idle
     \/ /\ o.is = "ok"
        /\ wizard' \in [step : {"stream"}, obs : {wizard.obs}, server : Ports, key : Servers \cup {"own"}]
BackUpChange == \E o, w, key, after : BackedUp(o, w, key, after)

LEMMA KeyForObsIs ==
  ASSUME Types, wizard.step = "configure"
  PROVE  KeyForObs(wizard) \in Servers \cup {"own"}
BY WizardIs DEF KeyForObs, Streams

LEMMA BackUpTakes ==
  ASSUME HomeInv, BackUp
  PROVE  BackUpChange
<1> DEFINE u == wizard
           x == Bound(u.obs, u.found)
           S == Stores(Secret, Confs)
<1>1. PICK import \in BOOLEAN :
        LET after == IF import
                     THEN [config EXCEPT !.backup = u.obs, !.mode = "stored", !.url = Twitch]
                     ELSE [config EXCEPT !.backup = u.obs]
        IN /\ import => u.found.server = Twitch
           /\ \E o \in ChangedWith(kept, "backup", Set(kept, "backup", x),
                                   IF import THEN SaveKey(Twitch, u.found.key) ELSE Keep, after) :
                /\ Takes(o, after)
                /\ mine' = CASE o.is = "ok" -> IF u.found.by = u.obs \/ u.obs = mine
                                                THEN u.obs ELSE "none"
                            [] o.is \in {"crash", "half"} /\ u.obs # mine -> "none"
                            [] OTHER -> mine
                /\ wizard' = IF o.is = "ok"
                             THEN [step |-> "stream", obs |-> u.obs, server |-> u.server,
                                   key |-> IF import THEN "own" ELSE KeyForObs(u)]
                             ELSE Idle
  BY DEF BackUp
<1> DEFINE after == IF import
                    THEN [config EXCEPT !.backup = u.obs, !.mode = "stored", !.url = Twitch]
                    ELSE [config EXCEPT !.backup = u.obs]
           key == IF import THEN SaveKey(Twitch, u.found.key) ELSE Keep
           v == IF import THEN Bound(Twitch, u.found.key) ELSE Nothing
           K == IF import THEN {v} ELSE {}
           w == New("backup", x, K)
           new == WithChanges(kept.conf, config, after)
<1>2. PICK o \in ChangedWith(kept, "backup", Set(kept, "backup", x), key, after) :
        /\ Takes(o, after)
        /\ mine' = CASE o.is = "ok" -> IF u.found.by = u.obs \/ u.obs = mine THEN u.obs ELSE "none"
                    [] o.is \in {"crash", "half"} /\ u.obs # mine -> "none"
                    [] OTHER -> mine
        /\ wizard' = IF o.is = "ok"
                     THEN [step |-> "stream", obs |-> u.obs, server |-> u.server,
                           key |-> IF import THEN "own" ELSE KeyForObs(u)]
                     ELSE Idle
  BY <1>1
<1>3. kept \in S /\ kept.conf \in Confs /\ config \in Confs BY DEF HomeInv, Types, Stores
<1>4. /\ u.step = "configure" /\ u.obs \in Obses /\ u.server \in Ports /\ u.found \in Streams(u.obs)
  BY WizardIs DEF BackUp, HomeInv
<1>5. after \in Confs /\ after.backup = u.obs /\ (~import => after.url = config.url)
  BY <1>3, <1>4, Constants DEF Confs, ServerOrNone
<1>6. new \in Confs /\ (~import => new.url = kept.conf.url)
  <2> HIDE DEF after
  <2> QED BY <1>3, <1>5, ConfsChanged
<1>7. x \in Secret \ {Nothing} /\ BackupHome(x)
  <2>1. u.found \in AnyStream BY <1>4 DEF AnyStream
  <2> QED BY <1>4, <2>1, BoundIsSecret, BoundIs DEF BackupHome
(* The key OBS had for Twitch. *)
<1>8. import => u.found.key = Twitch
  <2>1. ASSUME import PROVE u.found.server = Twitch BY <1>1, <2>1
  <2>2. Twitch \notin Ports BY Constants DEF Ports
  <2> QED BY <1>4, <2>1, <2>2 DEF Streams
<1>9. v \in Secret /\ FreshKey(v) /\ IsKeyStep(key, v, Secret) /\ (key.do = "keep" => ~import)
  <2>1. CASE import
    <3>1. v = Bound(Twitch, Twitch) BY <1>8, <2>1
    <3>2. v \in Secret \ {Nothing} BY <3>1, BoundIsSecret, Constants DEF ServerOrNone
    <3>3. FreshKey(v) BY <3>1, BoundIs, Constants DEF FreshKey
    <3>4. key = SaveKey(Twitch, u.found.key) /\ v = Bound(Twitch, u.found.key) BY <2>1
    <3> HIDE DEF key, v
    <3> QED BY <2>1, <3>2, <3>3, <3>4 DEF IsKeyStep, SaveKey
  <2>2. CASE ~import BY <2>2, SomeNames DEF IsKeyStep, Keep, FreshKey
  <2> QED BY <2>1, <2>2
<1>10. key.do # "keep" => v \in K BY DEF Keep
<1>11. K \subseteq {v} OBVIOUS
<1>12. Updates(Set(kept, "backup", x), S, kept, "backup", x) /\ Sets(Set(kept, "backup", x), "backup", x)
  <2> HIDE DEF x
  <2>1. \A q \in Set(kept, "backup", x) : q \in Outcomes(S) /\ SetsTo(kept, q, "backup", x)
    BY <1>3, <1>7, SomeNames, SetEnds
  <2> QED BY <2>1 DEF Updates, Sets, SetsTo
<1> HIDE DEF after, key, v, x, K
<1>13. w["key"] = K /\ w["password"] = {} /\ w["backup"] = {x} BY SomeNames DEF New
<1> HIDE DEF w
<1>14. Fresh3(w) BY <1>7, <1>9, <1>11, <1>13 DEF Fresh3
<1>15. /\ o \in Outcomes(S) /\ ChangesTo(kept, o, w, key, new)
       /\ o.is = "ok" \/ o.s.conf # kept.conf => Get(o.s, "backup") = x
  <2>1. key.do # "keep" => v \in w["key"] BY <1>10, <1>13
  <2>2. x \in w["backup"] BY <1>13
  <2>3. "backup" \in Names \ {"key"} BY SomeNames
  <2> QED BY <1>2, <1>3, <1>6, <1>9, <1>12, <2>1, <2>2, <2>3, SomeNames, ChangedWithEnds
<1>16. Taken(o, w, key, after) BY <1>2, <1>5, <1>6, <1>9, <1>14, <1>15 DEF Taken
<1>17. wizard' = Idle \/ (o.is = "ok" /\ wizard' \in [step : {"stream"}, obs : {u.obs}, server : Ports,
                                                      key : Servers \cup {"own"}])
  <2>1. KeyForObs(u) \in Servers \cup {"own"} BY <1>4, KeyForObsIs DEF HomeInv
  <2> QED BY <1>2, <1>4, <2>1
<1>18. BackedUp(o, w, key, after) BY <1>2, <1>5, <1>13, <1>15, <1>16, <1>17 DEF BackedUp, x
<1> QED BY <1>18 DEF BackUpChange

LEMMA RestoredTakes ==
  ASSUME HomeInv, Restored
  PROVE  \E o, w, after : /\ Taken(o, w, Keep, after) /\ after = [config EXCEPT !.backup = "none"]
                          /\ Get(o.s, "backup") # Get(kept, "backup") =>
                               o.s.conf = WithChanges(kept.conf, config, after)
<1> DEFINE after == [config EXCEPT !.backup = "none"]
           w == New("backup", Nothing, {})
           new == WithChanges(kept.conf, config, after)
<1>1. PICK o \in BackupForgotten(kept, after) : Takes(o, after) BY DEF Restored
<1>2. /\ kept \in Stores(Secret, Confs) /\ kept.conf \in Confs /\ config \in Confs
  BY DEF HomeInv, Types, Stores
<1>3. after \in Confs /\ after.url = config.url BY <1>2 DEF Confs
<1> HIDE DEF after
<1>4. new \in Confs /\ new.url = kept.conf.url BY <1>2, <1>3, ConfsChanged
<1>5. w["key"] = {} /\ w["password"] = {} /\ w["backup"] = {Nothing} BY SomeNames DEF New
<1> HIDE DEF w
<1>6. Fresh3(w) BY <1>5 DEF Fresh3, BackupHome
<1>7. /\ o \in Outcomes(Stores(Secret, Confs)) /\ ChangesTo(kept, o, w, Keep, new)
      /\ Get(o.s, "backup") # Get(kept, "backup") => o.s.conf = new
  <2>1. Nothing \in w["backup"] BY <1>5
  <2> QED BY <1>1, <1>2, <1>4, <2>1, SomeNames, BackupForgottenEnds
<1>8. Taken(o, w, Keep, after) BY <1>1, <1>3, <1>4, <1>6, <1>7 DEF Taken
<1> QED BY <1>7, <1>8 DEF after

-----------------------------------------------------------------------------
(* Starting: a plain key is tied to the destination it was for, if it can. *)
LEMMA BindEnds ==
  ASSUME NEW s \in Stores(Secret, Confs), Homes(s), NEW o \in Bind(s)
  PROVE  /\ o \in Outcomes(Stores(Secret, Confs)) /\ o.s.conf = s.conf /\ Homes(o.s)
         /\ Get(o.s, "backup") = Get(s, "backup")
<1> DEFINE S == Stores(Secret, Confs)
           k == Get(s, "key")
           v == Bound(s.conf.url, k.value)
<1>1. k \in Secret /\ k \in Copies(s, "key") /\ s.conf.url \in ServerOrNone
  <2>1. k \in Secret /\ k \in Copies(s, "key") BY SomeNames, GetIsKept
  <2>2. s.conf \in Confs BY DEF Stores
  <2> QED BY <2>1, <2>2 DEF Confs
<1>2. CASE k # Nothing /\ k.owner = "unknown"
  <2>1. PICK q \in Set(s, "key", v) :
          o \in CASE q.is = "ok" -> After(q.bad, Done(q.s))
                  [] q.is \in {"error", "half"} -> After(q.bad, Done(q.s))
                  [] OTHER -> {q}
    BY <1>2 DEF Bind, Then
  <2>2. v \in Secret \ {Nothing} BY <1>1, <1>2, SecretIsBound, BoundIsSecret
  <2>3. FreshKey(v)
    <3>1. KeyHome(k, s.conf.url) BY <1>1 DEF Homes
    <3>2. s.conf.url \in {k.value, "none"} BY <1>2, <3>1 DEF KeyHome, FreshKey
    <3>3. s.conf.url # "unknown" BY <1>1, Constants DEF ServerOrNone
    <3> QED BY <3>2, <3>3, BoundIs DEF FreshKey
  <2> HIDE DEF v
  <2>4. q \in Outcomes(S) /\ SetsTo(s, q, "key", v) BY <2>1, <2>2, SomeNames, SetEnds
  <2>5. q.s \in S /\ q.bad \in Nat /\ q.is \in Ending BY <2>4 DEF Outcomes
  <2>6. q.s.conf = s.conf /\ Get(q.s, "backup") = Get(s, "backup")
    BY <2>4, SomeNames DEF SetsTo, Touched, Get
  <2>7. Homes(q.s)
    <3>1. Copies(q.s, "key") \subseteq Copies(s, "key") \cup {v} BY <2>4 DEF SetsTo, Touched
    <3>2. Copies(q.s, "password") = Copies(s, "password") /\ Copies(q.s, "backup") = Copies(s, "backup")
      BY <2>4, SomeNames DEF SetsTo, Touched, Copies
    <3> QED BY <2>3, <2>6, <3>1, <3>2 DEF Homes, KeyHome
  <2>8. CASE q.is = "crash"
    <3>1. o = q BY <2>1, <2>8
    <3> QED BY <2>4, <2>6, <2>7, <3>1
  <2>9. CASE q.is # "crash"
    <3>1. \A z \in Done(q.s) : z \in Outcomes(S) /\ z.s = q.s BY <2>5, Ended DEF Done, Ending
    <3>2. o \in After(q.bad, Done(q.s)) BY <2>1, <2>5, <2>9 DEF Ending
    <3>3. o \in Outcomes(S) /\ o.s = q.s BY <2>5, <3>1, <3>2, Afterwards DEF Like
    <3> QED BY <2>6, <2>7, <3>3
  <2> QED BY <2>8, <2>9
<1>3. CASE ~(k # Nothing /\ k.owner = "unknown")
  <2>1. o \in Done(s) BY <1>3 DEF Bind
  <2>2. o \in Outcomes(S) /\ o.s = s BY <2>1, Ended DEF Done, Ending
  <2> QED BY <2>2
<1> QED BY <1>2, <1>3

LEMMA StartTakes ==
  ASSUME HomeInv, Start
  PROVE  /\ kept' \in Stores(Secret, Confs) /\ config' \in Confs
         /\ run' \in Commands /\ (run'.up => run'.port \in Ports)
         /\ Homes(kept') /\ RelayHome'
         /\ kept'.conf = kept.conf /\ config'.backup = kept.conf.backup
         /\ Get(kept', "backup") = Get(kept, "backup")
<1>1. PICK r \in Runs, o \in Bind(kept) :
        LET started == [up |-> o.is # "crash", url |-> r.url, given |-> r.given, port |-> r.port,
                        first |-> InEffect(kept.conf, r).url]
        IN /\ kept' = o.s
           /\ config' = InEffect(kept.conf, r)
           /\ run' = started
           /\ relay' = IF started.up THEN Destination(o.s, config', started) ELSE NoDestination
  BY DEF Start
<1>2. kept \in Stores(Secret, Confs) /\ Homes(kept) /\ kept.conf \in Confs BY DEF HomeInv, Types, Stores
<1>3. /\ o \in Outcomes(Stores(Secret, Confs)) /\ o.s.conf = kept.conf /\ Homes(o.s)
      /\ Get(o.s, "backup") = Get(kept, "backup")
  BY <1>2, BindEnds
<1>4. r.url \in ServerOrNone /\ r.given \in BOOLEAN /\ r.port \in Ports
  BY Constants DEF ServerOrNone, Ports
<1>5. /\ InEffect(kept.conf, r) \in Confs /\ InEffect(kept.conf, r).url \in ServerOrNone
      /\ InEffect(kept.conf, r).backup = kept.conf.backup
  BY <1>2, <1>4 DEF InEffect, Confs
<1>6. run' \in Commands /\ run'.port \in Ports BY <1>1, <1>4, <1>5 DEF Commands
<1>7. o.s \in Stores(Secret, Confs) BY <1>3 DEF Outcomes
<1>8. RelayHome'
  <2>1. \A c, q : Destination(o.s, c, q).key \in {"none", Destination(o.s, c, q).url}
    BY <1>3, <1>7, DestinationHome
  <2>2. NoDestination.key \in {"none", NoDestination.url} BY DEF NoDestination
  <2>3. relay' = NoDestination \/ \E c, q : relay' = Destination(o.s, c, q) BY <1>1
  <2> QED BY <2>1, <2>2, <2>3 DEF RelayHome
<1> QED BY <1>1, <1>3, <1>5, <1>6, <1>7, <1>8

LEMMA InitHome == Init => HomeInv
<1> SUFFICES ASSUME Init PROVE HomeInv OBVIOUS
<1>1. PICK k \in BOOLEAN, old \in BOOLEAN :
        kept = [hasKeychain |-> k, conf |-> Fresh,
                keychain |-> [n \in Names |-> Nothing],
                file |-> [n \in Names |-> IF n = "key" /\ old THEN Bound("unknown", Twitch) ELSE Nothing]]
  BY DEF Init
<1>2. Twitch \in ServerOrNone /\ Fresh \in Confs /\ Fresh.url = Twitch
  BY Constants DEF Fresh, Confs, ServerOrNone
<1>3. Bound("unknown", Twitch) \in Secret BY <1>2, BoundIsSecret
<1>4. kept \in Stores(Secret, Confs) BY <1>1, <1>2, <1>3, SomeNames DEF Stores
<1>5. Homes(kept)
  <2>1. /\ Copies(kept, "key") \subseteq {Bound("unknown", Twitch), Nothing}
        /\ Copies(kept, "password") = {Nothing} /\ Copies(kept, "backup") = {Nothing}
    BY <1>1, SomeNames DEF Copies
  <2>2. kept.conf.url = Twitch BY <1>1, <1>2
  <2> QED BY <2>1, <2>2, BoundIs DEF Homes, KeyHome, FreshKey, PasswordHome, BackupHome
<1>6. obs \in [Obses -> AnyStream] /\ \A o \in Obses : obs[o] \in Streams(o)
  <2>1. \A o \in Obses : Own(o, Twitch) \in Streams(o) BY Constants DEF Own, Streams
  <2> QED BY <2>1 DEF Init, AnyStream
<1>7. run \in Commands /\ ~run.up BY <1>2 DEF Init, Commands, ServerOrNone
<1>8. IsWizard(wizard) /\ wizard.step # "connect" BY DEF Init, Idle, IsWizard
<1> QED BY <1>2, <1>4, <1>5, <1>6, <1>7, <1>8 DEF HomeInv, Types, Init, RelayHome, NoDestination

(* The wizard goes on, or begins by asking an OBS. *)
LEMMA LooksHome ==
  ASSUME HomeInv, run.up, NEW step \in {"connect", "configure"}, NEW o \in Obses, NEW typed \in BOOLEAN,
         NEW password \in {o, "none"}, Looks(step, o, typed, password)
  PROVE  IsWizard(wizard')
<1>1. config \in Confs /\ run.port \in Ports /\ obs[o] \in Streams(o) BY DEF HomeInv, Types
<1>2. wizard' \in [step : {"connect", "configure"}, obs : {o}, typed : BOOLEAN, password : {o, "none"},
                   config : Confs, server : Ports, found : Streams(o)]
  BY <1>1 DEF Looks
<1> QED BY <1>2 DEF IsWizard

LEMMA AskedOfIs ==
  ASSUME HomeInv, NEW o
  PROVE  AskedOf(o) \in {o, "none"}
BY PasswordHomeFor DEF AskedOf, HomeInv, Types

LEMMA IdleIs == IsWizard(Idle) /\ Idle.step = "idle"
BY DEF IsWizard, Idle

LEMMA HomeStep == HomeInv /\ [Next]_vars => HomeInv'
<1> SUFFICES ASSUME HomeInv, [Next]_vars PROVE HomeInv' OBVIOUS
<1> USE DEF HomeInv
(* What a change of the settings leaves to show. *)
<1>1. ASSUME NEW o, NEW w, NEW key, NEW after, Taken(o, w, key, after),
             obs' = obs, mine' \in Obses \cup {"none"}, IsWizard(wizard'),
             wizard'.step = "connect" => wizard' = wizard
      PROVE  HomeInv'
  BY <1>1, TakenHome DEF Types
<1>2. ASSUME PlainChange PROVE HomeInv'
  <2>1. PICK o, w, key, after : Taken(o, w, key, after) BY <1>2 DEF PlainChange
  <2>2. wizard' \in {wizard, Idle} /\ UNCHANGED <<obs, mine>> BY <1>2 DEF PlainChange
  <2> QED BY <1>1, <2>1, <2>2, IdleIs DEF Types
<1>3. CASE Start BY <1>3, StartTakes DEF Start, Types
<1>4. CASE End
  <2>1. Down \in Commands /\ ~Down.up BY DEF Types, Down, Commands
  <2>2. kept.conf \in Confs BY DEF Types, Stores
  <2> QED BY <1>4, <2>1, <2>2, IdleIs DEF End, Types, RelayHome, NoDestination
<1>5. CASE UpdateConfig BY <1>2, <1>5, UpdateConfigTakes
<1>6. CASE SetKey BY <1>2, <1>6, SetKeyTakes
<1>7. CASE DeleteKey BY <1>2, <1>7, DeleteKeyTakes
<1>8. CASE Connect
  <2>1. PICK o \in Obses, typed \in BOOLEAN :
          Looks("connect", o, typed, IF typed THEN o ELSE AskedOf(o))
    BY <1>8 DEF Connect
  <2>2. IsWizard(wizard') BY <1>8, <2>1, AskedOfIs, LooksHome DEF Connect, Acting
  <2>3. wizard'.typed => wizard'.password = wizard'.obs BY <2>1 DEF Looks
  <2> QED BY <1>8, <2>2, <2>3 DEF Connect, Types, RelayHome
<1>9. CASE Connected BY <1>2, <1>9, ConnectedTakes
<1>10. CASE GiveUp BY <1>10, IdleIs DEF GiveUp, Types, RelayHome
<1>11. CASE Configure
  <2>1. config.obs \in Obses BY DEF Types, Confs
  <2>2. IsWizard(wizard') BY <1>11, <2>1, AskedOfIs, LooksHome DEF Configure, Acting
  <2>3. wizard'.step = "configure" BY <1>11 DEF Configure, Looks
  <2> QED BY <1>11, <2>2, <2>3 DEF Configure, Types, RelayHome
<1>12. CASE AlreadySetUp BY <1>12, IdleIs DEF AlreadySetUp, Types, RelayHome
<1>13. CASE Redirect
  <2>1. IsWizard(wizard') /\ wizard'.step # "connect"
    <3>1. wizard.obs \in Obses /\ wizard.server \in Ports BY <1>13, WizardIs DEF Redirect
    <3>2. KeyForObs(wizard) \in Servers \cup {"own"} BY <1>13, KeyForObsIs DEF Redirect
    <3> QED BY <1>13, <3>1, <3>2, IdleIs DEF Redirect, IsWizard
  <2> QED BY <1>13, <2>1 DEF Redirect, Types, RelayHome
<1>14. CASE BackUp
  <2>1. PICK o, w, key, after : BackedUp(o, w, key, after) BY <1>14, BackUpTakes DEF BackUpChange
  <2>2. wizard.obs \in Obses BY <1>14, WizardIs DEF BackUp
  <2>3. mine' \in Obses \cup {"none"}
    <3>1. o.is \in Ending BY <2>1 DEF BackedUp, Taken, Outcomes
    <3>2. mine' \in {wizard.obs, "none", mine} BY <2>1, <3>1 DEF BackedUp, Ending
    <3> QED BY <2>2, <3>2 DEF Types
  <2>4. IsWizard(wizard') /\ wizard'.step # "connect"
    <3>1. CASE wizard' = Idle BY <3>1, IdleIs
    <3>2. CASE wizard' \in [step : {"stream"}, obs : {wizard.obs}, server : Ports, key : Servers \cup {"own"}]
      BY <2>2, <3>2 DEF IsWizard
    <3> QED BY <2>1, <3>1, <3>2 DEF BackedUp
  <2>5. obs' = obs BY <1>14 DEF BackUp
  <2> QED BY <1>1, <2>1, <2>3, <2>4, <2>5 DEF BackedUp
<1>15. CASE StreamTo
  <2>1. wizard.obs \in Obses /\ wizard.server \in Ports /\ wizard.key \in Servers \cup {"own"}
    BY <1>15, WizardIs DEF StreamTo
  <2> DEFINE x == [server |-> wizard.server, key |-> wizard.key, by |-> "us"]
  <2>2. x \in Streams(wizard.obs) BY <2>1 DEF Streams
  <2>3. obs' = [obs EXCEPT ![wizard.obs] = x] BY <1>15 DEF StreamTo
  <2> HIDE DEF x
  <2>4. obs' \in [Obses -> AnyStream] /\ \A o \in Obses : obs'[o] \in Streams(o)
    BY <2>1, <2>2, <2>3 DEF Types, AnyStream
  <2> QED BY <1>15, <2>4, IdleIs DEF StreamTo, Types, RelayHome
<1>16. CASE Restore
  <2> DEFINE x == Get(kept, "backup").value
  <2>1. config.obs \in Obses BY DEF Types, Confs
  <2>2. x \in Streams(config.obs)
    <3>1. Get(kept, "backup") \in Copies(kept, "backup") BY SomeNames, GetIsKept DEF Types
    <3> QED BY <1>16, <3>1 DEF Restore, Homes, BackupHome
  <2>3. obs' = [obs EXCEPT ![config.obs] = x] BY <1>16 DEF Restore
  <2> HIDE DEF x
  <2>4. obs' \in [Obses -> AnyStream] /\ \A o \in Obses : obs'[o] \in Streams(o)
    BY <2>1, <2>2, <2>3 DEF Types, AnyStream
  <2>5. IsWizard(wizard') /\ wizard'.step = "restored" BY <1>16 DEF Restore, IsWizard
  <2> QED BY <1>16, <2>4, <2>5 DEF Restore, Types, RelayHome
<1>17. CASE Restored
  <2>1. PICK o, w, after : Taken(o, w, Keep, after) BY <1>17, RestoredTakes
  <2> QED BY <1>1, <1>17, <2>1, IdleIs DEF Restored, Types
<1>18. CASE EditObs
  <2>1. PICK o \in Obses, server \in Servers : obs' = [obs EXCEPT ![o] = Own(o, server)]
    BY <1>18 DEF EditObs
  <2>2. Own(o, server) \in Streams(o) BY Constants DEF Own, Streams
  <2>3. obs' \in [Obses -> AnyStream] /\ \A q \in Obses : obs'[q] \in Streams(q)
    BY <2>1, <2>2 DEF Types, AnyStream
  <2> QED BY <1>18, <2>3 DEF EditObs, Types, RelayHome
<1>19. CASE UNCHANGED vars BY <1>19 DEF vars, Types, RelayHome
<1> QED
  BY <1>3, <1>4, <1>5, <1>6, <1>7, <1>8, <1>9, <1>10, <1>11, <1>12, <1>13, <1>14, <1>15, <1>16, <1>17,
     <1>18, <1>19 DEF Next

THEOREM HomeAlways == Spec => []HomeInv
<1>1. Init => HomeInv BY InitHome
<1>2. HomeInv /\ [Next]_vars => HomeInv' BY HomeStep
<1> QED BY <1>1, <1>2, PTL DEF Spec

(* A secret never reaches another than the one it is for: the relay is     *)
(* given a stream key only for the destination it is given                 *)
(* (dest_key::for_url), and the wizard asks an OBS with no password but    *)
(* its own (obs_routes.rs).                                                *)
THEOREM SecretsStayHomeAlways == Spec => []SecretsStayHome
<1>1. HomeInv => SecretsStayHome
  <2>1. HomeInv => relay.key \in {"none", relay.url} BY DEF HomeInv, RelayHome
  <2>2. HomeInv => (wizard.step \in {"connect", "configure"} => wizard.password \in {"none", wizard.obs})
    BY WizardIs DEF HomeInv
  <2> QED BY <2>1, <2>2 DEF SecretsStayHome
<1> QED BY <1>1, HomeAlways, PTL

-----------------------------------------------------------------------------
(* A change that is refused has changed nothing, whichever of its writes   *)
(* failed and whatever had to be put back (change_settings_locked,         *)
(* Secrets::set).                                                          *)
Refused ==
  ended' = "error" => Kept(kept') = Kept(kept) /\ kept'.conf = kept.conf
                        /\ config' = config /\ relay' = relay

LEMMA RefusedStep == HomeInv /\ [Next]_vars => [Refused]_vars
<1> SUFFICES ASSUME HomeInv, Next, ended' = "error"
             PROVE  Kept(kept') = Kept(kept) /\ kept'.conf = kept.conf /\ config' = config /\ relay' = relay
  BY DEF Refused
<1>1. CASE Start \/ End \/ Connect \/ GiveUp \/ Configure \/ Restore \/ EditObs
  BY <1>1 DEF Start, End, Connect, GiveUp, Configure, Restore, EditObs
<1>2. CASE AlreadySetUp \/ Redirect \/ StreamTo
  BY <1>2 DEF AlreadySetUp, Redirect, StreamTo
<1>3. CASE UpdateConfig BY <1>3, UpdateConfigTakes, TakenRefused DEF PlainChange
<1>4. CASE SetKey BY <1>4, SetKeyTakes, TakenRefused DEF PlainChange
<1>5. CASE DeleteKey BY <1>5, DeleteKeyTakes, TakenRefused DEF PlainChange
<1>6. CASE Connected BY <1>6, ConnectedTakes, TakenRefused DEF PlainChange
<1>7. CASE BackUp BY <1>7, BackUpTakes, TakenRefused DEF BackUpChange, BackedUp
<1>8. CASE Restored BY <1>8, RestoredTakes, TakenRefused
<1> QED BY <1>1, <1>2, <1>3, <1>4, <1>5, <1>6, <1>7, <1>8 DEF Next

THEOREM RefusedChangesNothingAlways == Spec => RefusedChangesNothing
<1>1. HomeInv /\ [Next]_vars => [Refused]_vars BY RefusedStep
<1>2. Spec => [][Refused]_vars BY <1>1, HomeAlways, PTL DEF Spec
<1> QED BY <1>2 DEF RefusedChangesNothing, Refused

-----------------------------------------------------------------------------
(* What an OBS streamed to before us is kept *)

LEMMA InitOwn == Init => OwnInv
BY DEF Init, OwnInv, OneBackup, MineBackedUp, BackupIsOwn, ConfigureKnows, StreamKnows, RestoredIsOwn, Idle

(* Nothing of it is touched, or the wizard is given up. *)
LEMMA OwnStays ==
  ASSUME HomeInv, OwnInv, config'.backup = config.backup, kept'.conf.backup = kept.conf.backup,
         Get(kept', "backup") = Get(kept, "backup"), wizard' \in {wizard, Idle}, UNCHANGED <<obs, mine>>
  PROVE  OwnInv'
BY IdleIs DEF OwnInv, OneBackup, MineBackedUp, BackupIsOwn, ConfigureKnows, StreamKnows, RestoredIsOwn, BackupOf

(* The backup that is named after a change. *)
LEMMA TakenNames ==
  ASSUME HomeInv, OneBackup, NEW o, NEW w, NEW key, NEW after, Taken(o, w, key, after)
  PROVE  /\ kept' = o.s /\ o.is \in Ending
         /\ WithChanges(kept.conf, config, after).backup = after.backup
         /\ kept'.conf.backup \in {kept.conf.backup, after.backup}
         /\ o.is = "ok" => kept'.conf.backup = after.backup
         /\ o.is \in {"error", "half"} => kept'.conf = kept.conf
         /\ config'.backup = kept'.conf.backup
<1>1. kept' = o.s /\ o.is \in Ending BY DEF Taken, Takes, Outcomes
<1>2. kept.conf \in Confs /\ config \in Confs /\ after \in Confs BY DEF HomeInv, Types, Stores, Taken
<1>3. WithChanges(kept.conf, config, after).backup = after.backup BY <1>2, ConfsChanged DEF OneBackup
<1>4. /\ o.s.conf \in {kept.conf, WithChanges(kept.conf, config, after)}
      /\ o.is = "ok" => o.s.conf = WithChanges(kept.conf, config, after)
      /\ o.is \in {"error", "half"} => o.s.conf = kept.conf
  BY DEF Taken, ChangesTo
<1>5. config' = CASE o.is = "ok" -> after
                  [] o.is = "crash" -> o.s.conf
                  [] OTHER -> config
  BY DEF Taken, Takes
<1>6. config'.backup = o.s.conf.backup
  <2>1. CASE o.is = "ok" BY <1>3, <1>4, <1>5, <2>1
  <2>2. CASE o.is = "crash" BY <1>5, <2>2
  <2>3. CASE o.is \in {"error", "half"} BY <1>4, <1>5, <2>3 DEF OneBackup
  <2> QED BY <1>1, <2>1, <2>2, <2>3 DEF Ending
<1> QED BY <1>1, <1>3, <1>4, <1>6

LEMMA PlainOwn ==
  ASSUME HomeInv, OwnInv, PlainChange
  PROVE  OwnInv'
<1>1. PICK o, w, key, after : Taken(o, w, key, after) /\ w["backup"] = {} /\ after.backup = config.backup
  BY DEF PlainChange
<1>2. OneBackup BY DEF OwnInv
<1>3. /\ kept' = o.s /\ kept'.conf.backup \in {kept.conf.backup, after.backup}
      /\ config'.backup = kept'.conf.backup
  BY <1>1, <1>2, TakenNames
<1>4. Get(o.s, "backup") = Get(kept, "backup")
  <2>1. Get(o.s, "backup") \in {Get(kept, "backup")} \cup w["backup"]
    BY <1>1, SomeNames DEF Taken, ChangesTo, Alters
  <2> QED BY <1>1, <2>1
<1> QED BY <1>1, <1>2, <1>3, <1>4, OwnStays DEF PlainChange, OneBackup

(* The settings an OBS has of its own are backed up before it streams to   *)
(* us, and what it has of us is never backed up over them.                 *)
LEMMA BackUpOwn ==
  ASSUME HomeInv, OwnInv, BackUp
  PROVE  OwnInv'
<1> DEFINE u == wizard
           x == Bound(u.obs, u.found)
<1>1. PICK o, w, key, after : BackedUp(o, w, key, after) BY BackUpTakes DEF BackUpChange
<1>2. Taken(o, w, key, after) /\ after.backup = u.obs /\ w["backup"] = {x} BY <1>1 DEF BackedUp
<1>3. /\ kept' = o.s /\ o.is \in Ending
      /\ kept'.conf.backup \in {kept.conf.backup, u.obs}
      /\ o.is = "ok" => kept'.conf.backup = u.obs
      /\ o.is \in {"error", "half"} => kept'.conf = kept.conf
      /\ config'.backup = kept'.conf.backup
  BY <1>2, TakenNames DEF OwnInv
<1>4. /\ u.step = "configure" /\ ~SetUpBefore(u) /\ u.obs \in Obses /\ u.found \in Streams(u.obs)
      /\ obs' = obs
  BY WizardIs DEF BackUp, HomeInv
(* What was found at an OBS we have the settings of is its own. *)
<1>5. u.obs = mine => u.found.by = mine
  <2> SUFFICES ASSUME u.obs = mine, u.found.by = "us" PROVE FALSE BY <1>4 DEF Streams
  <2>1. kept.conf.backup = mine /\ u.config.backup = config.backup /\ config.backup = kept.conf.backup
    BY <1>4 DEF OwnInv, ConfigureKnows, OneBackup, BackupOf
  <2>2. IsUs(u.found.server) BY <1>4 DEF Streams, IsUs, Ports
  <2> QED BY <1>4, <2>1, <2>2 DEF SetUpBefore
<1>6. Get(kept', "backup") \in {Get(kept, "backup"), x}
  <2>1. Get(o.s, "backup") \in {Get(kept, "backup")} \cup w["backup"]
    BY <1>2, SomeNames DEF Taken, ChangesTo, Alters
  <2> QED BY <1>2, <1>3, <2>1
<1>7. o.is = "ok" \/ kept'.conf # kept.conf => Get(kept', "backup") = x BY <1>1, <1>3 DEF BackedUp
<1>8. mine' = CASE o.is = "ok" -> IF u.found.by = u.obs \/ u.obs = mine THEN u.obs ELSE "none"
               [] o.is \in {"crash", "half"} /\ u.obs # mine -> "none"
               [] OTHER -> mine
  BY <1>1 DEF BackedUp
<1>9. x # Nothing /\ x.owner = u.obs /\ x.value = u.found BY BoundIs
<1>10. o.is = "error" => Kept(kept') = Kept(kept) BY <1>2, <1>3 DEF Taken, ChangesTo
<1>11. o.is = "error" => Get(kept', "backup") = Get(kept, "backup") BY <1>10, SomeNames DEF Kept
<1> HIDE DEF x
(* With the change, or without one, the backup is of the OBS set up last.  *)
<1>12. mine' # "none" =>
         \/ mine' = u.obs /\ u.found.by = u.obs
         \/ mine' = mine /\ u.obs # mine /\ o.is = "error"
  <2>1. CASE o.is = "ok" BY <1>5, <1>8, <2>1
  <2>2. CASE o.is \in {"crash", "half"} BY <1>5, <1>8, <2>2
  <2>3. CASE o.is = "error" BY <1>5, <1>8, <2>3
  <2> QED BY <1>3, <2>1, <2>2, <2>3 DEF Ending
<1>13. OneBackup' BY <1>3 DEF OneBackup
<1>14. BackupIsOwn'
  <2> SUFFICES ASSUME mine' # "none", kept'.conf.backup = mine'
               PROVE  LET b == Get(kept', "backup")
                      IN b # Nothing /\ b.owner = mine' /\ b.value.by = mine'
    BY DEF BackupIsOwn, BackupOf
  <2>1. CASE mine' = u.obs /\ u.found.by = u.obs /\ Get(kept', "backup") = x BY <1>9, <2>1
  <2>2. CASE mine' = u.obs /\ u.found.by = u.obs /\ Get(kept', "backup") # x
    <3>1. o.is # "ok" /\ kept'.conf = kept.conf /\ Get(kept', "backup") = Get(kept, "backup")
      BY <1>6, <1>7, <2>2
    <3>2. mine' = mine BY <1>3, <1>4, <1>8, <2>2, <3>1, Constants DEF Ending
    <3> QED BY <3>1, <3>2 DEF OwnInv, BackupIsOwn, BackupOf
  <2>3. CASE mine' = mine /\ u.obs # mine /\ o.is = "error"
    <3>1. kept'.conf = kept.conf BY <1>3, <2>3
    <3> QED BY <1>11, <2>3, <3>1 DEF OwnInv, BackupIsOwn, BackupOf
  <2> QED BY <1>12, <2>1, <2>2, <2>3
<1>15. MineBackedUp'
  <2> SUFFICES ASSUME mine' # "none", obs[mine'].by = "us" PROVE kept'.conf.backup = mine'
    BY <1>4 DEF MineBackedUp, BackupOf
  <2>1. CASE mine' = mine
    <3>1. kept.conf.backup = mine BY <2>1 DEF OwnInv, MineBackedUp, BackupOf
    <3>2. CASE mine = u.obs BY <1>3, <2>1, <3>1, <3>2
    <3>3. CASE mine # u.obs
      <4>1. o.is = "error" BY <1>12, <2>1, <3>3
      <4> QED BY <1>3, <2>1, <3>1, <4>1
    <3> QED BY <3>2, <3>3
  <2>2. CASE mine' # mine
    <3>1. o.is = "ok" /\ mine' = u.obs BY <1>3, <1>8, <2>2 DEF Ending
    <3> QED BY <1>3, <3>1
  <2> QED BY <2>1, <2>2
<1>16. wizard' = Idle \/ (o.is = "ok" /\ wizard'.step = "stream" /\ wizard'.obs = u.obs)
  BY <1>1 DEF BackedUp
<1>17. ConfigureKnows' /\ RestoredIsOwn' BY <1>16, IdleIs DEF ConfigureKnows, RestoredIsOwn
<1>18. StreamKnows' BY <1>3, <1>16, IdleIs DEF StreamKnows, BackupOf
<1> QED BY <1>13, <1>14, <1>15, <1>17, <1>18 DEF OwnInv

LEMMA RestoredOwn ==
  ASSUME HomeInv, OwnInv, Restored
  PROVE  OwnInv'
<1>1. PICK o, w, after : /\ Taken(o, w, Keep, after) /\ after = [config EXCEPT !.backup = "none"]
                         /\ Get(o.s, "backup") # Get(kept, "backup") =>
                              o.s.conf = WithChanges(kept.conf, config, after)
  BY RestoredTakes
<1>2. config \in Confs BY DEF HomeInv, Types
<1>3. after.backup = "none" BY <1>1, <1>2 DEF Confs
<1>4. OneBackup BY DEF OwnInv
<1>5. /\ kept' = o.s /\ kept'.conf.backup \in {kept.conf.backup, "none"}
      /\ WithChanges(kept.conf, config, after).backup = "none"
      /\ config'.backup = kept'.conf.backup
  <2>1. Taken(o, w, Keep, after) BY <1>1
  <2> QED BY ONLY HomeInv, <1>3, <1>4, <2>1, TakenNames
<1>6. kept'.conf.backup # "none" => Get(kept', "backup") = Get(kept, "backup") BY <1>1, <1>5
<1>7. wizard.step = "restored" /\ wizard' = Idle /\ UNCHANGED <<obs, mine>> BY DEF Restored
<1>8. mine # "none" => obs[mine].by # "us" BY <1>7 DEF OwnInv, RestoredIsOwn
<1>9. OneBackup' BY <1>5 DEF OneBackup
<1>10. MineBackedUp' BY <1>7, <1>8 DEF MineBackedUp
<1>11. BackupIsOwn' BY <1>5, <1>6, <1>7 DEF OwnInv, BackupIsOwn, BackupOf
<1>12. ConfigureKnows' /\ StreamKnows' /\ RestoredIsOwn'
  BY <1>7, IdleIs DEF ConfigureKnows, StreamKnows, RestoredIsOwn
<1> QED BY <1>9, <1>10, <1>11, <1>12 DEF OwnInv

LEMMA OwnStep == HomeInv /\ OwnInv /\ [Next]_vars => OwnInv'
<1> SUFFICES ASSUME HomeInv, OwnInv, [Next]_vars PROVE OwnInv' OBVIOUS
<1>1. CASE Start
  <2>1. /\ kept'.conf = kept.conf /\ config'.backup = kept.conf.backup
        /\ Get(kept', "backup") = Get(kept, "backup")
    BY <1>1, StartTakes
  <2> QED BY <1>1, <2>1, OwnStays DEF Start, OwnInv, OneBackup
<1>2. CASE End BY <1>2, OwnStays DEF End, OwnInv, OneBackup
<1>3. CASE UpdateConfig BY <1>3, UpdateConfigTakes, PlainOwn
<1>4. CASE SetKey BY <1>4, SetKeyTakes, PlainOwn
<1>5. CASE DeleteKey BY <1>5, DeleteKeyTakes, PlainOwn
<1>6. CASE Connect
  BY <1>6 DEF Connect, Looks, OwnInv, OneBackup, MineBackedUp, BackupIsOwn, ConfigureKnows,
              StreamKnows, RestoredIsOwn, BackupOf
<1>7. CASE Connected BY <1>7, ConnectedTakes, PlainOwn
<1>8. CASE GiveUp BY <1>8, OwnStays DEF GiveUp
<1>9. CASE Configure
  <2>1. /\ wizard'.step = "configure" /\ wizard'.obs = config.obs /\ wizard'.config = config
        /\ wizard'.found = obs[config.obs] /\ UNCHANGED <<kept, config, obs, mine>>
    BY <1>9 DEF Configure, Looks
  <2>2. config.obs # "none" BY Constants DEF HomeInv, Types, Confs
  <2>3. ConfigureKnows' BY <2>1, <2>2 DEF OwnInv, MineBackedUp, ConfigureKnows, BackupOf
  <2>4. OneBackup' /\ MineBackedUp' /\ BackupIsOwn' /\ StreamKnows' /\ RestoredIsOwn'
    BY <2>1 DEF OwnInv, OneBackup, MineBackedUp, BackupIsOwn, StreamKnows, RestoredIsOwn, BackupOf
  <2> QED BY <2>3, <2>4 DEF OwnInv
<1>10. CASE AlreadySetUp BY <1>10, OwnStays DEF AlreadySetUp
<1>11. CASE Redirect
  <2>1. wizard.step = "configure" /\ wizard.obs \in Obses /\ wizard.found \in Streams(wizard.obs)
    BY <1>11, WizardIs DEF Redirect, HomeInv
  <2>2. wizard.obs = mine => BackupOf(mine)
    <3> SUFFICES ASSUME wizard.obs = mine PROVE BackupOf(mine) OBVIOUS
    <3>1. CASE wizard.found.by = "us" BY <2>1, <3>1 DEF OwnInv, ConfigureKnows
    <3>2. CASE wizard.found.by # "us"
      <4>1. wizard.found.key # "own" BY <2>1, <3>2, Constants DEF Streams
      <4>2. wizard.config.backup = wizard.obs BY <1>11, <4>1 DEF Redirect, SetUpBefore
      <4> QED BY <2>1, <4>2 DEF OwnInv, ConfigureKnows, OneBackup, BackupOf
    <3> QED BY <3>1, <3>2
  <2>3. wizard' = Idle \/ (wizard'.step = "stream" /\ wizard'.obs = wizard.obs) BY <1>11 DEF Redirect
  <2>4. UNCHANGED <<kept, config, obs, mine>> BY <1>11 DEF Redirect
  <2>5. OneBackup' /\ MineBackedUp' /\ BackupIsOwn'
    BY <2>4 DEF OwnInv, OneBackup, MineBackedUp, BackupIsOwn, BackupOf
  <2>6. ConfigureKnows' /\ RestoredIsOwn' BY <2>3, IdleIs DEF ConfigureKnows, RestoredIsOwn
  <2>7. StreamKnows' BY <2>2, <2>3, <2>4, IdleIs DEF StreamKnows, BackupOf
  <2> QED BY <2>5, <2>6, <2>7 DEF OwnInv
<1>12. CASE BackUp BY <1>12, BackUpOwn
<1>13. CASE StreamTo
  <2>1. wizard.step = "stream" /\ wizard' = Idle /\ UNCHANGED <<kept, config, mine>> BY <1>13 DEF StreamTo
  <2>2. \A o \in Obses \ {wizard.obs} : obs'[o] = obs[o] BY <1>13 DEF StreamTo, HomeInv, Types
  <2>3. MineBackedUp'
    <3> SUFFICES ASSUME mine # "none", obs'[mine].by = "us" PROVE BackupOf(mine)
      BY <2>1 DEF MineBackedUp, BackupOf
    <3>1. CASE wizard.obs = mine BY <2>1, <3>1 DEF OwnInv, StreamKnows
    <3>2. CASE wizard.obs # mine
      <4>1. obs'[mine] = obs[mine] BY <2>2, <3>2 DEF HomeInv, Types
      <4> QED BY <4>1 DEF OwnInv, MineBackedUp
    <3> QED BY <3>1, <3>2
  <2>4. OneBackup' /\ BackupIsOwn' BY <2>1 DEF OwnInv, OneBackup, BackupIsOwn, BackupOf
  <2>5. ConfigureKnows' /\ StreamKnows' /\ RestoredIsOwn'
    BY <2>1, IdleIs DEF ConfigureKnows, StreamKnows, RestoredIsOwn
  <2> QED BY <2>3, <2>4, <2>5 DEF OwnInv
<1>14. CASE Restore
  <2>1. /\ config.backup = config.obs /\ wizard'.step = "restored"
        /\ obs' = [obs EXCEPT ![config.obs] = Get(kept, "backup").value]
        /\ UNCHANGED <<kept, config, mine>>
    BY <1>14 DEF Restore
  <2>2. config.obs \in Obses BY DEF HomeInv, Types, Confs
  <2>3. mine # "none" => obs'[mine].by # "us"
    <3> SUFFICES ASSUME mine # "none" PROVE obs'[mine].by # "us" OBVIOUS
    <3>1. mine \in Obses /\ mine # "us" BY Constants DEF HomeInv, Types
    <3>2. CASE mine = config.obs
      <4>1. BackupOf(mine) BY <2>1, <3>2 DEF OwnInv, OneBackup, BackupOf
      <4>2. Get(kept, "backup").value.by = mine BY <4>1 DEF OwnInv, BackupIsOwn
      <4>3. obs'[mine] = Get(kept, "backup").value BY <2>1, <2>2, <3>2 DEF HomeInv, Types
      <4> QED BY <3>1, <4>2, <4>3
    <3>3. CASE mine # config.obs
      <4>1. ~BackupOf(mine) BY <2>1, <3>3 DEF OwnInv, OneBackup, BackupOf
      <4>2. obs'[mine] = obs[mine] BY <2>1, <3>1, <3>3 DEF HomeInv, Types
      <4> QED BY <4>1, <4>2 DEF OwnInv, MineBackedUp
    <3> QED BY <3>2, <3>3
  <2>4. OneBackup' /\ BackupIsOwn' BY <2>1 DEF OwnInv, OneBackup, BackupIsOwn, BackupOf
  <2>5. MineBackedUp' /\ RestoredIsOwn' BY <2>1, <2>3 DEF MineBackedUp, RestoredIsOwn
  <2>6. ConfigureKnows' /\ StreamKnows' BY <2>1 DEF ConfigureKnows, StreamKnows
  <2> QED BY <2>4, <2>5, <2>6 DEF OwnInv
<1>15. CASE Restored BY <1>15, RestoredOwn
<1>16. CASE EditObs
  <2>1. PICK o \in Obses, server \in Servers : obs' = [obs EXCEPT ![o] = Own(o, server)]
    BY <1>16 DEF EditObs
  <2>2. UNCHANGED <<kept, config, wizard, mine>> BY <1>16 DEF EditObs
  <2>3. \A q \in Obses : obs'[q] = obs[q] \/ obs'[q].by # "us"
    <3>1. Own(o, server).by # "us" BY Constants DEF Own
    <3> QED BY <2>1, <3>1 DEF HomeInv, Types
  <2>4. mine # "none" => mine \in Obses BY DEF HomeInv, Types
  <2>5. MineBackedUp' /\ RestoredIsOwn'
    BY <2>2, <2>3, <2>4 DEF OwnInv, MineBackedUp, RestoredIsOwn, BackupOf
  <2>6. OneBackup' /\ BackupIsOwn' /\ ConfigureKnows' /\ StreamKnows'
    BY <2>2 DEF OwnInv, OneBackup, BackupIsOwn, ConfigureKnows, StreamKnows, BackupOf
  <2> QED BY <2>5, <2>6 DEF OwnInv
<1>17. CASE UNCHANGED vars
  BY <1>17 DEF vars, OwnInv, OneBackup, MineBackedUp, BackupIsOwn, ConfigureKnows, StreamKnows,
               RestoredIsOwn, BackupOf
<1> QED
  BY <1>1, <1>2, <1>3, <1>4, <1>5, <1>6, <1>7, <1>8, <1>9, <1>10, <1>11, <1>12, <1>13, <1>14, <1>15,
     <1>16, <1>17 DEF Next

(* As long as an OBS streams to us because it was set up to, its own       *)
(* settings can be put back (configure, restore, set_up_before).           *)
THEOREM OwnSettingsKeptAlways == Spec => []OwnSettingsKept
<1>1. Init => OwnInv BY InitOwn
<1>2. HomeInv /\ OwnInv /\ [Next]_vars => OwnInv' BY OwnStep
<1>3. OwnInv => OwnSettingsKept
  BY DEF OwnInv, MineBackedUp, BackupIsOwn, BackupOf, OwnSettingsKept
<1> QED BY <1>1, <1>2, <1>3, HomeAlways, PTL DEF Spec
=============================================================================
