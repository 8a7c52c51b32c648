------------------------------ MODULE Secrets -------------------------------
(***************************************************************************)
(* Where stream-delay keeps what it saves: the secrets, in the system's    *)
(* keychain or, when that refuses, in a private file (config/secrets.rs),  *)
(* and the settings file.  Every access to one of them may fail, and the   *)
(* program may end after any write.                                        *)
(*                                                                         *)
(* An operation is the set of its outcomes: what is kept afterwards, how   *)
(* it ended, and how many accesses failed on the way.  "half" is an error  *)
(* that left something changed which could not be put back.                *)
(***************************************************************************)
EXTENDS Naturals

CONSTANT Names  \* of the secrets

Nothing == [owner |-> "nobody"]

Ends(s, is, bad) == {[s |-> s, is |-> is, bad |-> bad]}
Done(s) == Ends(s, "ok", 0)
Fails(s) == Ends(s, "error", 0)
Half(s) == Ends(s, "half", 0)

(* A write takes place whole or not at all (replace_private). *)
Write(before, after) ==
  Ends(after, "ok", 0) \cup Ends(before, "error", 1) \cup Ends(after, "crash", 0)

After(bad, outcomes) == {[o EXCEPT !.bad = @ + bad] : o \in outcomes}

(* What comes after, if it went well and if it did not.  After a crash     *)
(* nothing does.                                                           *)
Then(outcomes, Next(_), Otherwise(_)) ==
  UNION {CASE o.is = "ok" -> After(o.bad, Next(o.s))
           [] o.is \in {"error", "half"} -> After(o.bad, Otherwise(o))
           [] OTHER -> {o} : o \in outcomes}
As(o) == {[o EXCEPT !.bad = 0]}

-----------------------------------------------------------------------------
(* The two places.  [keychain, file] are functions of the names, there may *)
(* be no keychain, and "conf" is the settings file.                        *)
KeychainPut(s, n, v) ==
  IF s.hasKeychain THEN Write(s, [s EXCEPT !.keychain[n] = v]) ELSE Fails(s)
KeychainDelete(s, n) ==
  IF s.hasKeychain THEN Write(s, [s EXCEPT !.keychain[n] = Nothing]) ELSE Done(s)
FilePut(s, n, v) == Write(s, [s EXCEPT !.file[n] = v])
FileRead(s) == Done(s) \cup Ends(s, "error", 1)
Save(s, conf) == Write(s, [s EXCEPT !.conf = conf])

Get(s, n) == IF s.file[n] # Nothing THEN s.file[n] ELSE s.keychain[n]
Kept(s) == [n \in Names |-> Get(s, n)]

(* Undone, the operation has failed and changed nothing. *)
Undone(outcomes) == Then(outcomes, Fails, LAMBDA o : Half(o.s))

(* A copy left in the file would take precedence over the keychain's. *)
OutOfFile(old, s, n) ==
  IF s.file[n] = Nothing THEN Done(s)
  ELSE Then(FilePut(s, n, Nothing), Done, LAMBDA o : Undone(KeychainPut(s, n, old)))

(* An older copy left in the keychain would come back if the file were     *)
(* lost.                                                                   *)
IntoFile(s, n, v) ==
  Then(FilePut(s, n, v),
       LAMBDA w : IF w.keychain[n] = Nothing THEN Done(w)
                  ELSE Then(KeychainDelete(w, n), Done,
                            LAMBDA o : Undone(FilePut(w, n, s.file[n]))),
       As)

Set(s, n, v) ==
  Then(FileRead(s),
       LAMBDA r : Then(KeychainPut(r, n, v),
                       LAMBDA k : OutOfFile(r.keychain[n], k, n),
                       LAMBDA o : IntoFile(r, n, v)),
       As)

(* The keychain's copy is gone already when the file fails. *)
Delete(s, n) ==
  Then(KeychainDelete(s, n),
       LAMBDA k : Then(FileRead(k),
                       LAMBDA r : IF r.file[n] = Nothing THEN Done(r) ELSE FilePut(r, n, Nothing),
                       LAMBDA o : IF k.keychain = s.keychain THEN As(o) ELSE Half(o.s)),
       As)

PutBack(s, n, v) == IF v = Nothing THEN Delete(s, n) ELSE Set(s, n, v)
=============================================================================
