------------------------------ MODULE Settings ------------------------------
(***************************************************************************)
(* Changes of the settings (control/changes.rs, settings.rs), the stream   *)
(* key and where it may go (dest_key.rs), and the wizard that points an    *)
(* OBS at stream-delay and back (obs_routes.rs), with accesses that fail,  *)
(* the program ending and starting again, and users who change what they   *)
(* like in between.                                                        *)
(*                                                                         *)
(* A stream key is named by the server it is for, "none" is no server, and *)
(* a URL by its server, as all that matters here is whether two differ.    *)
(***************************************************************************)
EXTENDS Secrets

CONSTANTS
  Servers, Twitch,   \* Twitch is the one keys are imported for
  Obses, LocalObs,   \* OBS programs, by address; one is where it is looked for first
  Runs,              \* command lines: [url, given, port], "none" or a destination
  Acts,              \* what users do
  MaxActs, MaxBad, MaxStarts

(* The words that stand for no server, no OBS or another key name none.    *)
ASSUME Constants ==
  /\ Names = {"key", "password", "backup"}
  /\ LocalObs \in Obses /\ Obses \cap {"none", "us"} = {}
  /\ Twitch \in Servers /\ Servers \cap {"none", "unknown", "own"} = {}
  /\ \A r \in Runs : r.url \in Servers \cup {"none"} /\ r.given \in BOOLEAN /\ r.port \notin Servers

VARIABLES
  kept,    \* the secret store and the settings file
  config,  \* the settings in effect
  run,     \* the command line, and whether the program is up
  relay,   \* the destination the relay was given
  obs,     \* what each OBS streams to, and who set it up: the OBS's user or "us"
  wizard,  \* the wizard's step under way
  mine,    \* the OBS set up last, if what it then had was its own
  ended,   \* how the last change ended
  count

vars == <<kept, config, run, relay, obs, wizard, mine, ended, count>>

Idle == [step |-> "idle"]
NoDestination == [url |-> "none", key |-> "none"]

Different(old, new) == new # "none" /\ old # new

Bound(owner, value) == [owner |-> owner, value |-> value]

(* A secret goes to whom it was saved for.  One saved by an older version, *)
(* on its own, belongs to the destination in the settings file.            *)
KeyForAny(s, url) == IF Get(s, "key") # Nothing THEN Get(s, "key").value ELSE "none"
KeyFor(s, url) ==
  LET k == Get(s, "key")
      owner == IF k.owner = "unknown" THEN s.conf.url ELSE k.owner
  IN IF k # Nothing /\ ~Different(owner, url) THEN k.value ELSE "none"

(* A key given on the command line is for the destination it started with. *)
Override(r, url) == r.given /\ ~Different(r.first, url)
Destination(s, c, r) ==
  [url |-> c.url,
   key |-> IF c.url = "none" \/ c.mode = "passthrough" THEN "none"
           ELSE IF Override(r, c.url) THEN r.first
           ELSE KeyFor(s, c.url)]

PasswordFor(s, o) ==
  LET p == Get(s, "password") IN IF p # Nothing /\ p.owner = o THEN p.value ELSE "none"

-----------------------------------------------------------------------------
(* Starting *)

InEffect(conf, r) == IF r.url = "none" THEN conf ELSE [conf EXCEPT !.url = r.url]

(* A plain key is tied to the destination it was used for; should that     *)
(* fail, it stays as it is.                                                *)
Bind(s) ==
  LET k == Get(s, "key") IN
  IF k # Nothing /\ k.owner = "unknown"
  THEN Then(Set(s, "key", Bound(s.conf.url, k.value)), Done, LAMBDA o : Done(o.s))
  ELSE Done(s)

Fresh == [url |-> Twitch, mode |-> "stored", obs |-> LocalObs, backup |-> "none"]
Own(o, server) == [server |-> server, key |-> server, by |-> o]

Init ==
  /\ \E k \in BOOLEAN, old \in BOOLEAN :
       kept = [hasKeychain |-> k, conf |-> Fresh,
               keychain |-> [n \in Names |-> Nothing],
               file |-> [n \in Names |-> IF n = "key" /\ old THEN Bound("unknown", Twitch)
                                                             ELSE Nothing]]
  /\ config = Fresh
  /\ run = [up |-> FALSE, url |-> "none", given |-> FALSE, port |-> "none", first |-> "none"]
  /\ relay = NoDestination
  /\ obs = [o \in Obses |-> Own(o, Twitch)]
  /\ wizard = Idle /\ mine = "none" /\ ended = "none"
  /\ count = [acts |-> 0, bad |-> 0, starts |-> 0]

Spend(bad) == count.bad + bad <= MaxBad

Start ==
  /\ ~run.up /\ count.starts < MaxStarts
  /\ \E r \in Runs, o \in Bind(kept) :
       LET started == [up |-> o.is # "crash", url |-> r.url, given |-> r.given, port |-> r.port,
                       first |-> InEffect(kept.conf, r).url]
       IN /\ Spend(o.bad)
          /\ kept' = o.s
          /\ config' = InEffect(kept.conf, r)
          /\ run' = started
          /\ relay' = IF started.up THEN Destination(o.s, config', started) ELSE NoDestination
          /\ count' = [count EXCEPT !.starts = @ + 1, !.bad = @ + o.bad]
  /\ ended' = "none"
  /\ UNCHANGED <<obs, wizard, mine>>

(* The program ends, in the middle of whatever it was at. *)
Down == [run EXCEPT !.up = FALSE]
End ==
  /\ run.up /\ count.starts < MaxStarts
  /\ run' = Down /\ wizard' = Idle /\ ended' = "none"
  /\ relay' = NoDestination /\ config' = kept.conf
  /\ UNCHANGED <<kept, obs, mine, count>>

-----------------------------------------------------------------------------
(* A change: the key, then the settings, and the key put back if those     *)
(* cannot be saved.                                                        *)

Keep == [do |-> "keep"]
Forget == [do |-> "forget"]
SaveKey(server, key) == [do |-> "save", server |-> server, key |-> key]

KeyStep(s, k) ==
  CASE k.do = "keep" -> Done(s)
    [] k.do = "forget" -> Delete(s, "key")
    [] OTHER -> Set(s, "key", Bound(k.server, k.key))

(* Only what the change changed is saved: what the command line says stays *)
(* out of the file.                                                        *)
WithChanges(saved, before, after) ==
  [f \in DOMAIN saved |-> IF before[f] # after[f] THEN after[f] ELSE saved[f]]

KeyLeft(k, s, key) == Fails(k)
KeyPutBack(k, s, key) ==
  IF key.do = "keep" THEN Fails(k) ELSE Undone(PutBack(k, "key", Get(s, "key")))

(* What there was cannot be put back unless it was read before. *)
ReadBefore(s, key) == IF key.do = "keep" THEN Done(s) ELSE FileRead(s)

Changed(s, key, after) ==
  Then(ReadBefore(s, key),
       LAMBDA r : Then(KeyStep(r, key),
         LAMBDA k : Then(Save(k, WithChanges(k.conf, config, after)), Done,
                         LAMBDA o : KeyPutBack(k, s, key)),
         As),
       As)

(* Another secret is changed with them, and put back with them: updated    *)
(* is how changing it in s may end.                                        *)
ChangedWith(s, name, updated, key, after) ==
  Then(FileRead(s),
       LAMBDA r : Then(updated,
         LAMBDA u : Then(Changed(u, key, after), Done,
                         LAMBDA o : IF o.is = "half"
                                    THEN Then(PutBack(o.s, name, Get(s, name)),
                                              Half, LAMBDA p : Half(p.s))
                                    ELSE Undone(PutBack(o.s, name, Get(s, name)))),
         LAMBDA o : Undone(PutBack(o.s, name, Get(s, name)))),
       As)

(* The outcome o of a change to the settings "after". *)
Takes(o, after) ==
  /\ Spend(o.bad)
  /\ kept' = o.s
  /\ ended' = o.is
  /\ config' = CASE o.is = "ok" -> after
                 [] o.is = "crash" -> o.s.conf
                 [] OTHER -> config
  /\ run' = IF o.is = "crash" THEN Down ELSE run
  /\ relay' = CASE o.is = "ok" -> Destination(o.s, after, run)
                [] o.is = "crash" -> NoDestination
                [] OTHER -> relay

Acting(a) == run.up /\ a \in Acts /\ count.acts < MaxActs
Counted(o) == count' = [count EXCEPT !.acts = @ + 1, !.bad = @ + o.bad]

(* After a crash there is no wizard. *)
Stays(o) == wizard' = IF o.is = "crash" THEN Idle ELSE wizard

-----------------------------------------------------------------------------
(* The dashboard *)

(* A key in the URL is saved for that server; another server without one   *)
(* has the key forgotten.  A destination of the command line is refused    *)
(* the only place there is.                                                *)
SavedAfter(url) == IF url = config.url THEN kept.conf.url ELSE url

UpdateConfig ==
  /\ Acting("update")
  /\ \E url \in Servers \cup {"none"}, mode \in {"stored", "passthrough"}, typed \in BOOLEAN :
       LET after == [config EXCEPT !.url = url, !.mode = mode]
           key == IF typed THEN SaveKey(url, url)
                  ELSE IF Different(kept.conf.url, SavedAfter(url)) THEN Forget ELSE Keep
       IN /\ typed => url # "none" /\ ~Different(SavedAfter(url), url)
          /\ after # config \/ typed
          /\ \E o \in Changed(kept, key, after) : Takes(o, after) /\ Counted(o) /\ Stays(o)
  /\ UNCHANGED <<obs, mine>>

(* Entered on its own, a key is for the destination shown. *)
SetKey ==
  /\ Acting("key")
  /\ ~Different(kept.conf.url, config.url)
  /\ \E o \in Set(kept, "key", Bound(kept.conf.url,
                                     IF config.url = "none" THEN kept.conf.url ELSE config.url)) :
       Takes(o, config) /\ Counted(o) /\ Stays(o)
  /\ UNCHANGED <<obs, mine>>

DeleteKey ==
  /\ Acting("key")
  /\ \E o \in Delete(kept, "key") : Takes(o, config) /\ Counted(o) /\ Stays(o)
  /\ UNCHANGED <<obs, mine>>

-----------------------------------------------------------------------------
(* The wizard.  It asks the OBS, and goes on with what the settings were   *)
(* when it began.                                                          *)

Looks(step, o, typed, password) ==
  wizard' = [step |-> step, obs |-> o, typed |-> typed, password |-> password, config |-> config,
             server |-> run.port, found |-> obs[o]]

AskedOf(o) == IF o = config.obs THEN PasswordFor(kept, o) ELSE "none"

Connect ==
  /\ Acting("connect") /\ wizard = Idle
  /\ \E o \in Obses, typed \in BOOLEAN :
       Looks("connect", o, typed, IF typed THEN o ELSE AskedOf(o))
  /\ count' = [count EXCEPT !.acts = @ + 1]
  /\ ended' = "none"
  /\ UNCHANGED <<kept, config, run, relay, obs, mine>>

(* Connected: the OBS is remembered, and its password with it. *)
Connected ==
  /\ run.up /\ wizard.step = "connect"
  /\ LET w == wizard
         after == [config EXCEPT !.obs = w.obs]
         same == w.obs = w.config.obs
         updated == CASE w.typed -> Set(kept, "password", Bound(w.obs, w.password))
                      [] ~w.typed /\ ~same -> Delete(kept, "password")
                      [] OTHER -> Done(kept)
     IN \E o \in ChangedWith(kept, "password", updated, Keep, after) :
          Takes(o, after) /\ count' = [count EXCEPT !.bad = @ + o.bad]
  /\ wizard' = Idle
  /\ UNCHANGED <<obs, mine>>

(* The OBS cannot be reached, or is streaming. *)
GiveUp ==
  /\ run.up /\ wizard # Idle
  /\ count.bad < MaxBad /\ count' = [count EXCEPT !.bad = @ + 1]
  /\ wizard' = Idle /\ ended' = "none"
  /\ UNCHANGED <<kept, config, run, relay, obs, mine>>

Configure ==
  /\ Acting("configure") /\ wizard = Idle 
  /\ Looks("configure", config.obs, FALSE, AskedOf(config.obs))
  /\ count' = [count EXCEPT !.acts = @ + 1]
  /\ ended' = "none"
  /\ UNCHANGED <<kept, config, run, relay, obs, mine>>

IsUs(server) == server \in {r.port : r \in Runs}
SetUp(w) == w.found.server = w.server /\ (w.config.mode = "passthrough" => w.found.key # "own")

(* At an earlier address, with our key, or as the backup says. *)
SetUpByKey(w) == IsUs(w.found.server) /\ w.found.key = "own"
SetUpBefore(w) == IsUs(w.found.server) /\ (w.found.key = "own" \/ w.config.backup = w.obs)

(* With passthrough it keeps its own key, and needs one. *)
CanKeep(w) == w.config.mode = "passthrough" => w.found.key # "own"
KeyForObs(w) == IF w.config.mode = "passthrough" THEN w.found.key ELSE "own"

AlreadySetUp ==
  /\ run.up /\ wizard.step = "configure" /\ SetUp(wizard)
  /\ wizard' = Idle
  /\ UNCHANGED <<kept, config, run, relay, obs, mine, ended, count>>

Redirect ==
  /\ run.up /\ wizard.step = "configure" /\ ~SetUp(wizard) /\ SetUpBefore(wizard)
  /\ wizard' = IF CanKeep(wizard)
               THEN [step |-> "stream", obs |-> wizard.obs, server |-> wizard.server,
                     key |-> KeyForObs(wizard)]
               ELSE Idle
  /\ UNCHANGED <<kept, config, run, relay, obs, mine, ended, count>>

BackUp ==
  /\ run.up /\ wizard.step = "configure" /\ ~SetUp(wizard) /\ ~SetUpBefore(wizard)
  /\ \E import \in BOOLEAN :
       LET w == wizard
           after == IF import
                    THEN [config EXCEPT !.backup = w.obs, !.mode = "stored", !.url = Twitch]
                    ELSE [config EXCEPT !.backup = w.obs]
           updated == Set(kept, "backup", Bound(w.obs, w.found))
       IN /\ import => w.found.server = Twitch /\ ~Different(kept.conf.url, w.config.url)
          /\ import \/ CanKeep(w)
          /\ \E o \in ChangedWith(kept, "backup", updated,
                                  IF import THEN SaveKey(Twitch, w.found.key) ELSE Keep, after) :
               /\ Takes(o, after)
               /\ mine' = CASE o.is = "ok" ->
                             IF w.found.by = w.obs \/ w.obs = mine THEN w.obs ELSE "none"
                           [] o.is \in {"crash", "half"} /\ w.obs # mine -> "none"
                           [] OTHER -> mine
               /\ wizard' = IF o.is = "ok"
                            THEN [step |-> "stream", obs |-> w.obs, server |-> w.server,
                                  key |-> IF import THEN "own" ELSE KeyForObs(w)]
                            ELSE Idle
               /\ count' = [count EXCEPT !.bad = @ + o.bad]
  /\ UNCHANGED obs

StreamTo ==
  /\ run.up /\ wizard.step = "stream"
  /\ obs' = [obs EXCEPT ![wizard.obs] = [server |-> wizard.server, key |-> wizard.key, by |-> "us"]]
  /\ wizard' = Idle
  /\ UNCHANGED <<kept, config, run, relay, mine, ended, count>>

(* The OBS gets its own settings back, from its own backup. *)
Restore ==
  /\ Acting("restore") /\ wizard = Idle
  /\ config.backup # "none" /\ config.backup = config.obs
  /\ Get(kept, "backup") # Nothing /\ Get(kept, "backup").owner = config.obs
  /\ obs' = [obs EXCEPT ![config.obs] = Get(kept, "backup").value]
  /\ wizard' = [step |-> "restored"]
  /\ count' = [count EXCEPT !.acts = @ + 1]
  /\ ended' = "none"
  /\ UNCHANGED <<kept, config, run, relay, mine>>

(* The settings first; the backup nothing names any more is deleted, if it *)
(* can be.                                                                 *)
BackupForgotten(s, after) ==
  Then(Changed(s, Keep, after),
       LAMBDA c : Then(Delete(c, "backup"), Done, LAMBDA o : Done(o.s)), As)

Restored ==
  /\ run.up /\ wizard.step = "restored"
  /\ LET after == [config EXCEPT !.backup = "none"]
     IN \E o \in BackupForgotten(kept, after) :
          Takes(o, after) /\ count' = [count EXCEPT !.bad = @ + o.bad]
  /\ wizard' = Idle
  /\ UNCHANGED <<obs, mine>>

(* What the user of an OBS does there. *)
EditObs ==
  /\ "edit" \in Acts /\ count.acts < MaxActs
  /\ \E o \in Obses, server \in Servers :
       obs' = [obs EXCEPT ![o] = Own(o, server)] /\ obs' # obs
  /\ count' = [count EXCEPT !.acts = @ + 1]
  /\ ended' = "none"
  /\ UNCHANGED <<kept, config, run, relay, wizard, mine>>

Next ==
  \/ Start \/ End
  \/ UpdateConfig \/ SetKey \/ DeleteKey
  \/ Connect \/ Connected \/ GiveUp
  \/ Configure \/ AlreadySetUp \/ Redirect \/ BackUp \/ StreamTo
  \/ Restore \/ Restored
  \/ EditObs

Spec == Init /\ [][Next]_vars

-----------------------------------------------------------------------------
(* A secret never reaches another than the one it is for: the stream key   *)
(* another server, whatever failed to be forgotten when the destination    *)
(* changed (dest_key::for_url), an OBS's password another OBS.             *)
SecretsStayHome ==
  /\ relay.key \in {"none", relay.url}
  /\ wizard.step \in {"connect", "configure"} => wizard.password \in {"none", wizard.obs}

(* A change that is refused has changed nothing, whichever of its writes   *)
(* failed: not what is saved, not the key, not what is in effect           *)
(* (change_settings_locked, Secrets::set).  Only when putting it back    *)
(* fails too does something stay changed ("half").                         *)
RefusedChangesNothing ==
  [][ended' = "error" => Kept(kept') = Kept(kept) /\ kept'.conf = kept.conf
                           /\ config' = config /\ relay' = relay]_vars

(* As long as an OBS streams to us because it was set up to, its own       *)
(* settings can be put back, over failures, restarts, other addresses and  *)
(* other settings (configure, restore).                                    *)
OwnSettingsKept ==
  mine # "none" /\ obs[mine].by = "us" =>
    /\ kept.conf.backup = mine
    /\ Get(kept, "backup") # Nothing
    /\ Get(kept, "backup").owner = mine /\ Get(kept, "backup").value.by = mine
=============================================================================
