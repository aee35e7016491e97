------------------------------ MODULE Settings ------------------------------
(***************************************************************************)
(* How a server's file and what its users fill in on Linux, Windows and      *)
(* Android become the Config of core/core.go, which nothing negotiates: two  *)
(* ends that read one field differently never meet.  Keys, transports and    *)
(* marks are members of small sets, with the spellings the code accepts.     *)
(***************************************************************************)
EXTENDS Integers, Sequences, FiniteSets, SequencesExt

CONSTANTS
  Words,       \* what may be written where a text belongs
  ServerFiles  \* of server.json, as loaded: its fields over the defaults

\* Texts that need a name.
Empty == ""
Blank == " "
Shouted == " TCP"
AnyAddress == "0.0.0.0:4789"

Transports == {"udp", "tcp", "websocket", "wss", "http", "https"}
Modes == {"close", "silent", "tls"}
Ciphers == {"aes-256-gcm", "chacha20-poly1305"}
VisibleMarks == {Empty, "tag"}

\* strings.ToLower and TrimSpace, where they change something.
Clean(text) == CASE text = Shouted -> "tcp" [] text = Blank -> Empty [] OTHER -> text

\* A key written in 64 digits, or with a prefix that the core and invites accept.
Plain == {"5eed", "9512"}
Bytes ==
  [key \in Plain \cup {"0x5EED", "0x9512"} |->
     CASE key = "0x5EED" -> "5eed" [] key = "0x9512" -> "9512" [] OTHER -> key]

Records(windows) ==
  [seed : Words, psk : Words, addr : Words, generation : Nat, window : windows,
   transport : Words, transports : Seq(Words), mode : Words, hops : Int, spread : Int,
   rotation : Int, decoyEvery : Int, decoysPerSec : Int, decoyBurst : Int,
   buckets : Seq(Int), mark : Words, cipher : Words, jitter : Int]

Configs == Records(Nat)

\* In a file the window may be missing, or negative.
ASSUME SettingsAssumption ==
  /\ {Empty, AnyAddress} \cup Plain \cup Transports \cup Modes \cup Ciphers \subseteq Words
  /\ ServerFiles \subseteq Records(SUBSET Int)

NoConfig ==
  [seed |-> Empty, psk |-> Empty, addr |-> Empty, generation |-> 0, window |-> 0,
   transport |-> Empty, transports |-> <<>>, mode |-> Empty, hops |-> 0, spread |-> 0,
   rotation |-> 0, decoyEvery |-> 0, decoysPerSec |-> 0, decoyBurst |-> 0,
   buckets |-> <<>>, mark |-> Empty, cipher |-> Empty, jitter |-> 0]

-------------------------------------------------------------------------------
(* NormalizeConfig *)

MaxGenerationWindow == 8
MaxJitter == 1000

Unusable(c) ==
  \/ {c.seed, c.psk} \ DOMAIN Bytes # {}
  \/ Clean(c.addr) = Empty
  \/ {Clean(t) : t \in {c.transport} \cup ToSet(c.transports)} \ (Transports \cup {Empty}) # {}
  \/ c.mode \notin Modes \cup {Empty}
  \/ c.hops \notin 0 .. 16
  \/ Len(c.buckets) > 16
  \/ ToSet(c.buckets) \ (64 .. 1452) # {}
  \/ ~IsInjective(c.buckets)
  \/ c.mark \notin VisibleMarks
  \/ c.cipher \notin Ciphers \cup {Empty}
  \/ c.window > MaxGenerationWindow
  \/ c.jitter > MaxJitter

\* The transports listed, each once and in order ...
Adding(seen, t) == IF Clean(t) \in {Empty} \cup ToSet(seen) THEN seen ELSE Append(seen, Clean(t))

Distinct(transports) ==
  LET seen[n \in 0 .. Len(transports)] ==
        IF n = 0 THEN <<>> ELSE Adding(seen[n - 1], transports[n])
  IN seen[Len(transports)]

\* ... or the single one.
Listed(c) ==
  IF Distinct(c.transports) # <<>> THEN Distinct(c.transports)
  ELSE <<IF Clean(c.transport) = Empty THEN "udp" ELSE Clean(c.transport)>>

\* sort.Ints, of a ladder without doubles.
Sorted(q) ==
  CHOOSE s \in [1 .. Len(q) -> ToSet(q)] :
    ToSet(s) = ToSet(q) /\ \A i, j \in DOMAIN q : i < j => s[i] < s[j]

\* A change for the worse of Decoys: a negative number turns off its own half.
DecoysEach(every, perSec) ==
  <<CASE every < 0 -> 0 [] every = 0 -> 48 [] OTHER -> every,
    CASE perSec < 0 -> 0 [] perSec = 0 -> 2 [] OTHER -> perSec>>

\* 0 is the default, a negative number in either field turns the decoys off: to 0.
Decoys(every, perSec) ==
  IF every < 0 \/ perSec < 0 THEN <<0, 0>>
  ELSE <<IF every = 0 THEN 48 ELSE every, IF perSec = 0 THEN 2 ELSE perSec>>

AtLeast(low, n) == IF n < low THEN low ELSE n

SpreadOf(hops, spread) == IF hops > 1 /\ spread <= 0 THEN 2048 ELSE spread

Filled(c) ==
  [c EXCEPT !.seed = Bytes[@], !.psk = Bytes[@],
            !.transports = Listed(c), !.transport = Listed(c)[1],
            !.mode = IF @ = Empty THEN "silent" ELSE @,
            !.decoyEvery = Decoys(c.decoyEvery, c.decoysPerSec)[1],
            !.decoysPerSec = Decoys(c.decoyEvery, c.decoysPerSec)[2],
            !.hops = AtLeast(1, @), !.spread = SpreadOf(c.hops, @),
            !.rotation = AtLeast(0, @),
            !.decoyBurst = IF @ > 8 THEN 8 ELSE AtLeast(1, @),
            !.buckets = Sorted(@), !.jitter = AtLeast(0, @)]

\* One configuration or, refused, none.
Normalized(c) == IF Unusable(c) THEN {} ELSE {Filled(c)}

-------------------------------------------------------------------------------
(* chimerad: the fields its file has, over the defaults; no file has a burst *)

ServerDefaults ==
  [addr |-> AnyAddress, transport |-> "udp", transports |-> <<>>, mode |-> "silent",
   decoyEvery |-> 48, decoysPerSec |-> 2, hops |-> 1, spread |-> 0, rotation |-> 0,
   buckets |-> <<>>, mark |-> Empty, seed |-> Empty, psk |-> Empty, generation |-> 0,
   cipher |-> Empty, jitter |-> 20, window |-> {}, decoyBurst |-> 0]

ServerFile(fields) == fields @@ ServerDefaults

ServerConfig(file) ==
  {[file EXCEPT !.window = window, !.jitter = IF @ = 0 THEN 20 ELSE AtLeast(0, @)] :
     window \in {w \in IF file.window = {} THEN {2} ELSE file.window : w >= 0}}

\* main normalises what the file gives, NewServer what main gives.
Server(file) ==
  UNION {UNION {Normalized(n) : n \in Normalized(c)} : c \in ServerConfig(file)}

-------------------------------------------------------------------------------
(* chimerac: client.json and an invite over it *)

\* The Config of what a client has been given; nothing else is in it.
ConfigOf(t) ==
  [NoConfig EXCEPT !.addr = t.addr, !.seed = t.seed, !.psk = t.psk, !.generation = t.generation,
                   !.transport = t.transport, !.hops = t.hops, !.spread = t.spread]

\* Only the file has a list of transports, and a cipher.
ClientFile(t, transports, cipher) ==
  [ConfigOf(t) EXCEPT !.transports = transports, !.cipher = cipher]

WithInvite(file, invite) ==
  [file EXCEPT !.addr = invite.addr, !.seed = invite.seed, !.psk = invite.psk,
               !.generation = invite.generation]

\* What every client adds to its own.
ClientCore(c) == Normalized([c EXCEPT !.window = 2, !.jitter = 20])

\* chimera-init writes a pair; what it leaves out, both ends fill in.
InitServer == [ServerDefaults EXCEPT !.seed = "5eed", !.psk = "9512", !.window = {2}]
InitClient == [NoConfig EXCEPT !.addr = AnyAddress, !.seed = "5eed", !.psk = "9512"]

-------------------------------------------------------------------------------
(* The Windows application: its form, its file, its tray *)

\* Neither it nor the Android service dials over HTTP.
AppTransports == Transports \ {"http", "https"}

FormIncomplete(f) ==
  \/ f.addr = Empty \/ f.generation < 0
  \/ {f.seed, f.psk} \ Plain # {}
  \/ f.hops \notin 1 .. 16
  \/ Clean(f.transport) \notin AppTransports \cup {Empty}

\* What start is called with by the connect button.
Submitted(f) ==
  IF FormIncomplete(f) THEN {}
  ELSE {[f EXCEPT !.transport = IF Clean(@) = Empty THEN "udp" ELSE Clean(@),
                  !.spread = SpreadOf(f.hops, @)]}

\* start: the configuration it keeps and saves, with the last transport if none is given.
Kept(last, a) ==
  LET transport == IF Clean(a.transport) # Empty THEN Clean(a.transport)
                   ELSE IF last.transport # Empty THEN last.transport ELSE "udp"
  IN IF \/ transport \notin AppTransports
        \/ a.hops \notin 0 .. 16 \/ (a.hops > 1 /\ a.spread <= 0)
        \/ {a.seed, a.psk} \ Plain # {} \/ a.addr = Empty
     THEN {} ELSE {[a EXCEPT !.transport = transport]}

WindowsCore(kept) == ClientCore(ConfigOf([kept EXCEPT !.spread = SpreadOf(kept.hops, @)]))

WindowsDefaults ==
  [addr |-> Empty, seed |-> Empty, psk |-> Empty, generation |-> 0, transport |-> Empty, hops |-> 0, spread |-> 0]

\* loadConfig, of a file in which an older version may have left things empty.
Reloaded(file) ==
  [file EXCEPT !.transport = IF @ = Empty THEN "udp" ELSE @, !.spread = SpreadOf(file.hops, @)]

\* The tray and the watchdog start what was kept, without naming its transport.
Restarted(kept) == Kept(kept, [kept EXCEPT !.transport = Empty])

-------------------------------------------------------------------------------
(* The Android application: its form, its preferences, an invite, the binding *)

\* MainActivity.connect; the transport is sent on as it was typed.
Entered(f) ==
  IF f.addr = Empty \/ {f.seed, f.psk} \ Plain # {} THEN {}
  ELSE {[f EXCEPT !.transport = IF Clean(@) = Empty THEN "udp" ELSE @,
                  !.spread = SpreadOf(f.hops, @)]}

\* applyInvite: an invite carries neither transport nor hops, those are the form's.
Imported(f, invite) ==
  [f EXCEPT !.addr = invite.addr, !.seed = invite.seed, !.psk = invite.psk,
            !.generation = invite.generation,
            !.transport = IF Clean(@) = Empty THEN "udp" ELSE @]

\* configFrom and onStartCommand: the configuration of the intent if it is complete, else
\* the saved one, which the service refuses unless its transport is spelled as the core
\* spells it and its hops are in range.
ServiceConfig(intent, saved) ==
  LET complete(configs) == {c \in configs : {c.addr, c.seed, c.psk} \cap {Empty, Blank} = {}}
      chosen == IF complete(intent) # {} THEN complete(intent) ELSE complete(saved)
  IN {c \in chosen : c.transport \in AppTransports /\ c.hops \in 1 .. 16}

BindStart(c) == IF c.generation < 0 THEN {} ELSE ClientCore(ConfigOf(c))

\* A change for the worse of StartGo, as it once was: what is not TCP became UDP.
StartGoAsBefore(c, library) ==
  BindStart([c EXCEPT !.transport = IF @ = "tcp" THEN "tcp" ELSE "udp"])

\* startGo, with a core library that may be too old for some entry points.
StartGo(c, library) ==
  IF "hop" \in library THEN BindStart(c)
  ELSE IF (c.transport = "udp" /\ c.hops <= 1) \/ (c.transport = "tcp" /\ "transport" \in library)
       THEN BindStart([c EXCEPT !.hops = 1, !.spread = 0])
       ELSE {}

-------------------------------------------------------------------------------
(* Do they meet? *)

\* The ports of hopPortsForConfig: the base port and those drawn one after the other.
PortsOf(c) ==
  {<<c.addr>>} \cup
  {<<c.addr, c.seed, c.generation, IF c.spread <= 0 THEN 2048 ELSE c.spread, k>> :
     k \in 1 .. c.hops - 1}

Meet(s, c) ==
  /\ <<c.seed, c.psk, c.cipher>> = <<s.seed, s.psk, s.cipher>>
  /\ c.generation \in s.generation .. s.generation + s.window
  /\ ToSet(c.transports) \cap ToSet(s.transports) # {}
  /\ PortsOf(c) \subseteq PortsOf(s)

\* What the owner of a server tells its users.
Told(file, s) ==
  [addr : {s.addr}, seed : {file.seed, s.seed}, psk : {s.psk}, generation : {s.generation},
   transport : ToSet(s.transports), hops : {s.hops}, spread : {file.spread}]

NewLibrary == {"hop", "transport"}

\* What each front end dials with once a user has told it, or was sent an invite.
Dialing(t, s) ==
  LET told == {t}
      windows == UNION {Kept(WindowsDefaults, a) : a \in Submitted(t)}
      entered == Entered(t)
      invited == [t EXCEPT !.seed = s.seed]
      android(library, configs) == UNION {StartGo(c, library) : c \in configs}
  IN [linux |-> ClientCore(ClientFile(t, s.transports, s.cipher)),
      invite |-> ClientCore(WithInvite(NoConfig, invited)),
      windows |-> UNION {WindowsCore(k) : k \in windows},
      tray |-> UNION {WindowsCore(k) : k \in UNION {Restarted(Reloaded(w)) : w \in windows}},
      android |-> android(NewLibrary, ServiceConfig(entered, {})),
      tile |-> android(NewLibrary, ServiceConfig({}, entered)),
      import |-> android(NewLibrary, ServiceConfig({}, {Imported(t, invited)})),
      older |-> android({"transport"}, ServiceConfig(entered, {})),
      oldest |-> android({}, ServiceConfig(entered, {}))]

\* Which will not try: forms want a key of 64 digits, only Linux has HTTP, and an old
\* library has no WebSocket and no hopping over UDP.
Declines(end, t) ==
  \/ end \notin {"linux", "invite", "import"} /\ t.seed \notin Plain
  \/ end \notin {"linux", "invite"} /\ t.transport \notin AppTransports
  \/ end \in {"older", "oldest"} /\
       ~((t.transport = "udp" /\ t.hops = 1) \/ (t.transport = "tcp" /\ end = "older"))

\* chimera-init's two files meet.
InitMeets ==
  \A s \in Server(InitServer) : \A c \in ClientCore(InitClient) : Meet(s, c)

\* Every front end that has been told a server's settings, and agrees to try, dials
\* with settings under which the two can meet, directly or after a restart from
\* what it saved; but only the Linux file has the cipher, and an invite neither
\* the transports nor the hops.  The two files of chimera-init meet (NormalizeConfig
\* of core/core.go, the files, forms and preferences of every front end).
SettingsMeet ==
  /\ InitMeets
  /\ \A file \in ServerFiles : \A s \in Server(file) : \A t \in Told(file, s) :
       LET dialing == Dialing(t, s) IN
       \A end \in DOMAIN dialing :
         /\ dialing[end] = {} <=> Declines(end, t)
         /\ \A c \in dialing[end] :
              Meet(s, c) <=> /\ s.cipher = Empty \/ end = "linux"
                             /\ end = "invite" => "udp" \in ToSet(s.transports)

\* A configuration that has been normalised is as it should be: doing it again, as
\* the daemon does, changes nothing, except that decoys which are off come on
\* (NormalizeConfig of core/core.go, called by chimerad's main and by NewServer).
NormalOnceNormal ==
  \A file \in ServerFiles : \A c \in ServerConfig(file) : \A n \in Normalized(c) :
    Normalized(n) = {IF n.decoyEvery > 0 THEN n
                     ELSE [n EXCEPT !.decoyEvery = 48, !.decoysPerSec = 2]}
===============================================================================
