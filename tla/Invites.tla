------------------------------- MODULE Invites -------------------------------
(***************************************************************************)
(* Share links and pasted configurations, read by internal/invite (Linux,    *)
(* Windows) and by Invite.kt (Android), which is to be kept in lockstep with *)
(* it.  A text is one of three forms with the values its keys have: strings, *)
(* numbers or null.  Base64, URL escapes and what surrounds a link are left  *)
(* to the libraries; numbers end at MaxLong, uint64 is far beyond it.        *)
(***************************************************************************)
EXTENDS Integers, Sequences, FiniteSets, SequencesExt

CONSTANTS
  MaxLong,  \* 2^63 - 1
  MaxExact, \* 2^53: a float64 holds every integer up to here
  Texts,    \* what may be pasted
  Profiles  \* what may be shared

\* Texts that need a name.
NoText == ""
Space == " "
Indented == " 9512"

Str(text) == [type |-> "string", text |-> text]
Num(n) == [type |-> "number", n |-> n]
Null == [type |-> "null"]

ValuesOf(fields, key) == IF key \in DOMAIN fields THEN {fields[key]} ELSE {}
Given(fields, key) == ValuesOf(fields, key) \ {Null}

\* The number a text spells, if it does, a number's digits, and a text without blanks.
Spelled(text) == CASE text = "3" -> {3} [] text = "-1" -> {-1} [] text = "2^63" -> {MaxLong + 1}
                   [] OTHER -> {}
Numeral(n) == ToString(n)
Trimmed(text) == IF text = Space THEN NoText ELSE text

\* normHex: 64 digits, in either case, with or without a prefix.
Digits ==
  [key \in {"5eed", "9512", "0x5EED", Indented} |->
     CASE key = "0x5EED" -> "5eed" [] key = Indented -> "9512" [] OTHER -> key]

Profile(addr, seed, psk, generation, name) ==
  [addr |-> addr, seed |-> seed, psk |-> psk, generation |-> generation, name |-> name]

Canonical(p) ==
  IF {p.seed, p.psk} \ DOMAIN Digits # {} \/ Trimmed(p.addr) = NoText THEN {}
  ELSE {Profile(Trimmed(p.addr), Digits[p.seed], Digits[p.psk], p.generation, Trimmed(p.name))}

\* The first of some keys that is not blank.
FirstOf(keys, text) ==
  LET filled == {i \in DOMAIN keys : Trimmed(text[keys[i]]) # NoText}
  IN IF filled = {} THEN NoText ELSE Trimmed(text[keys[Min(filled)]])

AddrKeys == <<"serverAddr", "a", "addr">>
SeedKeys == <<"seedHex", "s", "seed_hex">>
PskKeys == <<"pskHex", "p", "psk_hex">>
NameKeys == <<"name", "n">>
Keys == UNION {ToSet(ks) : ks \in {AddrKeys, SeedKeys, PskKeys, NameKeys}}

\* The query parameters, all of them strings.
Param(fields) ==
  [k \in {"addr", "server", "serverAddr", "seed", "seedHex", "psk", "pskHex", "generation", "g",
          "name", "n"} |-> IF k \in DOMAIN fields THEN fields[k].text ELSE NoText]

OfQuery(param, generation) ==
  Canonical(Profile(FirstOf(<<"addr", "server", "serverAddr">>, param),
                    FirstOf(<<"seed", "seedHex">>, param), FirstOf(<<"psk", "pskHex">>, param),
                    generation, FirstOf(NameKeys, param)))

OfObject(text, generation) ==
  Canonical(Profile(FirstOf(AddrKeys, text), FirstOf(SeedKeys, text), FirstOf(PskKeys, text),
                    generation, FirstOf(NameKeys, text)))

OfWire(text, generation) ==
  Canonical(Profile(text["a"], text["s"], text["p"], generation, text["n"]))

WireKeys == {"v", "a", "s", "p", "g", "n"}

\* A link has no name rather than an empty one.
Written(c) ==
  [v |-> Num(1), a |-> Str(c.addr), s |-> Str(c.seed), p |-> Str(c.psk), g |-> Num(c.generation),
   n |-> Str(c.name)]

Format(p) ==
  {[form |-> "v1",
    fields |-> [key \in {k \in WireKeys : k = "n" => c.name # NoText} |-> Written(c)[key]]] :
   c \in Canonical(p)}

-------------------------------------------------------------------------------
(* internal/invite *)

\* ParseUint.
GoUint(text) == {n \in Spelled(text) : n >= 0}

GoQuery(fields) ==
  LET param == Param(fields)
      g == FirstOf(<<"generation", "g">>, param)
  IN UNION {OfQuery(param, n) : n \in IF g = NoText THEN {0} ELSE GoUint(g)}

\* What a number of a JSON object becomes on its way through a float64: above MaxExact,
\* the nearest of the integers that one holds there, the even one of two.
Nearest(n) ==
  LET gap == Min({g \in {2 ^ k : k \in 1 .. 11} : n < g * MaxExact})
      below == n \div gap
      rest == 2 * (n % gap)
  IN gap * (IF rest > gap \/ (rest = gap /\ below % 2 = 1) THEN below + 1 ELSE below)
Float(n) == IF n <= MaxExact THEN n ELSE Nearest(n)

\* jsonString passes over what is not a string.
GoObject(fields) ==
  LET text == [k \in Keys |-> IF \E v \in ValuesOf(fields, k) : v.type = "string"
                              THEN fields[k].text ELSE NoText]
      read(v) == CASE v.type = "number" -> IF v.n < 0 THEN {} ELSE {Float(v.n)}
                   [] v = Str(NoText) -> {0}
                   [] OTHER -> GoUint(v.text)
      given == Given(fields, "generation")
  IN UNION {OfObject(text, n) : n \in IF given = {} THEN {0} ELSE UNION {read(v) : v \in given}}

\* Into a structure: null leaves a field zero, another type is an error, and a key
\* the structure does not have is passed over.
GoWire(fields) ==
  LET fits(v, key) == IF key = "g" THEN v.type = "number" /\ v.n >= 0
                      ELSE v.type = IF key = "v" THEN "number" ELSE "string"
      number(key) == {v.n : v \in Given(fields, key)} \cup IF Given(fields, key) = {} THEN {0} ELSE {}
      text == [k \in {"a", "s", "p", "n"} |-> IF Given(fields, k) = {} THEN NoText ELSE fields[k].text]
  IN IF \/ \E key \in DOMAIN fields \cap WireKeys : \E v \in Given(fields, key) : ~fits(v, key)
        \/ number("v") \cap {0, 1} = {}
     THEN {} ELSE UNION {OfWire(text, n) : n \in number("g")}

GoParse(text) ==
  CASE text.form = "v1" -> GoWire(text.fields)
    [] text.form = "connect" -> GoQuery(text.fields)
    [] text.form = "json" -> GoObject(text.fields)
    [] OTHER -> {}

-------------------------------------------------------------------------------
(* Invite.kt, over org.json *)

\* toLongOrNull.
KtLong(text) == LET fits == {n \in Spelled(text) : n <= MaxLong} IN IF fits = {} THEN {0} ELSE fits

\* A change for the worse of KtQuery: the copy does not know the short key.
KtQueryBehind(fields) ==
  LET param == Param(fields) IN
  UNION {OfQuery(param, n) : n \in KtLong(Trimmed(param["generation"]))}

KtQuery(fields) ==
  LET param == Param(fields) IN
  UNION {OfQuery(param, n) : n \in KtLong(FirstOf(<<"generation", "g">>, param))}

\* optString: null is the text "null", and a number its digits.
OptString(fields, key) ==
  IF key \notin DOMAIN fields THEN NoText
  ELSE CASE fields[key] = Null -> "null"
         [] fields[key].type = "number" -> Numeral(fields[key].n)
         [] OTHER -> fields[key].text

\* optLong: a text that spells a number is one, and what is too large is cut.
OptLong(fields, key, default) ==
  LET numbers(v) == IF v.type = "number" THEN {v.n} ELSE Spelled(v.text)
      found == UNION {numbers(v) : v \in Given(fields, key)}
  IN IF found = {} THEN default
     ELSE LET n == CHOOSE m \in found : TRUE IN IF n > MaxLong THEN MaxLong ELSE n

KtObject(fields) ==
  OfObject([k \in Keys |-> OptString(fields, k)], OptLong(fields, "generation", 0))

KtWire(fields) ==
  IF OptLong(fields, "v", 1) \notin {0, 1} THEN {}
  ELSE OfWire([k \in {"a", "s", "p", "n"} |-> OptString(fields, k)], OptLong(fields, "g", 0))

KtParse(text) ==
  CASE text.form = "v1" -> KtWire(text.fields)
    [] text.form = "connect" -> KtQuery(text.fields)
    [] text.form = "json" -> KtObject(text.fields)
    [] OTHER -> {}

-------------------------------------------------------------------------------
(* What may be pasted and shared *)

Forms == {"v1", "connect", "json", "other"}

IsValue(v) ==
  \/ v.type = "string" /\ v = Str(v.text)
  \/ v.type = "number" /\ v = Num(v.n) /\ v.n \in Int
  \/ v = Null

\* A query has only strings.  A number is no key: what still is an integer to org.json
\* has 19 digits at most.
IsText(text) ==
  /\ text.form \in Forms
  /\ \A key \in DOMAIN text.fields :
       /\ IsValue(text.fields[key])
       /\ text.form = "connect" => text.fields[key].type = "string"
       /\ text.fields[key].type = "number" => Numeral(text.fields[key].n) \notin DOMAIN Digits

ASSUME InvitesAssumption ==
  /\ MaxLong \in Nat \ {0}
  /\ MaxExact \in 1 .. MaxLong
  /\ \A text \in Texts : IsText(text)
  /\ \A p \in Profiles : /\ p = Profile(p.addr, p.seed, p.psk, p.generation, p.name)
                         /\ p.generation \in 0 .. MaxLong

-------------------------------------------------------------------------------
(* Properties *)

GenerationKeys == {"g", "generation"}

\* Strings where strings belong, and a generation that is one.
Ordinary(text) ==
  \A key \in DOMAIN text.fields : \A v \in ValuesOf(text.fields, key) :
    IF key \in GenerationKeys \cup {"v"} /\ text.form # "connect"
    THEN v.type = "number" /\ v.n \in 0 .. MaxLong
    ELSE /\ v.type = "string"
         /\ key \in GenerationKeys => v.text = NoText \/ Spelled(v.text) \cap 0 .. MaxLong # {}

\* What Android takes for the server's address though it is no text.
Misread(fields) ==
  {Trimmed(OptString(fields, key)) :
     key \in {k \in ToSet(AddrKeys) \cap DOMAIN fields : fields[k].type # "string"}}

\* A profile as Go has it when it comes from a pasted object.
Rounded(text, profile) ==
  IF text.form = "json" THEN [profile EXCEPT !.generation = Float(@)] ELSE profile

\* A link made on one platform gives the same profile on every other; so does any
\* ordinary text, except that internal/invite rounds a generation above MaxExact that
\* a pasted object gives as a number, and its copy, kept "in lockstep" (Invite.kt:13),
\* does not.  A strange text that both accept gives both the same keys and, unless a
\* null or a number stands where the server belongs, the same server.
InvitesAgree ==
  /\ \A p \in Profiles : \A link \in Format(p) :
       {GoParse(link), KtParse(link)} = {Canonical(p)}
  /\ \A text \in Texts :
       /\ Ordinary(text) => GoParse(text) = {Rounded(text, k) : k \in KtParse(text)}
       /\ \A g \in GoParse(text), k \in KtParse(text) :
            /\ <<g.seed, g.psk>> = <<k.seed, k.psk>>
            /\ g.addr = k.addr \/ k.addr \in Misread(text.fields)
===============================================================================
