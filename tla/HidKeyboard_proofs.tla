------------------------- MODULE HidKeyboard_proofs -------------------------
(***************************************************************************)
(* Proofs about HidKeyboard, for any keyboards, report sizes and queues    *)
(* and any excerpt of the key tables: the state is typed, the polled API   *)
(* never reports a key of a keyboard that is gone, and the events in       *)
(* flight describe the reports.                                            *)
(***************************************************************************)
EXTENDS HidKeyboard, SequenceTheorems, WellFoundedInduction, TLAPS

(* Events, scancodes and reports *)

Modifiers == ToSet(modifier_map)
Scancodes == [type : {"SCANCODE"}, code : AllCodes, pressed : BOOLEAN]
Events ==
  Scancodes
    \cup [type : {"NAVIGATION"}, key : {"RETURN"}, pressed : BOOLEAN, mods : SUBSET Modifiers]
    \cup [type : {"KEYBOARD"}, ascii : {"a", "A", "/", "?"}, mods : SUBSET Modifiers]

About(e, c) == e.type = "SCANCODE" /\ e.code = c

\* The event e may be about c on the way to the report r: it presses only what r has down, and
\* of a scancode that no two keys share it releases only what r has up.
Toward(e, c, r) == (e.pressed => c \in Codes(r)) /\ (c \in SharedCodes \/ (c \in Codes(r) => e.pressed))

\* The events of s, out of S, bring the scancodes C to where the report r has them, each by one
\* event unless two keys share it, and the others carry the modifiers of r.
Spells(s, S, C, r) ==
  /\ s \in Seq(S)
  /\ \A i \in 1..Len(s) : s[i].type = "SCANCODE" => s[i].code \in C /\ Toward(s[i], s[i].code, r)
  /\ \A c \in C : \E i \in 1..Len(s) : About(s[i], c)
  /\ \A i, j \in 1..Len(s) : \A c \in C \ SharedCodes : About(s[i], c) /\ About(s[j], c) => i = j
  /\ \A i \in 1..Len(s) : s[i].type # "SCANCODE" => s[i].mods = r.mods

\* An event is about the code of the keyboard that it names, and about no other.
LEMMA EventTypes ==
  ASSUME NEW e \in Events
  PROVE  /\ e.type = "SCANCODE" => e.code \in AllCodes /\ e.pressed \in BOOLEAN
         /\ Code(e) \subseteq AllCodes
         /\ \A c : c \in Code(e) <=> About(e, c)
BY DEF Events, Scancodes, Code, About

\* The modifiers are eight, and none has the scancode of a key.
LEMMA ModifierNames ==
  /\ DOMAIN modifier_map = 1..8 /\ Len(modifier_map) = 8
  /\ \A i \in 1..8 : modifier_map[i] \in Modifiers
  /\ \A i, j \in 1..8 : modifier_map[i] = modifier_map[j] => i = j
  /\ \A m \in Modifiers : \E i \in 1..8 : m = modifier_map[i]
  /\ \A m \in Modifiers : m \notin {"A", "ENTER", "SLASH"}
<1>1. DOMAIN modifier_map = 1..8 /\ Len(modifier_map) = 8
  BY DEF modifier_map
<1>2. Modifiers = {modifier_map[i] : i \in 1..8}
  BY <1>1 DEF Modifiers, ToSet
<1>3. \A i \in 1..8 : i = 1 \/ i = 2 \/ i = 3 \/ i = 4 \/ i = 5 \/ i = 6 \/ i = 7 \/ i = 8
  OBVIOUS
<1>4. \A i, j \in 1..8 : modifier_map[i] = modifier_map[j] => i = j
  BY <1>3 DEF modifier_map
<1>5. \A i \in 1..8 : modifier_map[i] \notin {"A", "ENTER", "SLASH"}
  BY <1>3 DEF modifier_map
<1> QED BY <1>1, <1>2, <1>4, <1>5

\* What a key injects is a scancode, and a navigation key or a character if it has one.
LEMMA KeyCodes ==
  ASSUME NEW k \in Usages
  PROVE  /\ hid_to_bsp_scancode[k] \in AllCodes /\ hid_to_bsp_scancode[k] \notin Modifiers
         /\ hid_to_bsp_nav[k] \in {"none", "RETURN"}
         /\ hid_to_ascii_unshifted[k] \in {"none", "a", "/"}
         /\ hid_to_ascii_shifted[k] \in {"none", "A", "?"}
<1>1. k = "A" \/ k = "ENTER" \/ k = "SLASH" \/ k = "KP_SLASH"
  BY HidAssumption DEF Usage
<1>2. hid_to_bsp_scancode[k] \in {"A", "ENTER", "SLASH"}
  BY <1>1 DEF hid_to_bsp_scancode
<1>3. hid_to_bsp_nav[k] \in {"none", "RETURN"}
  BY <1>1 DEF hid_to_bsp_nav
<1>4. hid_to_ascii_unshifted[k] \in {"none", "a", "/"}
  BY <1>1 DEF hid_to_ascii_unshifted
<1>5. hid_to_ascii_shifted[k] \in {"none", "A", "?"}
  BY <1>1 DEF hid_to_ascii_shifted
<1>6. hid_to_bsp_scancode[k] \in AllCodes
  BY DEF AllCodes
<1> QED BY <1>2, <1>3, <1>4, <1>5, <1>6, ModifierNames

\* A report has the keys and modifiers of the keyboards, no key in two slots.
LEMMA ReportTypes ==
  ASSUME NEW r \in Reports
  PROVE  /\ Down(r) \subseteq Usages /\ r.mods \subseteq Mods /\ r.mods \subseteq Modifiers /\ Mods \subseteq Modifiers
         /\ Codes(r) \subseteq AllCodes
         /\ \A i, j \in Slot : r.keys[i] = r.keys[j] /\ r.keys[i] \in Down(r) => i = j
         /\ \A k \in Down(r) : \E i \in Slot : r.keys[i] = k
         /\ \A m \in Modifiers : m \in Codes(r) <=> m \in r.mods
<1>1. r.mods \subseteq Mods /\ Mods \subseteq Modifiers
  BY HidAssumption DEF Reports, Modifiers
<1>2. Down(r) \subseteq Usages
  BY DEF Reports, Down
<1>3. \A i, j \in Slot : r.keys[i] = r.keys[j] /\ r.keys[i] \in Down(r) => i = j
  BY DEF Reports, Down
<1>4. \A k \in Down(r) : \E i \in Slot : r.keys[i] = k
  BY DEF Down
<1>5. \A k \in Down(r) : hid_to_bsp_scancode[k] \in AllCodes /\ hid_to_bsp_scancode[k] \notin Modifiers
  BY <1>2, KeyCodes
<1>6. Codes(r) \subseteq AllCodes
  BY <1>1, <1>5 DEF Codes, AllCodes, Modifiers
<1>7. \A m \in Modifiers : m \in Codes(r) <=> m \in r.mods
  BY <1>5 DEF Codes
<1> QED BY <1>1, <1>2, <1>3, <1>4, <1>6, <1>7

\* A report without keys or modifiers holds nothing.
LEMMA NothingIsReport == Nothing \in Reports /\ Down(Nothing) = {} /\ Codes(Nothing) = {}
<1>1. Nothing \in Reports
  BY DEF Nothing, Reports
<1> QED BY <1>1 DEF Nothing, Down, Codes
-----------------------------------------------------------------------------
(* What the events of one report bring *)

\* No events bring no scancode.
LEMMA EmptySpells == ASSUME NEW r, NEW S PROVE Spells(<<>>, S, {}, r)
<1>1. <<>> \in Seq(S) /\ Len(<<>>) = 0
  OBVIOUS
<1> QED BY <1>1 DEF Spells

\* Events of different scancodes, one sequence behind the other.
LEMMA ConcatSpells ==
  ASSUME NEW S, NEW s, NEW t, NEW C, NEW D, NEW r, Spells(s, S, C, r), Spells(t, S, D, r),
         C \cap D \subseteq SharedCodes
  PROVE  Spells(s \o t, S, C \cup D, r)
<1> DEFINE m == Len(s)
           n == Len(t)
           q == s \o t
<1>1. s \in Seq(S) /\ t \in Seq(S) /\ m \in Nat /\ n \in Nat
  BY DEF Spells
<1>2. /\ q \in Seq(S) /\ Len(q) = m + n
      /\ \A i \in 1..m + n : q[i] = IF i <= m THEN s[i] ELSE t[i - m]
  BY <1>1, ConcatProperties
<1> HIDE DEF q
<1>3. \A i \in 1..m + n : \/ i \in 1..m /\ q[i] = s[i]
                          \/ i - m \in 1..n /\ ~(i \in 1..m) /\ q[i] = t[i - m]
  <2> TAKE i \in 1..m + n
  <2>1. CASE i <= m
    BY <2>1, <1>1, <1>2
  <2>2. CASE ~(i <= m)
    BY <2>2, <1>1, <1>2
  <2> QED BY <2>1, <2>2
<1>4. /\ \A i \in 1..m : i \in 1..m + n /\ q[i] = s[i]
      /\ \A i \in 1..n : m + i \in 1..m + n /\ q[m + i] = t[i]
  BY <1>1, <1>2
<1>5. /\ \A i \in 1..m : s[i].type = "SCANCODE" => s[i].code \in C /\ Toward(s[i], s[i].code, r)
      /\ \A i \in 1..n : t[i].type = "SCANCODE" => t[i].code \in D /\ Toward(t[i], t[i].code, r)
      /\ \A i \in 1..m : s[i].type # "SCANCODE" => s[i].mods = r.mods
      /\ \A i \in 1..n : t[i].type # "SCANCODE" => t[i].mods = r.mods
  BY DEF Spells
<1>6. /\ \A c \in C : \E i \in 1..m : About(s[i], c)
      /\ \A c \in D : \E i \in 1..n : About(t[i], c)
      /\ \A i, j \in 1..m : \A c \in C \ SharedCodes : About(s[i], c) /\ About(s[j], c) => i = j
      /\ \A i, j \in 1..n : \A c \in D \ SharedCodes : About(t[i], c) /\ About(t[j], c) => i = j
  BY DEF Spells
<1> HIDE DEF m, n
<1>7. \A i \in 1..m + n :
        /\ q[i].type = "SCANCODE" => q[i].code \in C \cup D /\ Toward(q[i], q[i].code, r)
        /\ q[i].type # "SCANCODE" => q[i].mods = r.mods
  BY <1>3, <1>5
<1>8. \A c \in C \cup D : \E i \in 1..m + n : About(q[i], c)
  BY <1>4, <1>6
<1>9. /\ \A i \in 1..m : \A c : About(s[i], c) => c \in C
      /\ \A i \in 1..n : \A c : About(t[i], c) => c \in D
  BY <1>5 DEF About
<1>10. ASSUME NEW i \in 1..m + n, NEW j \in 1..m + n, NEW c \in (C \cup D) \ SharedCodes,
              About(q[i], c), About(q[j], c)
       PROVE  i = j
  <2>1. CASE c \in C
    <3>1. i \in 1..m /\ j \in 1..m /\ q[i] = s[i] /\ q[j] = s[j]
      BY <2>1, <1>3, <1>9, <1>10
    <3> QED BY <2>1, <3>1, <1>6, <1>10
  <2>2. CASE c \in D
    <3>1. i - m \in 1..n /\ j - m \in 1..n /\ q[i] = t[i - m] /\ q[j] = t[j - m]
      BY <2>2, <1>3, <1>9, <1>10
    <3>2. i - m = j - m
      BY <2>2, <3>1, <1>6, <1>10
    <3> QED BY <3>2, <1>1 DEF m, n
  <2> QED BY <2>1, <2>2, <1>10
<1> QED BY <1>2, <1>7, <1>8, <1>10 DEF Spells, q

\* One event about a scancode, and one about none.
LEMMA ScancodeSpells ==
  ASSUME NEW S, Scancodes \subseteq S, NEW c \in AllCodes, NEW p \in BOOLEAN, NEW r,
         p => c \in Codes(r), c \in SharedCodes \/ (c \in Codes(r) => p)
  PROVE  Spells(inject_scancode(c, p), S, {c}, r)
<1> DEFINE e == [type |-> "SCANCODE", code |-> c, pressed |-> p]
<1>1. e \in S
  BY DEF Scancodes
<1>2. e.type = "SCANCODE" /\ e.code = c /\ (e.pressed <=> p)
  OBVIOUS
<1> HIDE DEF e
<1>3. <<e>> \in Seq(S) /\ Len(<<e>>) = 1 /\ <<e>>[1] = e
  BY <1>1
<1>4. \A i \in 1..1 : i = 1
  OBVIOUS
<1>5. 1 \in 1..1
  OBVIOUS
<1>6. Spells(<<e>>, S, {c}, r)
  BY <1>2, <1>3, <1>4, <1>5 DEF Spells, About, Toward
<1> QED BY <1>6 DEF inject_scancode, e

\* A navigation or character event brings no scancode.
LEMMA OtherSpells ==
  ASSUME NEW e \in Events, NEW r, e.type # "SCANCODE", e.mods = r.mods
  PROVE  Spells(<<e>>, Events, {}, r)
<1>3. <<e>> \in Seq(Events) /\ Len(<<e>>) = 1 /\ <<e>>[1] = e
  OBVIOUS
<1>4. \A i \in 1..1 : i = 1
  OBVIOUS
<1> QED BY <1>3, <1>4 DEF Spells, About

\* Nor does what inject_navigation injects.
LEMMA NavigationSpells ==
  ASSUME NEW k \in {"none", "RETURN"}, NEW p \in BOOLEAN, NEW r \in Reports
  PROVE  Spells(inject_navigation(k, p, r.mods), Events, {}, r)
<1>1. CASE k = "none"
  BY <1>1, EmptySpells DEF inject_navigation
<1>2. CASE k = "RETURN"
  <2> DEFINE e == [type |-> "NAVIGATION", key |-> k, pressed |-> p, mods |-> r.mods]
  <2>1. e \in Events /\ e.type # "SCANCODE" /\ e.mods = r.mods
    BY <1>2, ReportTypes DEF Events
  <2> HIDE DEF e
  <2>2. Spells(<<e>>, Events, {}, r)
    BY <2>1, OtherSpells
  <2> QED BY <1>2, <2>2 DEF inject_navigation, e
<1> QED BY <1>1, <1>2

\* Nor does what inject_ascii injects.
LEMMA AsciiSpells ==
  ASSUME NEW a \in {"none", "a", "A", "/", "?"}, NEW r \in Reports
  PROVE  Spells(inject_ascii(a, r.mods), Events, {}, r)
<1>1. CASE a = "none"
  BY <1>1, EmptySpells DEF inject_ascii
<1>2. CASE a # "none"
  <2> DEFINE e == [type |-> "KEYBOARD", ascii |-> a, mods |-> r.mods]
  <2>1. e \in Events /\ e.type # "SCANCODE" /\ e.mods = r.mods
    BY <1>2, ReportTypes DEF Events
  <2> HIDE DEF e
  <2>2. Spells(<<e>>, Events, {}, r)
    BY <2>1, OtherSpells
  <2> QED BY <1>2, <2>2 DEF inject_ascii, e
<1> QED BY <1>1, <1>2

\* The key events of a press and of a release.
LEMMA PressSpells ==
  ASSUME NEW r \in Reports, NEW k \in Down(r)
  PROVE  Spells(on_key_press(k, r.mods), Events, {hid_to_bsp_scancode[k]}, r)
<1> DEFINE c == hid_to_bsp_scancode[k]
           a == IF r.mods \cap {"SHIFT_L", "SHIFT_R"} # {}
                  THEN hid_to_ascii_shifted[k] ELSE hid_to_ascii_unshifted[k]
<1>1. k \in Usages
  BY ReportTypes
<1>2. c \in AllCodes /\ c \in Codes(r)
  BY <1>1, KeyCodes DEF Codes
<1>3. Spells(inject_scancode(c, TRUE), Events, {c}, r)
  BY <1>2, ScancodeSpells DEF Events
<1>4. Spells(inject_navigation(hid_to_bsp_nav[k], TRUE, r.mods), Events, {}, r)
  BY <1>1, KeyCodes, NavigationSpells
<1>5. a \in {"none", "a", "A", "/", "?"}
  BY <1>1, KeyCodes
<1> HIDE DEF a
<1>6. Spells(inject_ascii(a, r.mods), Events, {}, r)
  BY <1>5, AsciiSpells
<1>7. Spells(inject_scancode(c, TRUE) \o inject_navigation(hid_to_bsp_nav[k], TRUE, r.mods), Events, {c} \cup {}, r)
  BY <1>3, <1>4, ConcatSpells
<1>8. Spells((inject_scancode(c, TRUE) \o inject_navigation(hid_to_bsp_nav[k], TRUE, r.mods))
               \o inject_ascii(a, r.mods), Events, ({c} \cup {}) \cup {}, r)
  BY <1>6, <1>7, ConcatSpells
<1>9. ({c} \cup {}) \cup {} = {c}
  OBVIOUS
<1> QED BY <1>8, <1>9 DEF on_key_press, a

\* The events of a release, for a key whose scancode the new report has up or two keys share.
LEMMA ReleaseSpells ==
  ASSUME NEW r \in Reports, NEW k \in Usages,
         hid_to_bsp_scancode[k] \notin Codes(r) \/ hid_to_bsp_scancode[k] \in SharedCodes
  PROVE  Spells(on_key_release(k, r.mods), Events, {hid_to_bsp_scancode[k]}, r)
<1> DEFINE c == hid_to_bsp_scancode[k]
<1>1. c \in AllCodes
  BY KeyCodes
<1>2. Spells(inject_scancode(c, FALSE), Events, {c}, r)
  BY <1>1, ScancodeSpells DEF Events
<1>3. Spells(inject_navigation(hid_to_bsp_nav[k], FALSE, r.mods), Events, {}, r)
  BY KeyCodes, NavigationSpells
<1>4. Spells(inject_scancode(c, FALSE) \o inject_navigation(hid_to_bsp_nav[k], FALSE, r.mods), Events, {c} \cup {}, r)
  BY <1>2, <1>3, ConcatSpells
<1>5. {c} \cup {} = {c}
  OBVIOUS
<1> QED BY <1>4, <1>5 DEF on_key_release

\* Any set that holds 0 and with every number its successor holds all numbers.
LEMMA NatInSet ==
  ASSUME NEW T, 0 \in T, \A n \in Nat : n \in T => n + 1 \in T
  PROVE  Nat \subseteq T
<1> DEFINE R == OpToRel(<, Nat)
           C == Nat \ T
<1>1. IsWellFoundedOn(R, Nat)
  BY NatLessThanWellFounded
<1>2. \A a, b \in Nat : a < b => <<a, b>> \in R
  BY DEF OpToRel
<1> SUFFICES ASSUME C # {} PROVE FALSE
  OBVIOUS
<1>3. C \subseteq Nat
  OBVIOUS
<1>4. PICK m \in C : \A k \in C : <<k, m>> \notin R
  <2> HIDE DEF R, C
  <2> QED BY <1>1, <1>3, WFMin
<1>5. m \in Nat /\ m # 0 /\ m - 1 \in Nat
  OBVIOUS
<1>6. m - 1 \notin C
  <2> HIDE DEF R, C
  <2>1. <<m - 1, m>> \in R
    BY <1>2, <1>5
  <2> QED BY <1>4, <2>1
<1>7. (m - 1) + 1 \in T
  BY <1>5, <1>6
<1> QED BY <1>5, <1>7

\* The function that glues the first i elements of s together exists.
LEMMA GlueExists ==
  ASSUME NEW s, NEW n \in Nat \ {0}
  PROVE  \E g : g = [i \in 1..n |-> IF i = 1 THEN s[i] ELSE g[i - 1] \o s[i]]
<1> DEFINE Glue(g, m) == g = [i \in 1..m |-> IF i = 1 THEN s[i] ELSE g[i - 1] \o s[i]]
           T == {m \in Nat : \E g : Glue(g, m + 1)}
<1>1. 0 \in T
  <2> DEFINE g == [i \in 1..1 |-> s[i]]
  <2>1. \A i \in 1..0 + 1 : i = 1
    OBVIOUS
  <2>2. 1..0 + 1 = 1..1
    OBVIOUS
  <2>3. Glue(g, 0 + 1)
    BY <2>1, <2>2
  <2> QED BY <2>3
<1>2. ASSUME NEW m \in Nat, m \in T PROVE m + 1 \in T
  <2>1. PICK g : Glue(g, m + 1)
    BY <1>2
  <2> DEFINE h == [i \in 1..m + 2 |-> IF i = m + 2 THEN g[m + 1] \o s[i] ELSE g[i]]
  <2>2. \A i \in 1..m + 2 : /\ i = m + 2 => i # 1 /\ i - 1 = m + 1 /\ i - 1 \in 1..m + 2 /\ i - 1 # m + 2
                            /\ i # m + 2 => i \in 1..m + 1 /\ (i # 1 => i - 1 \in 1..m + 2 /\ i - 1 # m + 2)
    OBVIOUS
  <2>3. \A i \in 1..m + 1 : g[i] = IF i = 1 THEN s[i] ELSE g[i - 1] \o s[i]
    BY <2>1
  <2>4. /\ \A i \in 1..m + 2 : h[i] = IF i = m + 2 THEN g[m + 1] \o s[i] ELSE g[i]
        /\ h = [i \in 1..m + 2 |-> h[i]]
    BY Zenon
  <2> HIDE DEF h
  <2>5. \A i \in 1..m + 2 : h[i] = IF i = 1 THEN s[i] ELSE h[i - 1] \o s[i]
    <3> TAKE i \in 1..m + 2
    <3>1. CASE i = m + 2
      <4>1. h[i] = g[m + 1] \o s[i] /\ h[i - 1] = g[m + 1] /\ i # 1
        BY <3>1, <2>2, <2>4, Zenon
      <4> QED BY <4>1, Zenon
    <3>2. CASE i # m + 2
      <4>1. h[i] = g[i] /\ (i # 1 => h[i - 1] = g[i - 1]) /\ i \in 1..m + 1
        BY <3>2, <2>2, <2>4, Zenon
      <4> QED BY <4>1, <2>3, Zenon
    <3> QED BY <3>1, <3>2
  <2>6. h = [i \in 1..m + 2 |-> IF i = 1 THEN s[i] ELSE h[i - 1] \o s[i]]
    BY <2>4, <2>5, Zenon
  <2>7. (m + 1) + 1 = m + 2
    OBVIOUS
  <2>8. Glue(h, (m + 1) + 1)
    BY <2>6, <2>7, Zenon
  <2> HIDE DEF Glue
  <2>9. m + 1 \in Nat
    OBVIOUS
  <2> QED BY <2>8, <2>9
<1>3. Nat \subseteq T
  <2> HIDE DEF T
  <2> QED BY <1>1, <1>2, NatInSet
<1>4. n - 1 \in Nat /\ (n - 1) + 1 = n
  OBVIOUS
<1>5. \E g : Glue(g, (n - 1) + 1)
  <2> HIDE DEF Glue
  <2> QED BY <1>3, <1>4
<1> QED BY <1>4, <1>5

\* Sequences that bring different scancodes, one after the other, bring them all.
LEMMA FlattenSpells ==
  ASSUME NEW S, NEW r, NEW s, NEW n \in Nat \ {0}, DOMAIN s = 1..n, Len(s) = n, NEW K,
         \A i \in 1..n : Spells(s[i], S, K[i], r),
         \A i, j \in 1..n : i # j => K[i] \cap K[j] \subseteq SharedCodes,
         NEW C, \A c : c \in C <=> \E i \in 1..n : c \in K[i]
  PROVE  Spells(FlattenSeq(s), S, C, r)
<1> DEFINE g == CHOOSE f : f = [i \in 1..n |-> IF i = 1 THEN s[i] ELSE f[i - 1] \o s[i]]
           All(i) == UNION {K[j] : j \in 1..i}
<1>1. g = [i \in 1..n |-> IF i = 1 THEN s[i] ELSE g[i - 1] \o s[i]]
  <2>1. \E f : f = [i \in 1..n |-> IF i = 1 THEN s[i] ELSE f[i - 1] \o s[i]]
    BY ONLY GlueExists, n \in Nat \ {0}, Zenon
  <2> QED BY ONLY <2>1, Zenon
<1>2. FlattenSeq(s) = g[n]
  BY DEF FlattenSeq
<1> HIDE DEF g
<1> DEFINE T == {i \in Nat : i + 1 \in 1..n => Spells(g[i + 1], S, All(i + 1), r)}
<1>3. 0 \in T
  <2>1. 0 + 1 = 1 /\ 1 \in 1..n
    OBVIOUS
  <2>2. g[1] = s[1]
    BY <1>1, <2>1
  <2>3. All(1) = K[1]
    <3>1. \A j \in 1..1 : j = 1
      OBVIOUS
    <3>2. 1 \in 1..1
      OBVIOUS
    <3> QED BY <3>1, <3>2
  <2> HIDE DEF All
  <2>4. Spells(g[1], S, All(1), r)
    BY <2>1, <2>2, <2>3
  <2> QED BY <2>1, <2>4
<1>4. ASSUME NEW i \in Nat, i \in T PROVE i + 1 \in T
  <2> SUFFICES ASSUME i + 2 \in 1..n PROVE Spells(g[i + 2], S, All(i + 2), r)
    <3>1. (i + 1) + 1 = i + 2
      OBVIOUS
    <3> HIDE DEF All
    <3> QED BY <3>1
  <2>1. i + 1 \in 1..n /\ i + 2 # 1 /\ (i + 2) - 1 = i + 1
    OBVIOUS
  <2>2. Spells(g[i + 1], S, All(i + 1), r)
    BY <1>4, <2>1
  <2>3. g[i + 2] = g[i + 1] \o s[i + 2]
    <3>1. g[i + 2] = IF i + 2 = 1 THEN s[i + 2] ELSE g[(i + 2) - 1] \o s[i + 2]
      BY <1>1, Zenon
    <3> QED BY <3>1, <2>1, Zenon
  <2>4. All(i + 1) \cap K[i + 2] \subseteq SharedCodes
    <3>1. \A j \in 1..i + 1 : j \in 1..n /\ j # i + 2
      OBVIOUS
    <3> QED BY <3>1
  <2>5. All(i + 2) = All(i + 1) \cup K[i + 2]
    <3>1. 1..i + 2 = (1..i + 1) \cup {i + 2}
      OBVIOUS
    <3> QED BY <3>1
  <2> HIDE DEF All
  <2>6. Spells(s[i + 2], S, K[i + 2], r)
    OBVIOUS
  <2> QED BY <2>2, <2>3, <2>4, <2>5, <2>6, ConcatSpells
<1>5. Nat \subseteq T
  <2> HIDE DEF T
  <2> QED BY <1>3, <1>4, NatInSet
<1>6. n - 1 \in Nat /\ (n - 1) + 1 = n /\ n \in 1..n
  OBVIOUS
<1>7. Spells(g[n], S, All(n), r)
  BY <1>5, <1>6
<1>8. All(n) = C
  OBVIOUS
<1> HIDE DEF All
<1> QED BY <1>2, <1>7, <1>8

\* The modifiers and the keys that two reports differ in, as scancodes.
ModifiersChanged(old, new) == {m \in Modifiers : (m \in old.mods) # (m \in new.mods)}
KeysChanged(old, new) ==
  {hid_to_bsp_scancode[k] : k \in (Down(old) \ Down(new)) \cup (Down(new) \ Down(old))}

\* inject_modifier_changes brings the modifiers that changed, and injects scancodes only.
LEMMA ModifierEventsSpell ==
  ASSUME NEW old \in Reports, NEW new \in Reports
  PROVE  Spells(inject_modifier_changes(old.mods, new.mods), Scancodes, ModifiersChanged(old, new), new)
<1> DEFINE f(i) == LET m == modifier_map[i]
                   IN  IF (m \in old.mods) # (m \in new.mods) THEN inject_scancode(m, m \in new.mods) ELSE <<>>
           s == [i \in DOMAIN modifier_map |-> f(i)]
           K == [i \in 1..8 |-> IF (modifier_map[i] \in old.mods) # (modifier_map[i] \in new.mods)
                                  THEN {modifier_map[i]} ELSE {}]
<1>1. \A i \in 1..8 : Spells(f(i), Scancodes, K[i], new)
  <2> TAKE i \in 1..8
  <2> DEFINE m == modifier_map[i]
  <2>1. m \in Modifiers
    BY ModifierNames
  <2> HIDE DEF m
  <2>2. CASE (m \in old.mods) # (m \in new.mods)
    <3>1. m \in AllCodes /\ (m \in new.mods) \in BOOLEAN /\ (m \in new.mods <=> m \in Codes(new))
      BY <2>1, ReportTypes DEF AllCodes, Modifiers
    <3>2. Spells(inject_scancode(m, m \in new.mods), Scancodes, {m}, new)
      BY <3>1, ScancodeSpells
    <3>3. f(i) = inject_scancode(m, m \in new.mods) /\ K[i] = {m}
      BY <2>2, Zenon DEF m
    <3> QED BY <3>2, <3>3, Zenon
  <2>3. CASE ~((m \in old.mods) # (m \in new.mods))
    <3>1. f(i) = <<>> /\ K[i] = {}
      BY <2>3, Zenon DEF m
    <3> QED BY <3>1, EmptySpells, Zenon
  <2> QED BY <2>2, <2>3
<1> HIDE DEF f
<1>2. \A i, j \in 1..8 : i # j => K[i] \cap K[j] \subseteq SharedCodes
  BY ModifierNames
<1>3. \A c : c \in ModifiersChanged(old, new) <=> \E i \in 1..8 : c \in K[i]
  BY ModifierNames DEF ModifiersChanged
<1> HIDE DEF K
<1>4. DOMAIN s = 1..8 /\ \A i \in 1..8 : s[i] = f(i)
  BY ModifierNames
<1>5. Len(s) = 8
  BY <1>4, ModifierNames
<1>6. inject_modifier_changes(old.mods, new.mods) = FlattenSeq(s)
  BY Zenon DEF inject_modifier_changes, f
<1> HIDE DEF s
<1>7. \A i \in 1..8 : Spells(s[i], Scancodes, K[i], new)
  BY <1>1, <1>4
<1>8. 8 \in Nat \ {0}
  OBVIOUS
<1>9. Spells(FlattenSeq(s), Scancodes, ModifiersChanged(old, new), new)
  BY <1>2, <1>3, <1>4, <1>5, <1>7, <1>8, FlattenSpells, Zenon
<1> QED BY <1>6, <1>9

\* Two keys of one scancode share it, and a modifier is not shared.
LEMMA SharedByTwo ==
  /\ \A k, l \in Usages : k # l /\ hid_to_bsp_scancode[k] = hid_to_bsp_scancode[l]
                           => hid_to_bsp_scancode[k] \in SharedCodes
  /\ \A m \in Modifiers : m \notin SharedCodes
<1>1. \A k \in Usages : hid_to_bsp_scancode[k] \notin Modifiers
  BY KeyCodes
<1> QED BY <1>1 DEF SharedCodes

\* A scancode that no two keys share is down exactly if its key is.
LEMMA CodesOfKeys ==
  ASSUME NEW r \in Reports, NEW k \in Usages
  PROVE  /\ k \in Down(r) => hid_to_bsp_scancode[k] \in Codes(r)
         /\ hid_to_bsp_scancode[k] \in Codes(r) => \E l \in Down(r) : hid_to_bsp_scancode[l] = hid_to_bsp_scancode[k]
         /\ hid_to_bsp_scancode[k] \in Codes(r) => k \in Down(r) \/ hid_to_bsp_scancode[k] \in SharedCodes
<1>1. Down(r) \subseteq Usages /\ r.mods \subseteq Modifiers
  BY ReportTypes
<1>2. hid_to_bsp_scancode[k] \notin Modifiers
  BY KeyCodes
<1>3. hid_to_bsp_scancode[k] \notin r.mods
  BY <1>1, <1>2
<1>4. k \in Down(r) => hid_to_bsp_scancode[k] \in Codes(r)
  BY DEF Codes
<1>5. hid_to_bsp_scancode[k] \in Codes(r) => \E l \in Down(r) : hid_to_bsp_scancode[l] = hid_to_bsp_scancode[k]
  BY <1>3 DEF Codes
<1> QED BY <1>1, <1>4, <1>5, SharedByTwo

\* The events of all slots bring the keys that changed.
LEMMA KeyEventsSpell ==
  ASSUME NEW old \in Reports, NEW new \in Reports
  PROVE  Spells(FlattenSeq([i \in Slot |-> SlotEvents(old, new, i)]), Events, KeysChanged(old, new), new)
<1> DEFINE n == HID_KEYBOARD_KEY_MAX
           Up(i) == old.keys[i] \in Down(old) \ Down(new)
           Dn(i) == new.keys[i] \in Down(new) \ Down(old)
           U(i) == IF Up(i) THEN {hid_to_bsp_scancode[old.keys[i]]} ELSE {}
           D(i) == IF Dn(i) THEN {hid_to_bsp_scancode[new.keys[i]]} ELSE {}
           K == [i \in 1..n |-> U(i) \cup D(i)]
           s == [i \in Slot |-> SlotEvents(old, new, i)]
<1>1. n \in Nat \ {0} /\ Slot = 1..n
  BY HidAssumption DEF Slot
<1>2. Down(old) \subseteq Usages /\ Down(new) \subseteq Usages
  BY ReportTypes
<1>3. \A i, j \in Slot : i # j =>
        /\ old.keys[i] \in Down(old) => old.keys[i] # old.keys[j]
        /\ new.keys[i] \in Down(new) => new.keys[i] # new.keys[j]
  BY ReportTypes
<1>4. \A k, l \in Usages : k # l /\ hid_to_bsp_scancode[k] = hid_to_bsp_scancode[l]
                            => hid_to_bsp_scancode[k] \in SharedCodes
  BY SharedByTwo
<1>5. \A i \in Slot : Spells(SlotEvents(old, new, i), Events, U(i) \cup D(i), new)
  <2> TAKE i \in Slot
  <2> DEFINE a == IF Up(i) THEN on_key_release(old.keys[i], new.mods) ELSE <<>>
             b == IF Dn(i) THEN on_key_press(new.keys[i], new.mods) ELSE <<>>
  <2>1. Spells(a, Events, U(i), new)
    <3>1. CASE Up(i)
      <4>1. /\ old.keys[i] \in Usages
            /\ \/ hid_to_bsp_scancode[old.keys[i]] \notin Codes(new)
               \/ hid_to_bsp_scancode[old.keys[i]] \in SharedCodes
        BY <3>1, <1>2, CodesOfKeys
      <4> QED BY <3>1, <4>1, ReleaseSpells
    <3>2. CASE ~Up(i)
      BY <3>2, EmptySpells, Zenon
    <3> QED BY <3>1, <3>2
  <2>2. Spells(b, Events, D(i), new)
    <3>1. CASE Dn(i)
      BY <3>1, PressSpells
    <3>2. CASE ~Dn(i)
      BY <3>2, EmptySpells, Zenon
    <3> QED BY <3>1, <3>2
  <2>3. U(i) \cap D(i) \subseteq SharedCodes
    BY <1>2, <1>4
  <2>4. SlotEvents(old, new, i) = a \o b
    BY DEF SlotEvents
  <2> HIDE DEF a, b, U, D
  <2> QED BY <2>1, <2>2, <2>3, <2>4, ConcatSpells
<1>6. \A i, j \in 1..n : i # j => K[i] \cap K[j] \subseteq SharedCodes
  <2> TAKE i, j \in 1..n
  <2> HAVE i # j
  <2>1. U(i) \cap U(j) \subseteq SharedCodes
    BY <1>1, <1>2, <1>3, <1>4
  <2>2. U(i) \cap D(j) \subseteq SharedCodes /\ D(i) \cap U(j) \subseteq SharedCodes
    BY <1>2, <1>4
  <2>3. D(i) \cap D(j) \subseteq SharedCodes
    BY <1>1, <1>2, <1>3, <1>4
  <2> HIDE DEF U, D
  <2> QED BY <2>1, <2>2, <2>3
<1>7. \A c : c \in KeysChanged(old, new) <=> \E i \in 1..n : c \in K[i]
  <2>1. ASSUME NEW i \in 1..n, NEW c \in K[i] PROVE c \in KeysChanged(old, new)
    BY <2>1 DEF KeysChanged
  <2>2. ASSUME NEW c \in KeysChanged(old, new) PROVE \E i \in 1..n : c \in K[i]
    <3>1. PICK k \in (Down(old) \ Down(new)) \cup (Down(new) \ Down(old)) : c = hid_to_bsp_scancode[k]
      BY DEF KeysChanged
    <3>2. CASE k \in Down(old) \ Down(new)
      <4>1. PICK i \in 1..n : old.keys[i] = k
        BY <3>2, <1>1, ReportTypes
      <4>2. c \in U(i)
        BY <3>1, <3>2, <4>1
      <4> HIDE DEF U, D
      <4> QED BY <4>2
    <3>3. CASE k \in Down(new) \ Down(old)
      <4>1. PICK i \in 1..n : new.keys[i] = k
        BY <3>3, <1>1, ReportTypes
      <4>2. c \in D(i)
        BY <3>1, <3>3, <4>1
      <4> HIDE DEF U, D
      <4> QED BY <4>2
    <3> QED BY <3>1, <3>2, <3>3
  <2> HIDE DEF K
  <2> QED BY <2>1, <2>2
<1>8. DOMAIN s = 1..n /\ \A i \in 1..n : s[i] = SlotEvents(old, new, i)
  BY <1>1
<1>9. Len(s) = n
  BY <1>1, <1>8
<1> HIDE DEF s
<1>10. \A i \in 1..n : Spells(s[i], Events, K[i], new)
  <2> TAKE i \in 1..n
  <2>1. K[i] = U(i) \cup D(i)
    BY Zenon
  <2> HIDE DEF K, U, D
  <2> QED BY <2>1, <1>1, <1>5, <1>8
<1> HIDE DEF K, n
<1>11. Spells(FlattenSeq(s), Events, KeysChanged(old, new), new)
  BY <1>1, <1>6, <1>7, <1>8, <1>9, <1>10, FlattenSpells, Zenon
<1> QED BY <1>11 DEF s

\* A sequence over few events is one over more.
LEMMA SpellsMore ==
  ASSUME NEW s, NEW S, NEW R, NEW C, NEW r, S \subseteq R, Spells(s, S, C, r)
  PROVE  Spells(s, R, C, r)
BY DEF Spells

\* The events of a report bring what differs from the one before, and nothing else but scancodes
\* that two keys share; and all modifiers come first.
LEMMA ReportEventsSpell ==
  ASSUME NEW old \in Reports, NEW new \in Reports
  PROVE  \E C : /\ Spells(ReportEvents(old, new), Events, C, new)
                /\ C \subseteq AllCodes
                /\ \A c \in AllCodes : ~(c \in Codes(old) <=> c \in Codes(new)) => c \in C
                /\ \A c \in C \ SharedCodes : ~(c \in Codes(old) <=> c \in Codes(new))
                /\ \A i, j \in 1..Len(ReportEvents(old, new)) :
                     LET e == ReportEvents(old, new)
                     IN  e[i].type # "SCANCODE" /\ e[j].type = "SCANCODE" /\ i < j => e[j].code \notin Modifiers
<1> DEFINE a == inject_modifier_changes(old.mods, new.mods)
           b == FlattenSeq([i \in Slot |-> SlotEvents(old, new, i)])
           A == ModifiersChanged(old, new)
           B == KeysChanged(old, new)
           e == ReportEvents(old, new)
<1>1. Spells(a, Scancodes, A, new)
  BY ModifierEventsSpell
<1>2. Spells(b, Events, B, new)
  BY KeyEventsSpell
<1>3. e = a \o b
  BY DEF ReportEvents
<1>4. Down(old) \subseteq Usages /\ Down(new) \subseteq Usages
  BY ReportTypes
<1>5. \A c \in B : c \in AllCodes /\ c \notin Modifiers
  BY <1>4, KeyCodes DEF KeysChanged
<1>6. A \cap B = {}
  BY <1>5 DEF ModifiersChanged
<1>7. /\ A \cup B \subseteq AllCodes
      /\ \A c \in AllCodes : ~(c \in Codes(old) <=> c \in Codes(new)) => c \in A \cup B
      /\ \A c \in (A \cup B) \ SharedCodes : ~(c \in Codes(old) <=> c \in Codes(new))
  <2>1. \A m \in Modifiers : m \in AllCodes /\ (m \in A <=> ~(m \in Codes(old) <=> m \in Codes(new)))
    BY ReportTypes DEF ModifiersChanged, AllCodes, Modifiers
  <2>2. ASSUME NEW k \in Usages, ~(hid_to_bsp_scancode[k] \in Codes(old) <=> hid_to_bsp_scancode[k] \in Codes(new))
        PROVE  hid_to_bsp_scancode[k] \in B
    <3>1. PICK l \in (Down(old) \ Down(new)) \cup (Down(new) \ Down(old)) :
            hid_to_bsp_scancode[l] = hid_to_bsp_scancode[k]
      <4>1. CASE hid_to_bsp_scancode[k] \in Codes(old)
        <5>1. PICK l \in Down(old) : hid_to_bsp_scancode[l] = hid_to_bsp_scancode[k]
          BY <4>1, CodesOfKeys
        <5>2. l \notin Down(new)
          BY <5>1, <4>1, <2>2, <1>4, CodesOfKeys
        <5> QED BY <5>1, <5>2
      <4>2. CASE hid_to_bsp_scancode[k] \in Codes(new)
        <5>1. PICK l \in Down(new) : hid_to_bsp_scancode[l] = hid_to_bsp_scancode[k]
          BY <4>2, CodesOfKeys
        <5>2. l \notin Down(old)
          BY <5>1, <4>2, <2>2, <1>4, CodesOfKeys
        <5> QED BY <5>1, <5>2
      <4> QED BY <4>1, <4>2, <2>2
    <3> QED BY <3>1 DEF KeysChanged
  <2>5. ASSUME NEW c \in B, c \notin SharedCodes PROVE ~(c \in Codes(old) <=> c \in Codes(new))
    <3>1. PICK k \in (Down(old) \ Down(new)) \cup (Down(new) \ Down(old)) : c = hid_to_bsp_scancode[k]
      BY DEF KeysChanged
    <3> QED BY <3>1, <2>5, <1>4, CodesOfKeys
  <2>3. \A c \in AllCodes : c \in Modifiers \/ \E k \in Usages : c = hid_to_bsp_scancode[k]
    BY DEF AllCodes, Modifiers
  <2>4. A \subseteq Modifiers
    BY DEF ModifiersChanged
  <2> HIDE DEF A, B
  <2> QED BY <2>1, <2>2, <2>3, <2>4, <2>5, <1>5
<1> HIDE DEF a, b, A, B, e
<1>8. Scancodes \subseteq Events
  BY DEF Events
<1>9. Spells(a, Events, A, new)
  BY <1>1, <1>8, SpellsMore
<1>10. Spells(e, Events, A \cup B, new)
  BY <1>2, <1>3, <1>6, <1>9, ConcatSpells
<1>11. ASSUME NEW i \in 1..Len(e), NEW j \in 1..Len(e), e[i].type # "SCANCODE", e[j].type = "SCANCODE", i < j
       PROVE  e[j].code \notin Modifiers
  <2>1. a \in Seq(Events) /\ a \in Seq(Scancodes) /\ b \in Seq(Events) /\ Len(a) \in Nat /\ Len(b) \in Nat
    BY <1>1, <1>2, <1>9 DEF Spells
  <2>2. Len(e) = Len(a) + Len(b) /\ \A x \in 1..Len(a) + Len(b) : e[x] = IF x <= Len(a) THEN a[x] ELSE b[x - Len(a)]
    BY <1>3, <2>1, ConcatProperties
  <2>3. \A x \in 1..Len(a) : a[x].type = "SCANCODE"
    <3>1. \A x \in 1..Len(a) : a[x] \in Scancodes
      BY <2>1
    <3> QED BY <3>1 DEF Scancodes
  <2>4. ~(i <= Len(a))
    <3> SUFFICES ASSUME i <= Len(a) PROVE FALSE
      OBVIOUS
    <3>1. i \in 1..Len(a) /\ e[i] = a[i]
      BY <2>1, <2>2
    <3> QED BY <3>1, <2>3, <1>11
  <2>5. ~(j <= Len(a)) /\ j - Len(a) \in 1..Len(b)
    BY <2>1, <2>2, <2>4, <1>11
  <2>6. e[j] = b[j - Len(a)]
    BY <2>2, <2>5
  <2>7. e[j].code \in B
    BY <2>5, <2>6, <1>2, <1>11 DEF Spells
  <2> QED BY <2>7, <1>5 DEF B
<1>12. \A i, j \in 1..Len(e) : e[i].type # "SCANCODE" /\ e[j].type = "SCANCODE" /\ i < j => e[j].code \notin Modifiers
  BY <1>11
<1> DEFINE C == A \cup B
<1>13. /\ Spells(e, Events, C, new) /\ C \subseteq AllCodes
       /\ \A c \in AllCodes : ~(c \in Codes(old) <=> c \in Codes(new)) => c \in C
       /\ \A c \in C \ SharedCodes : ~(c \in Codes(old) <=> c \in Codes(new))
       /\ \A i, j \in 1..Len(e) : e[i].type # "SCANCODE" /\ e[j].type = "SCANCODE" /\ i < j => e[j].code \notin Modifiers
  BY <1>7, <1>10, <1>12
<1> HIDE DEF C
<1> QED BY <1>13 DEF e
-----------------------------------------------------------------------------
(* What is down after each of some events *)

\* f tells what is down after each event of s, starting from D.
Track(f, D, s) == f = [i \in 0 .. Len(s) |-> IF i = 0 THEN D ELSE After(f[i - 1], s[i])]

\* There is a function that tells what is down after each event.
LEMMA TrackExists ==
  ASSUME NEW s, NEW D, Len(s) \in Nat
  PROVE  \E f : Track(f, D, s)
<1> DEFINE Tr(f, m) == f = [i \in 0..m |-> IF i = 0 THEN D ELSE After(f[i - 1], s[i])]
           T == {m \in Nat : \E f : Tr(f, m)}
<1>1. 0 \in T
  <2> DEFINE f == [i \in 0..0 |-> D]
  <2>1. \A i \in 0..0 : i = 0
    OBVIOUS
  <2>2. Tr(f, 0)
    BY <2>1
  <2> HIDE DEF Tr
  <2> QED BY <2>2
<1>2. ASSUME NEW m \in Nat, m \in T PROVE m + 1 \in T
  <2>1. PICK f : Tr(f, m)
    BY <1>2
  <2> DEFINE h == [i \in 0..m + 1 |-> IF i = m + 1 THEN After(f[m], s[i]) ELSE f[i]]
  <2>2. \A i \in 0..m + 1 : /\ i = m + 1 => i # 0 /\ i - 1 = m /\ i - 1 \in 0..m + 1 /\ i - 1 # m + 1
                            /\ i # m + 1 => i \in 0..m /\ (i # 0 => i - 1 \in 0..m + 1 /\ i - 1 # m + 1)
    OBVIOUS
  <2>3. \A i \in 0..m : f[i] = IF i = 0 THEN D ELSE After(f[i - 1], s[i])
    BY <2>1, Zenon
  <2>4. /\ \A i \in 0..m + 1 : h[i] = IF i = m + 1 THEN After(f[m], s[i]) ELSE f[i]
        /\ h = [i \in 0..m + 1 |-> h[i]]
    BY Zenon
  <2> HIDE DEF h
  <2>5. \A i \in 0..m + 1 : h[i] = IF i = 0 THEN D ELSE After(h[i - 1], s[i])
    <3> TAKE i \in 0..m + 1
    <3>1. CASE i = m + 1
      <4>1. h[i] = After(f[m], s[i]) /\ h[i - 1] = f[m] /\ i # 0
        BY <3>1, <2>2, <2>4, Zenon
      <4> QED BY <4>1, Zenon
    <3>2. CASE i # m + 1
      <4>1. h[i] = f[i] /\ (i # 0 => h[i - 1] = f[i - 1]) /\ i \in 0..m
        BY <3>2, <2>2, <2>4, Zenon
      <4> QED BY <4>1, <2>3, Zenon
    <3> QED BY <3>1, <3>2
  <2>6. Tr(h, m + 1)
    BY <2>4, <2>5, Zenon
  <2> HIDE DEF Tr
  <2>7. m + 1 \in Nat
    OBVIOUS
  <2> QED BY <2>6, <2>7
<1>3. Len(s) \in T
  <2> HIDE DEF T
  <2> QED BY <1>1, <1>2, NatInSet
<1>4. PICK f : Tr(f, Len(s))
  <2> HIDE DEF Tr
  <2> QED BY <1>3
<1>5. Track(f, D, s)
  BY <1>4 DEF Track
<1> QED BY <1>5

\* The one that is chosen tells it.
LEMMA TrackChosen ==
  ASSUME NEW s \in Seq(Events), NEW D
  PROVE  LET f == CHOOSE g : Track(g, D, s)
         IN  f[0] = D /\ \A i \in 1..Len(s) : f[i] = After(f[i - 1], s[i])
<1> DEFINE f == CHOOSE g : Track(g, D, s)
<1>1. Len(s) \in Nat
  OBVIOUS
<1>2. \E g : Track(g, D, s)
  BY <1>1, TrackExists
<1>3. Track(f, D, s)
  BY <1>2, Zenon
<1> HIDE DEF f
<1>4. f[0] = D
  BY <1>1, <1>3 DEF Track
<1>5. \A i \in 1..Len(s) : i \in 0..Len(s) /\ i # 0
  BY <1>1
<1>6. \A i \in 1..Len(s) : f[i] = After(f[i - 1], s[i])
  BY <1>3, <1>5, Zenon DEF Track
<1> QED BY <1>4, <1>6 DEF f

\* f is such a function, without its definition.
Follows(f, D, s) == f[0] = D /\ \A i \in 1..Len(s) : f[i] = After(f[i - 1], s[i])

\* An event moves the scancode that it is about, and no other.
LEMMA AfterEvent ==
  ASSUME NEW e \in Events, NEW S, NEW c
  PROVE  /\ About(e, c) => (c \in After(S, e) <=> e.pressed)
         /\ ~About(e, c) => (c \in After(S, e) <=> c \in S)
<1>1. e.type = "SCANCODE" => Code(e) = {e.code}
  BY DEF Code
<1>2. e.type # "SCANCODE" => Code(e) = {}
  BY DEF Code
<1>3. e.type = "SCANCODE" /\ e.pressed => After(S, e) = S \cup Code(e)
  BY DEF After
<1>4. ~(e.type = "SCANCODE" /\ e.pressed) => After(S, e) = S \ Code(e)
  BY DEF After
<1> QED BY <1>1, <1>2, <1>3, <1>4 DEF About

\* f and g follow n events that are the same from the places a and b on, and agree there on c.
Alike(f, D, s, a, g, E, t, b, n, c) ==
  /\ s \in Seq(Events) /\ t \in Seq(Events) /\ Follows(f, D, s) /\ Follows(g, E, t)
  /\ a \in Nat /\ b \in Nat /\ n \in Nat /\ a + n <= Len(s) /\ b + n <= Len(t)
  /\ \A x \in 1..n : s[a + x] = t[b + x]
  /\ c \in f[a] <=> c \in g[b]

\* From where two functions agree on c, they agree as long as the events do.
LEMMA SameTrack ==
  ASSUME NEW s, NEW t, NEW f, NEW g, NEW D, NEW E, NEW a, NEW b, NEW n, NEW c,
         Alike(f, D, s, a, g, E, t, b, n, c)
  PROVE  \A x \in 0..n : c \in f[a + x] <=> c \in g[b + x]
<1>a. /\ s \in Seq(Events) /\ t \in Seq(Events) /\ Follows(f, D, s) /\ Follows(g, E, t)
      /\ a \in Nat /\ b \in Nat /\ n \in Nat /\ a + n <= Len(s) /\ b + n <= Len(t)
      /\ \A x \in 1..n : s[a + x] = t[b + x]
      /\ c \in f[a] <=> c \in g[b]
  BY DEF Alike
<1> DEFINE T == {x \in Nat : x \in 0..n => (c \in f[a + x] <=> c \in g[b + x])}
<1>0. Len(s) \in Nat /\ Len(t) \in Nat
  BY <1>a
<1>1. 0 \in T
  <2>1. a + 0 = a /\ b + 0 = b
    BY <1>a
  <2> QED BY <2>1, <1>a
<1>2. ASSUME NEW x \in Nat, x \in T PROVE x + 1 \in T
  <2> SUFFICES ASSUME x + 1 \in 0..n PROVE c \in f[a + (x + 1)] <=> c \in g[b + (x + 1)]
    OBVIOUS
  <2> DEFINE i == a + (x + 1)
             j == b + (x + 1)
  <2>1. /\ x \in 0..n /\ x + 1 \in 1..n /\ i \in 1..Len(s) /\ j \in 1..Len(t)
        /\ i - 1 = a + x /\ j - 1 = b + x
    BY <1>0, <1>a
  <2>2. c \in f[a + x] <=> c \in g[b + x]
    BY <1>2, <2>1
  <2>3. s[i] = t[j] /\ s[i] \in Events
    <3>1. \A y \in 1..n : s[a + y] = t[b + y]
      BY <1>a
    <3>2. s[i] = t[j]
      BY <2>1, <3>1
    <3>3. s \in Seq(Events)
      BY <1>a
    <3> HIDE DEF i, j
    <3> QED BY <2>1, <3>2, <3>3
  <2>4. f[i] = After(f[a + x], s[i]) /\ g[j] = After(g[b + x], s[i])
    <3>1. f[i] = After(f[i - 1], s[i]) /\ g[j] = After(g[j - 1], t[j])
      BY <2>1, <1>a, Zenon DEF Follows
    <3> QED BY <3>1, <2>1, <2>3, Zenon
  <2> HIDE DEF i, j
  <2>5. c \in f[i] <=> c \in g[j]
    BY <2>2, <2>3, <2>4, AfterEvent
  <2> QED BY <2>5 DEF i, j
<1>3. Nat \subseteq T
  <2> HIDE DEF T
  <2> QED BY <1>1, <1>2, NatInSet
<1> QED BY <1>3

\* Events about others leave c where it is.
LEMMA Untouched ==
  ASSUME NEW s \in Seq(Events), NEW f, NEW D, Follows(f, D, s), NEW i \in 0..Len(s), NEW j \in i..Len(s),
         NEW c, \A k \in i + 1..j : ~About(s[k], c)
  PROVE  c \in f[j] <=> c \in f[i]
<1> DEFINE T == {x \in Nat : i + x <= j => (c \in f[i + x] <=> c \in f[i])}
<1>0. Len(s) \in Nat /\ i \in Nat /\ j \in Nat
  OBVIOUS
<1>1. 0 \in T
  BY <1>0
<1>2. ASSUME NEW x \in Nat, x \in T PROVE x + 1 \in T
  <2> SUFFICES ASSUME i + (x + 1) <= j PROVE c \in f[i + (x + 1)] <=> c \in f[i]
    OBVIOUS
  <2> DEFINE k == i + (x + 1)
  <2>1. k \in 1..Len(s) /\ k - 1 = i + x /\ k \in i + 1..j /\ i + x <= j
    BY <1>0
  <2>2. c \in f[i + x] <=> c \in f[i]
    BY <1>2, <2>1
  <2>3. s[k] \in Events /\ ~About(s[k], c)
    BY <2>1
  <2>4. f[k] = After(f[i + x], s[k])
    <3>1. f[k] = After(f[k - 1], s[k])
      BY <2>1, Zenon DEF Follows
    <3> QED BY <3>1, <2>1, Zenon
  <2> HIDE DEF k
  <2>5. c \in f[k] <=> c \in f[i]
    BY <2>2, <2>3, <2>4, AfterEvent
  <2> QED BY <2>5 DEF k
<1>3. Nat \subseteq T
  <2> HIDE DEF T
  <2> QED BY <1>1, <1>2, NatInSet
<1>4. j - i \in Nat /\ i + (j - i) = j
  BY <1>0
<1>5. j - i \in T
  BY <1>3, <1>4
<1> HIDE DEF T
<1>6. i + (j - i) <= j => (c \in f[i + (j - i)] <=> c \in f[i])
  BY <1>5 DEF T
<1> QED BY <1>4, <1>6, <1>0
\* What is up stays up while no event presses it.
LEMMA StaysUp ==
  ASSUME NEW s \in Seq(Events), NEW f, NEW D, Follows(f, D, s), NEW i \in 0..Len(s), NEW j \in i..Len(s),
         NEW c, c \notin f[i], \A k \in i + 1..j : About(s[k], c) => ~s[k].pressed
  PROVE  c \notin f[j]
<1> DEFINE T == {x \in Nat : i + x <= j => c \notin f[i + x]}
<1>0. Len(s) \in Nat /\ i \in Nat /\ j \in Nat
  OBVIOUS
<1>1. 0 \in T
  BY <1>0
<1>2. ASSUME NEW x \in Nat, x \in T PROVE x + 1 \in T
  <2> SUFFICES ASSUME i + (x + 1) <= j PROVE c \notin f[i + (x + 1)]
    OBVIOUS
  <2> DEFINE k == i + (x + 1)
  <2>1. k \in 1..Len(s) /\ k - 1 = i + x /\ k \in i + 1..j /\ i + x <= j
    BY <1>0
  <2>2. c \notin f[i + x]
    BY <1>2, <2>1
  <2>3. s[k] \in Events /\ (About(s[k], c) => ~s[k].pressed)
    BY <2>1
  <2>4. f[k] = After(f[i + x], s[k])
    <3>1. f[k] = After(f[k - 1], s[k])
      BY <2>1, Zenon DEF Follows
    <3> QED BY <3>1, <2>1, Zenon
  <2> HIDE DEF k
  <2>5. c \notin f[k]
    BY <2>2, <2>3, <2>4, AfterEvent
  <2> QED BY <2>5 DEF k
<1>3. Nat \subseteq T
  <2> HIDE DEF T
  <2> QED BY <1>1, <1>2, NatInSet
<1>4. j - i \in Nat /\ i + (j - i) = j
  BY <1>0
<1>5. j - i \in T
  BY <1>3, <1>4
<1> HIDE DEF T
<1>6. i + (j - i) <= j => c \notin f[i + (j - i)]
  BY <1>5 DEF T
<1> QED BY <1>4, <1>6, <1>0
-----------------------------------------------------------------------------
(* The events in flight *)

StreamOK == queue \in Seq(Events) /\ todo \in Seq(Events)
HInv == TypeOK /\ StreamOK

reported == Codes(IF pc = "idle" THEN prev ELSE cur)
NotPending(s, c) == \A i \in 1..Len(s) : ~About(s[i], c)

\* The two parts of Replay, and ModifiersAgree, scancode by scancode.
Right(c, D, R) == (c \in D => c \in R) /\ (c \in SharedCodes \/ (c \in R => c \in D))
FinalInv ==
  \A c \in AllCodes : (c \in adrift /\ NotPending(todo, c)) \/ Right(c, DownAfter[Len(Stream)], reported)
AlternateInv ==
  \A i \in 1..Len(Stream) : \A c :
    About(Stream[i], c) /\ c \notin lost /\ c \notin SharedCodes => (c \in DownAfter[i - 1] <=> ~Stream[i].pressed)
ModifierInv ==
  \A i \in 1..Len(Stream) : Stream[i].type # "SCANCODE" =>
    \A c : c \notin lost => (c \in Stream[i].mods <=> c \in DownAfter[i - 1] /\ c \in Modifiers)

RInv == FinalInv /\ AlternateInv /\ ModifierInv

\* The events in flight are those of the queue, then those still to inject.
LEMMA StreamFacts ==
  ASSUME StreamOK
  PROVE  /\ Stream \in Seq(Events) /\ Len(Stream) = Len(queue) + Len(todo) /\ Len(Stream) \in Nat
         /\ Len(queue) \in Nat /\ Len(todo) \in Nat
         /\ \A i \in 1..Len(queue) : i \in 1..Len(Stream) /\ Stream[i] = queue[i]
         /\ \A i \in 1..Len(todo) : Len(queue) + i \in 1..Len(Stream) /\ Stream[Len(queue) + i] = todo[i]
         /\ \A i \in 1..Len(Stream) : i > Len(queue) => i - Len(queue) \in 1..Len(todo) /\ Stream[i] = todo[i - Len(queue)]
         /\ Follows(DownAfter, appDown, Stream)
<1>1. queue \in Seq(Events) /\ todo \in Seq(Events) /\ Len(queue) \in Nat /\ Len(todo) \in Nat
  BY DEF StreamOK
<1>2. /\ Stream \in Seq(Events) /\ Len(Stream) = Len(queue) + Len(todo)
      /\ \A i \in 1..Len(queue) + Len(todo) : Stream[i] = IF i <= Len(queue) THEN queue[i] ELSE todo[i - Len(queue)]
  BY <1>1, ConcatProperties DEF Stream
<1>3. Follows(DownAfter, appDown, Stream)
  <2> DEFINE s == Stream
             f == CHOOSE g : Track(g, appDown, s)
  <2>1. DownAfter = f
    BY Zenon DEF DownAfter, Track
  <2> HIDE DEF s
  <2>2. f[0] = appDown /\ \A i \in 1..Len(s) : f[i] = After(f[i - 1], s[i])
    BY <1>2, TrackChosen DEF s
  <2> QED BY <2>1, <2>2, Zenon DEF Follows, s
<1>4. /\ \A i \in 1..Len(queue) : i \in 1..Len(queue) + Len(todo) /\ i <= Len(queue)
      /\ \A i \in 1..Len(todo) : /\ Len(queue) + i \in 1..Len(queue) + Len(todo) /\ ~(Len(queue) + i <= Len(queue))
                                 /\ (Len(queue) + i) - Len(queue) = i
      /\ \A i \in 1..Len(queue) + Len(todo) : i > Len(queue) => ~(i <= Len(queue)) /\ i - Len(queue) \in 1..Len(todo)
  BY <1>1
<1>5. \A i \in 1..Len(queue) : i \in 1..Len(Stream) /\ Stream[i] = queue[i]
  BY <1>2, <1>4, Zenon
<1>6. \A i \in 1..Len(todo) : Len(queue) + i \in 1..Len(Stream) /\ Stream[Len(queue) + i] = todo[i]
  BY <1>2, <1>4, Zenon
<1>7. \A i \in 1..Len(Stream) : i > Len(queue) => i - Len(queue) \in 1..Len(todo) /\ Stream[i] = todo[i - Len(queue)]
  BY <1>2, <1>4, Zenon
<1>8. Len(Stream) \in Nat
  BY <1>1, <1>2
<1> QED BY <1>1, <1>2, <1>3, <1>5, <1>6, <1>7, <1>8

\* The same of the next state.
LEMMA StreamFactsNext == StreamOK' => Stream' \in Seq(Events) /\ Follows(DownAfter', appDown', Stream')
<1> SUFFICES ASSUME StreamOK' PROVE Stream' \in Seq(Events) /\ Follows(DownAfter', appDown', Stream')
  OBVIOUS
<1>1. queue' \in Seq(Events) /\ todo' \in Seq(Events)
  BY DEF StreamOK
<1>2. Stream' \in Seq(Events)
  BY <1>1, ConcatProperties DEF Stream
<1> DEFINE s == Stream'
           D == appDown'
           f == CHOOSE g : Track(g, D, s)
<1>3. DownAfter' = f
  BY Zenon DEF DownAfter, Track
<1> HIDE DEF s, D
<1>4. f[0] = D /\ \A i \in 1..Len(s) : f[i] = After(f[i - 1], s[i])
  BY <1>2, TrackChosen DEF s
<1> QED BY <1>2, <1>3, <1>4, Zenon DEF Follows, s, D

\* A step that leaves the events in flight as they are.
LEMMA SameStream ==
  ASSUME Stream' = Stream, appDown' = appDown
  PROVE  DownAfter' = DownAfter
BY DEF DownAfter

\* A step that touches neither events nor reports.
LEMMA QuietRInv ==
  ASSUME RInv, Stream' = Stream, appDown' = appDown, lost' = lost, reported' = reported,
         \A c \in AllCodes : c \in adrift /\ NotPending(todo, c) => c \in adrift' /\ NotPending(todo', c)
  PROVE  RInv'
<1>1. DownAfter' = DownAfter
  BY SameStream
<1>2. FinalInv'
  BY <1>1 DEF RInv, FinalInv
<1>3. AlternateInv'
  BY <1>1 DEF RInv, AlternateInv
<1>4. ModifierInv'
  BY <1>1 DEF RInv, ModifierInv
<1> QED BY <1>2, <1>3, <1>4 DEF RInv

\* The head and the tail of a sequence of events.
LEMMA HeadTail ==
  ASSUME NEW s \in Seq(Events), s # <<>>
  PROVE  /\ Head(s) = s[1] /\ Head(s) \in Events /\ 1 \in 1..Len(s) /\ Len(s) \in Nat \ {0}
         /\ Tail(s) \in Seq(Events) /\ Len(Tail(s)) = Len(s) - 1 /\ Len(Tail(s)) \in Nat
         /\ \A i \in 1..Len(s) - 1 : Tail(s)[i] = s[i + 1]
<1>1. Len(s) \in Nat \ {0}
  OBVIOUS
<1>2. /\ Head(s) = s[1] /\ Head(s) \in Events
      /\ Tail(s) \in Seq(Events) /\ Len(Tail(s)) = Len(s) - 1
      /\ \A i \in 1..Len(Tail(s)) : Tail(s)[i] = s[i + 1]
  BY HeadTailProperties
<1> QED BY <1>1, <1>2

\* What is pending behind the head is pending.
LEMMA PendingTail ==
  ASSUME NEW s \in Seq(Events), s # <<>>, NEW c
  PROVE  NotPending(s, c) <=> ~About(Head(s), c) /\ NotPending(Tail(s), c)
<1>1. \A i \in 1..Len(s) : i = 1 \/ (i - 1 \in 1..Len(s) - 1 /\ (i - 1) + 1 = i)
  BY HeadTail
<1>2. \A i \in 1..Len(s) - 1 : i + 1 \in 1..Len(s)
  BY HeadTail
<1>3. NotPending(s, c) => ~About(Head(s), c) /\ NotPending(Tail(s), c)
  BY <1>2, HeadTail DEF NotPending
<1>4. ASSUME ~About(Head(s), c), NotPending(Tail(s), c), NEW i \in 1..Len(s) PROVE ~About(s[i], c)
  <2>1. CASE i = 1
    BY <2>1, <1>4, HeadTail
  <2>2. CASE i # 1
    <3>1. i - 1 \in 1..Len(s) - 1 /\ (i - 1) + 1 = i /\ Len(Tail(s)) = Len(s) - 1
      BY <2>2, <1>1, HeadTail
    <3>2. Tail(s)[i - 1] = s[i]
      BY <3>1, HeadTail
    <3> QED BY <3>1, <3>2, <1>4 DEF NotPending
  <2> QED BY <2>1, <2>2
<1> QED BY <1>3, <1>4 DEF NotPending

\* An event that the queue has room for stays in flight.
LEMMA WrittenRInv ==
  ASSUME HInv, RInv, Inject, Len(queue) < QueueCap
  PROVE  RInv' /\ queue' = Append(queue, Head(todo))
<1>0. queue \in Seq(Events) /\ todo \in Seq(Events) /\ todo # <<>> /\ Len(queue) \in Nat
  BY DEF HInv, StreamOK, Inject
<1> DEFINE e == Head(todo)
<1>1. /\ todo' = Tail(todo) /\ queue' = Append(queue, e) /\ adrift' = adrift \ Code(e)
      /\ UNCHANGED <<lost, pc, prev, cur, appDown>>
  BY <1>0 DEF Inject, Write
<1>2. Stream' = Stream
  <2>1. /\ queue' \in Seq(Events) /\ Len(queue') = Len(queue) + 1 /\ queue'[Len(queue) + 1] = e
        /\ \A i \in 1..Len(queue) : queue'[i] = queue[i]
    BY <1>0, <1>1, HeadTail, AppendProperties
  <2>2. /\ todo' \in Seq(Events) /\ Len(todo') = Len(todo) - 1 /\ Len(todo) \in Nat \ {0} /\ e = todo[1]
        /\ \A i \in 1..Len(todo) - 1 : todo'[i] = todo[i + 1]
    BY <1>0, <1>1, HeadTail
  <2> DEFINE q == Len(queue)
             n == Len(todo)
             s == queue \o todo
             t == queue' \o todo'
  <2>3. s \in Seq(Events) /\ Len(s) = q + n /\ \A i \in 1..q + n : s[i] = IF i <= q THEN queue[i] ELSE todo[i - q]
    BY <1>0, ConcatProperties
  <2>4. /\ t \in Seq(Events) /\ Len(t) = (q + 1) + (n - 1)
        /\ \A i \in 1..(q + 1) + (n - 1) : t[i] = IF i <= q + 1 THEN queue'[i] ELSE todo'[i - (q + 1)]
    <3>1. queue' \in Seq(Events) /\ todo' \in Seq(Events) /\ Len(queue') = q + 1 /\ Len(todo') = n - 1
      BY <2>1, <2>2
    <3>2. /\ t \in Seq(Events) /\ Len(t) = Len(queue') + Len(todo')
          /\ \A i \in 1..Len(queue') + Len(todo') :
               t[i] = IF i <= Len(queue') THEN queue'[i] ELSE todo'[i - Len(queue')]
      BY <3>1, ConcatProperties
    <3> HIDE DEF t, q, n
    <3> QED BY <3>1, <3>2, Zenon
  <2> HIDE DEF s, t, q, n, e
  <2>5. q \in Nat /\ n \in Nat \ {0} /\ (q + 1) + (n - 1) = q + n
    BY <1>0, <2>2 DEF q, n
  <2>6. \A i \in 1..q + n : s[i] = t[i]
    <3> TAKE i \in 1..q + n
    <3>1. CASE i <= q
      <4>1. i \in 1..q /\ i <= q + 1
        BY <3>1, <2>5
      <4> QED BY <3>1, <4>1, <2>1, <2>3, <2>4, <2>5 DEF q
    <3>2. CASE i = q + 1
      <4>1. ~(i <= q) /\ i - q = 1 /\ i <= q + 1
        BY <3>2, <2>5
      <4> QED BY <3>2, <4>1, <2>1, <2>2, <2>3, <2>4, <2>5 DEF q
    <3>3. CASE ~(i <= q + 1)
      <4>1. ~(i <= q) /\ i - (q + 1) \in 1..n - 1 /\ (i - (q + 1)) + 1 = i - q
        BY <3>3, <2>5
      <4> QED BY <3>3, <4>1, <2>2, <2>3, <2>4, <2>5 DEF n
    <3> QED BY <3>1, <3>2, <3>3, <2>5
  <2>7. s = t
    BY <2>3, <2>4, <2>5, <2>6, SeqEqual
  <2> QED BY <2>7 DEF Stream, s, t
<1>3. reported' = reported
  BY <1>1 DEF reported
<1>4. ASSUME NEW c \in AllCodes, c \in adrift, NotPending(todo, c) PROVE c \in adrift' /\ NotPending(todo', c)
  <2>1. ~About(e, c) /\ NotPending(todo', c) /\ e \in Events
    BY <1>0, <1>1, <1>4, PendingTail, HeadTail
  <2> QED BY <2>1, <1>1, <1>4, EventTypes
<1> QED BY <1>1, <1>2, <1>3, <1>4, QuietRInv

\* The events in flight move up by one: those before the place p stay, those behind it
\* follow, and what one of them finds down is what it found.
Moved(p, c) ==
  /\ Len(Stream') = Len(Stream) - 1
  /\ \A i \in 1..Len(Stream') :
       LET j == IF i < p THEN i ELSE i + 1
       IN  /\ j \in 1..Len(Stream) /\ Stream'[i] = Stream[j]
           /\ c \in DownAfter'[i - 1] <=> c \in DownAfter[j - 1]

\* Events that move up keep what they say of scancodes that lost none.
LEMMA MovedRInv ==
  ASSUME RInv, NEW p, lost \subseteq lost', \A c : c \notin lost' => Moved(p, c)
  PROVE  AlternateInv' /\ ModifierInv'
<1>1. ASSUME NEW i \in 1..Len(Stream'), NEW c, About(Stream'[i], c), c \notin lost', c \notin SharedCodes
      PROVE  c \in DownAfter'[i - 1] <=> ~Stream'[i].pressed
  <2> DEFINE j == IF i < p THEN i ELSE i + 1
  <2>1. j \in 1..Len(Stream) /\ Stream'[i] = Stream[j] /\ (c \in DownAfter'[i - 1] <=> c \in DownAfter[j - 1])
    BY <1>1 DEF Moved
  <2> HIDE DEF j
  <2> QED BY <1>1, <2>1 DEF RInv, AlternateInv
<1>2. ASSUME NEW i \in 1..Len(Stream'), NEW c, Stream'[i].type # "SCANCODE", c \notin lost'
      PROVE  c \in Stream'[i].mods <=> c \in DownAfter'[i - 1] /\ c \in Modifiers
  <2> DEFINE j == IF i < p THEN i ELSE i + 1
  <2>1. j \in 1..Len(Stream) /\ Stream'[i] = Stream[j] /\ (c \in DownAfter'[i - 1] <=> c \in DownAfter[j - 1])
    BY <1>2 DEF Moved
  <2> HIDE DEF j
  <2> QED BY <1>2, <2>1 DEF RInv, ModifierInv
<1> QED BY <1>1, <1>2 DEF AlternateInv, ModifierInv
-----------------------------------------------------------------------------
(* The steps that change them *)

\* The app reads the oldest event.
LEMMA ReceivedRInv ==
  ASSUME HInv, RInv, Receive, StreamOK'
  PROVE  RInv'
<1> DEFINE s == Stream
           t == Stream'
           f == DownAfter
           g == DownAfter'
           n == Len(todo)
           q == Len(queue)
           e == Head(queue)
<1>1. /\ queue \in Seq(Events) /\ todo \in Seq(Events) /\ queue # <<>> /\ queue' = Tail(queue) /\ todo' = todo
      /\ appDown' = After(appDown, e) /\ UNCHANGED <<lost, adrift, pc, prev, cur>>
  BY DEF HInv, StreamOK, Receive, drops
<1>2. /\ e = queue[1] /\ q \in Nat \ {0} /\ Len(queue') = q - 1 /\ 1 \in 1..q /\ e \in Events
      /\ \A i \in 1..q - 1 : queue'[i] = queue[i + 1]
  BY <1>1, HeadTail
<1>3. /\ s \in Seq(Events) /\ Len(s) = q + n /\ n \in Nat /\ Follows(f, appDown, s)
      /\ \A i \in 1..q : i \in 1..q + n /\ s[i] = queue[i]
      /\ \A i \in 1..n : q + i \in 1..q + n /\ s[q + i] = todo[i]
  BY StreamFacts DEF HInv
<1>4. t \in Seq(Events) /\ Follows(g, appDown', t)
  BY StreamFactsNext
<1>5. /\ Len(t) = (q - 1) + n
      /\ \A i \in 1..(q - 1) + n : t[i] = IF i <= q - 1 THEN queue'[i] ELSE todo[i - (q - 1)]
  <2>1. queue' \in Seq(Events) /\ Len(queue') = q - 1
    BY <1>1, <1>2, HeadTail
  <2>2. /\ Len(queue' \o todo) = Len(queue') + n
        /\ \A i \in 1..Len(queue') + n : (queue' \o todo)[i] = IF i <= Len(queue') THEN queue'[i] ELSE todo[i - Len(queue')]
    BY <1>1, <2>1, ConcatProperties
  <2>3. t = queue' \o todo
    BY <1>1 DEF Stream
  <2> HIDE DEF t, n, q
  <2> QED BY <2>1, <2>2, <2>3, Zenon
<1> HIDE DEF s, t, f, g, n, q, e
<1>6. \A i \in 1..Len(t) : t[i] = s[i + 1] /\ i + 1 \in 1..Len(s)
  <2> TAKE i \in 1..Len(t)
  <2>1. CASE i <= q - 1
    <3>1. i \in 1..q - 1 /\ i + 1 \in 1..q
      BY <2>1, <1>2, <1>3, <1>5
    <3> QED BY <2>1, <3>1, <1>2, <1>3, <1>5
  <2>2. CASE ~(i <= q - 1)
    <3>1. i - (q - 1) \in 1..n /\ q + (i - (q - 1)) = i + 1
      BY <2>2, <1>2, <1>3, <1>5
    <3> QED BY <2>2, <3>1, <1>2, <1>3, <1>5
  <2> QED BY <2>1, <2>2
<1>7. f[1] = g[0]
  <2>1. 1 \in 1..Len(s) /\ 1 - 1 = 0
    BY <1>2, <1>3
  <2>2. f[1] = After(f[1 - 1], s[1]) /\ f[0] = appDown /\ g[0] = appDown'
    BY <2>1, <1>3, <1>4, Zenon DEF Follows
  <2>3. s[1] = e
    BY <1>2, <1>3
  <2> QED BY <2>1, <2>2, <2>3, <1>1 DEF e
<1>8. ASSUME NEW c PROVE \A x \in 0..Len(t) : c \in f[x + 1] <=> c \in g[x]
  <2>1. /\ 1 + Len(t) <= Len(s) /\ 0 + Len(t) <= Len(t) /\ Len(t) \in Nat /\ 1 \in Nat /\ 0 \in Nat
        /\ \A x \in 1..Len(t) : s[1 + x] = t[0 + x]
    BY <1>2, <1>3, <1>5, <1>6
  <2>4. s \in Seq(Events) /\ t \in Seq(Events) /\ Follows(f, appDown, s) /\ Follows(g, appDown', t) /\ (c \in f[1] <=> c \in g[0])
    BY <1>3, <1>4, <1>7, Zenon
  <2>5. Alike(f, appDown, s, 1, g, appDown', t, 0, Len(t), c)
    BY ONLY <2>1, <2>4, Zenon DEF Alike
  <2>2. \A x \in 0..Len(t) : c \in f[1 + x] <=> c \in g[0 + x]
    BY ONLY <2>5, SameTrack, SMT
  <2>3. \A x \in 0..Len(t) : 1 + x = x + 1 /\ 0 + x = x
    OBVIOUS
  <2> QED BY <2>2, <2>3
<1>9. ASSUME NEW c PROVE Moved(1, c)
  <2>1. Len(t) = Len(s) - 1 /\ Len(t) \in Nat
    BY <1>2, <1>3, <1>5
  <2>2. ASSUME NEW i \in 1..Len(t)
        PROVE  /\ ~(i < 1) /\ i + 1 \in 1..Len(s) /\ t[i] = s[i + 1]
               /\ c \in g[i - 1] <=> c \in f[(i + 1) - 1]
    <3>1. i - 1 \in 0..Len(t) /\ (i - 1) + 1 = (i + 1) - 1 /\ ~(i < 1)
      OBVIOUS
    <3> QED BY <3>1, <1>6, <1>8
  <2> QED BY <2>1, <2>2 DEF Moved, s, t, f, g
<1>10. AlternateInv' /\ ModifierInv'
  BY <1>1, <1>9, MovedRInv
<1>11. FinalInv'
  <2>1. Len(t) \in 0..Len(t) /\ Len(t) + 1 = Len(s)
    BY <1>2, <1>3, <1>5
  <2>2. \A c : c \in g[Len(t)] <=> c \in f[Len(s)]
    BY <1>8, <2>1
  <2>3. reported' = reported
    BY <1>1 DEF reported
  <2> QED BY <1>1, <2>2, <2>3 DEF RInv, FinalInv, Right, f, g, s, t
<1> QED BY <1>10, <1>11 DEF RInv

\* The queue is full, and the oldest event still to inject is lost: what the events
\* behind it say is wrong for its scancode only, and until its next event only.
LEMMA LostRInv ==
  ASSUME HInv, RInv, Inject, Len(queue) = QueueCap, StreamOK'
  PROVE  RInv' /\ queue' = queue
<1> DEFINE s == Stream
           t == Stream'
           f == DownAfter
           g == DownAfter'
           n == Len(todo)
           q == Len(queue)
           e == Head(todo)
<1>1. /\ queue \in Seq(Events) /\ todo \in Seq(Events) /\ todo # <<>> /\ queue' = queue /\ todo' = Tail(todo)
      /\ appDown' = appDown /\ adrift' = adrift \cup Code(e) /\ lost' = lost \cup Code(e)
      /\ UNCHANGED <<pc, prev, cur>>
  <2>1. q \in Nat /\ q = QueueCap /\ ~(q < QueueCap)
    BY HidAssumption DEF HInv, StreamOK
  <2> HIDE DEF q, n
  <2> QED BY <2>1 DEF HInv, StreamOK, Inject, Write, q
<1>2. /\ e = todo[1] /\ e \in Events /\ n \in Nat \ {0} /\ Len(todo') = n - 1 /\ 1 \in 1..n /\ todo' \in Seq(Events)
      /\ \A i \in 1..n - 1 : todo'[i] = todo[i + 1]
  BY <1>1, HeadTail
<1>3. /\ s \in Seq(Events) /\ Len(s) = q + n /\ q \in Nat /\ Follows(f, appDown, s)
      /\ \A i \in 1..q : i \in 1..q + n /\ s[i] = queue[i]
      /\ \A i \in 1..n : q + i \in 1..q + n /\ s[q + i] = todo[i]
  BY StreamFacts DEF HInv
<1>4. t \in Seq(Events) /\ Follows(g, appDown, t)
  BY <1>1, StreamFactsNext
<1>5. /\ Len(t) = q + (n - 1)
      /\ \A i \in 1..q + (n - 1) : t[i] = IF i <= q THEN queue[i] ELSE todo'[i - q]
  <2>2. /\ Len(queue \o todo') = Len(queue) + Len(todo')
        /\ \A i \in 1..Len(queue) + Len(todo') :
             (queue \o todo')[i] = IF i <= Len(queue) THEN queue[i] ELSE todo'[i - Len(queue)]
    BY <1>1, <1>2, ConcatProperties
  <2>3. t = queue \o todo'
    BY <1>1 DEF Stream
  <2>4. Len(todo') = n - 1
    BY <1>2
  <2> HIDE DEF t, n
  <2> QED BY <2>2, <2>3, <2>4, Zenon
<1>6. \A c : c \in Code(e) <=> About(e, c)
  BY <1>2, EventTypes
<1> HIDE DEF s, t, f, g, n, q, e
<1>7. /\ \A i \in 1..q : t[i] = s[i] /\ i \in 1..Len(s)
      /\ \A i \in 1..n - 1 : t[q + i] = s[q + i + 1] /\ q + i + 1 \in 1..Len(s) /\ s[q + i + 1] = todo'[i]
      /\ s[q + 1] = e /\ q + 1 \in 1..Len(s)
  <2>1. ASSUME NEW i \in 1..q PROVE t[i] = s[i] /\ i \in 1..Len(s)
    <3>1. i \in 1..q + (n - 1) /\ i <= q
      BY <1>2, <1>3
    <3> QED BY <3>1, <1>3, <1>5
  <2>2. ASSUME NEW i \in 1..n - 1
        PROVE  t[q + i] = s[q + i + 1] /\ q + i + 1 \in 1..Len(s) /\ s[q + i + 1] = todo'[i]
    <3>1. q + i \in 1..q + (n - 1) /\ ~(q + i <= q) /\ (q + i) - q = i /\ i + 1 \in 1..n /\ q + (i + 1) = q + i + 1
      BY <1>2, <1>3
    <3>2. s[q + (i + 1)] = todo[i + 1] /\ q + (i + 1) \in 1..q + n /\ t[q + i] = todo'[(q + i) - q]
      BY <3>1, <1>3, <1>5, Zenon
    <3> QED BY <3>1, <3>2, <1>2, <1>3, Zenon
  <2>3. s[q + 1] = e /\ q + 1 \in 1..Len(s)
    BY <1>2, <1>3
  <2> QED BY <2>1, <2>2, <2>3
<1>8. ASSUME NEW c PROVE \A x \in 0..q : c \in f[x] <=> c \in g[x]
  <2>1. /\ 0 + q <= Len(s) /\ 0 + q <= Len(t) /\ 0 \in Nat /\ q \in Nat
        /\ \A x \in 1..q : s[0 + x] = t[0 + x]
    BY <1>2, <1>3, <1>5, <1>7
  <2>2. c \in f[0] <=> c \in g[0]
    BY <1>3, <1>4 DEF Follows
  <2>5. s \in Seq(Events) /\ t \in Seq(Events) /\ Follows(f, appDown, s) /\ Follows(g, appDown, t)
    BY <1>3, <1>4, Zenon
  <2>3. \A x \in 0..q : c \in f[0 + x] <=> c \in g[0 + x]
    <3>1. Alike(f, appDown, s, 0, g, appDown, t, 0, q, c)
      BY ONLY <2>1, <2>2, <2>5, Zenon DEF Alike
    <3> QED BY ONLY <3>1, SameTrack, SMT
  <2>4. \A x \in 0..q : 0 + x = x
    BY <1>3
  <2> QED BY <2>3, <2>4
\* From where they agree behind the lost event, the two agree to the end.
<1>9. ASSUME NEW c, NEW i \in 0..n - 1, c \in f[q + i + 1] <=> c \in g[q + i]
      PROVE  \A x \in i..n - 1 : c \in f[q + x + 1] <=> c \in g[q + x]
  <2> DEFINE a == q + i + 1
             b == q + i
             m == n - 1 - i
  <2>1. a \in Nat /\ b \in Nat /\ m \in Nat /\ a + m <= Len(s) /\ b + m <= Len(t)
    BY <1>2, <1>3, <1>5
  <2>2. \A x \in 1..m : s[a + x] = t[b + x]
    <3> TAKE x \in 1..m
    <3>1. i + x \in 1..n - 1 /\ a + x = q + (i + x) + 1 /\ b + x = q + (i + x)
      BY <1>2, <1>3
    <3> QED BY <3>1, <1>7, Zenon
  <2> HIDE DEF a, b, m
  <2>3. c \in f[a] <=> c \in g[b]
    BY <1>9 DEF a, b
  <2>6. s \in Seq(Events) /\ t \in Seq(Events) /\ Follows(f, appDown, s) /\ Follows(g, appDown, t)
    BY <1>3, <1>4, Zenon
  <2>4. \A x \in 0..m : c \in f[a + x] <=> c \in g[b + x]
    <3>1. Alike(f, appDown, s, a, g, appDown, t, b, m, c)
      BY ONLY <2>1, <2>2, <2>3, <2>6, Zenon DEF Alike
    <3> QED BY ONLY <3>1, SameTrack, SMT
  <2> TAKE x \in i..n - 1
  <2>5. x - i \in 0..m /\ a + (x - i) = q + x + 1 /\ b + (x - i) = q + x
    BY <1>2, <1>3 DEF a, b, m
  <2> QED BY <2>4, <2>5, Zenon
<1>10. ASSUME NEW c, ~About(e, c) PROVE \A x \in 0..n - 1 : c \in f[q + x + 1] <=> c \in g[q + x]
  <2>1. f[q + 1] = After(f[q], e)
    <3>1. (q + 1) - 1 = q
      BY <1>3
    <3>2. f[q + 1] = After(f[(q + 1) - 1], s[q + 1])
      BY <1>3, <1>7, Zenon DEF Follows
    <3> QED BY <3>1, <3>2, <1>7, Zenon
  <2>2. c \in f[q + 1] <=> c \in f[q]
    BY <2>1, <1>2, <1>10, AfterEvent
  <2>3. q \in 0..q /\ 0 \in 0..n - 1 /\ q + 0 + 1 = q + 1 /\ q + 0 = q
    BY <1>2, <1>3
  <2>4. c \in f[q + 0 + 1] <=> c \in g[q + 0]
    BY <2>2, <2>3, <1>8
  <2> QED BY <2>3, <2>4, <1>9
<1>11. ASSUME NEW c, c \notin lost' PROVE Moved(q + 1, c)
  <2>1. ~About(e, c)
    BY <1>1, <1>6, <1>11
  <2>2. Len(t) = Len(s) - 1 /\ Len(t) \in Nat
    BY <1>2, <1>3, <1>5
  <2>3. ASSUME NEW i \in 1..Len(t), i < q + 1
        PROVE  i \in 1..Len(s) /\ t[i] = s[i] /\ (c \in g[i - 1] <=> c \in f[i - 1])
    <3>1. i \in 1..q /\ i - 1 \in 0..q
      BY <2>3, <1>3
    <3> QED BY <3>1, <1>7, <1>8
  <2>4. ASSUME NEW i \in 1..Len(t), ~(i < q + 1)
        PROVE  i + 1 \in 1..Len(s) /\ t[i] = s[i + 1] /\ (c \in g[i - 1] <=> c \in f[(i + 1) - 1])
    <3> DEFINE y == i - q
    <3>0. i \in 1..q + (n - 1) /\ ~(i < q + 1) /\ q \in Nat /\ n \in Nat \ {0}
      BY <2>4, <1>2, <1>3, <1>5
    <3>1. y \in 1..n - 1 /\ q + y = i /\ q + y + 1 = i + 1
      BY ONLY <3>0, SMT
    <3>2. y - 1 \in 0..n - 1 /\ q + (y - 1) = i - 1 /\ q + (y - 1) + 1 = (i + 1) - 1
      BY <3>1, <1>2, <1>3
    <3> HIDE DEF y
    <3>3. i + 1 \in 1..Len(s) /\ t[i] = s[i + 1]
      BY <3>1, <1>7
    <3>4. c \in f[q + (y - 1) + 1] <=> c \in g[q + (y - 1)]
      BY <2>1, <3>2, <1>10, Zenon
    <3> QED BY <3>2, <3>3, <3>4, Zenon
  <2> QED BY <2>2, <2>3, <2>4 DEF Moved, s, t, f, g
<1>12. AlternateInv' /\ ModifierInv'
  BY <1>1, <1>11, MovedRInv
<1>13. FinalInv'
  <2>1. reported' = reported
    BY <1>1 DEF reported
  <2>2. Len(t) = q + (n - 1) /\ Len(s) = q + (n - 1) + 1 /\ n - 1 \in 0..n - 1
    BY <1>2, <1>3, <1>5
  <2>3. ASSUME NEW c \in AllCodes, ~(c \in adrift' /\ NotPending(todo', c))
        PROVE  Right(c, g[Len(t)], reported)
    <3>1. CASE ~About(e, c)
      <4>1. c \in f[Len(s)] <=> c \in g[Len(t)]
        BY <2>2, <3>1, <1>10
      <4>2. ~(c \in adrift /\ NotPending(todo, c))
        BY <2>3, <3>1, <1>1, PendingTail
      <4> QED BY <4>1, <4>2 DEF RInv, FinalInv, Right, f, s
    <3>2. CASE About(e, c)
      <4>1. c \in adrift' /\ ~NotPending(todo', c)
        BY <2>3, <3>2, <1>1, <1>6
      <4>2. ~NotPending(todo, c)
        BY <4>1, <1>1, PendingTail
      <4>3. Right(c, f[Len(s)], reported)
        BY <4>2 DEF RInv, FinalInv, f, s
      <4>4. PICK y \in 1..n - 1 : About(todo'[y], c)
        BY <4>1, <1>2 DEF NotPending
      <4>5. /\ y \in 0..n - 1 /\ q + y + 1 \in 1..Len(s) /\ q + y \in 1..Len(t)
            /\ s[q + y + 1] = todo'[y] /\ t[q + y] = todo'[y] /\ todo'[y] \in Events
        BY <2>2, <1>2, <1>3, <1>7
      <4>6. f[q + y + 1] = After(f[(q + y + 1) - 1], todo'[y]) /\ g[q + y] = After(g[(q + y) - 1], todo'[y])
        BY <4>5, <1>3, <1>4, Zenon DEF Follows
      <4>7. c \in f[q + y + 1] <=> c \in g[q + y]
        BY <4>4, <4>5, <4>6, AfterEvent
      <4>8. \A x \in y..n - 1 : c \in f[q + x + 1] <=> c \in g[q + x]
        BY <4>5, <4>7, <1>9
      <4>9. n - 1 \in y..n - 1
        BY <1>2
      <4>10. c \in f[Len(s)] <=> c \in g[Len(t)]
        BY <4>8, <4>9, <2>2
      <4> QED BY <4>3, <4>10 DEF Right
    <3> QED BY <3>1, <3>2
  <2> QED BY <2>1, <2>3 DEF FinalInv, g, t
<1> QED BY <1>1, <1>12, <1>13 DEF RInv

\* A keyboard reports: behind the events in flight come those of the difference to the
\* previous report, which is what the app has when it has read the ones in flight.
LEMMA ReportRInv ==
  ASSUME HInv, RInv, NEW d, NEW r \in Reports, Report(d, r), StreamOK'
  PROVE  RInv'
<1> DEFINE s == Stream
           t == Stream'
           f == DownAfter
           g == DownAfter'
           q == Len(queue)
           e == todo'
           n == Len(todo')
<1>1. /\ pc = "idle" /\ todo = <<>> /\ e = ReportEvents(prev, r) /\ cur' = r /\ pc' = "inject"
      /\ UNCHANGED <<queue, appDown, lost, adrift>> /\ prev \in Reports /\ adrift \subseteq lost
  BY DEF HInv, TypeOK, Report, drops
<1>2. PICK C : /\ Spells(e, Events, C, r)
               /\ C \subseteq AllCodes
               /\ \A c \in AllCodes : ~(c \in Codes(prev) <=> c \in Codes(r)) => c \in C
               /\ \A c \in C \ SharedCodes : ~(c \in Codes(prev) <=> c \in Codes(r))
               /\ \A i, j \in 1..n : e[i].type # "SCANCODE" /\ e[j].type = "SCANCODE" /\ i < j => e[j].code \notin Modifiers
  BY <1>1, ReportEventsSpell, Zenon
<1>3. /\ s \in Seq(Events) /\ Len(s) = q /\ q \in Nat /\ Follows(f, appDown, s)
      /\ \A i \in 1..q : s[i] = queue[i]
  <2>1. Len(todo) = 0 /\ Len(s) = q + Len(todo) /\ q \in Nat
    BY <1>1, StreamFacts DEF HInv
  <2> HIDE DEF q
  <2>2. Len(s) = q
    BY <2>1
  <2> QED BY <2>1, <2>2, StreamFacts DEF HInv, q
<1>4. t \in Seq(Events) /\ Follows(g, appDown, t)
  BY <1>1, StreamFactsNext
<1>5. e \in Seq(Events) /\ n \in Nat /\ queue \in Seq(Events)
  BY DEF StreamOK, HInv
<1>6. /\ Len(t) = q + n
      /\ \A i \in 1..q + n : t[i] = IF i <= q THEN queue[i] ELSE e[i - q]
  <2>1. t = queue \o e
    BY <1>1 DEF Stream
  <2> HIDE DEF t
  <2> QED BY <1>5, <2>1, ConcatProperties
<1> HIDE DEF s, t, f, g, n, q, e
<1>7. /\ \A i \in 1..q : t[i] = s[i] /\ i \in 1..Len(t)
      /\ \A i \in 1..n : t[q + i] = e[i] /\ q + i \in 1..Len(t)
      /\ \A i \in 1..Len(t) : i \in 1..q \/ (i - q \in 1..n /\ q + (i - q) = i)
  <2>1. ASSUME NEW i \in 1..q PROVE t[i] = s[i] /\ i \in 1..Len(t)
    <3>1. i \in 1..q + n /\ i <= q
      BY <1>3, <1>5
    <3> QED BY <3>1, <1>3, <1>6
  <2>2. ASSUME NEW i \in 1..n PROVE t[q + i] = e[i] /\ q + i \in 1..Len(t)
    <3>1. q + i \in 1..q + n /\ ~(q + i <= q) /\ (q + i) - q = i
      BY <1>3, <1>5
    <3> QED BY <3>1, <1>6
  <2>3. \A i \in 1..Len(t) : i \in 1..q \/ (i - q \in 1..n /\ q + (i - q) = i)
    BY <1>3, <1>5, <1>6
  <2> QED BY <2>1, <2>2, <2>3
<1>8. ASSUME NEW c PROVE \A x \in 0..q : c \in f[x] <=> c \in g[x]
  <2>1. /\ 0 + q <= Len(s) /\ 0 + q <= Len(t) /\ 0 \in Nat /\ q \in Nat
        /\ \A x \in 1..q : s[0 + x] = t[0 + x]
    BY <1>3, <1>5, <1>6, <1>7
  <2>2. c \in f[0] <=> c \in g[0]
    BY <1>3, <1>4 DEF Follows
  <2>3. s \in Seq(Events) /\ t \in Seq(Events) /\ Follows(f, appDown, s) /\ Follows(g, appDown, t)
    BY <1>3, <1>4, Zenon
  <2>4. Alike(f, appDown, s, 0, g, appDown, t, 0, q, c)
    BY ONLY <2>1, <2>2, <2>3, Zenon DEF Alike
  <2>5. \A x \in 0..q : c \in f[0 + x] <=> c \in g[0 + x]
    BY ONLY <2>4, SameTrack, SMT
  <2>6. \A x \in 0..q : 0 + x = x
    BY <1>3
  <2> QED BY <2>5, <2>6
\* What the last report left: all that was in flight read, its codes are down.
<1>9. ASSUME NEW c \in AllCodes, c \notin adrift PROVE Right(c, g[q], Codes(prev))
  <2>1. Right(c, f[Len(s)], reported)
    BY <1>9 DEF RInv, FinalInv, f, s
  <2>2. reported = Codes(prev)
    BY <1>1 DEF reported
  <2>3. q \in 0..q
    BY <1>3
  <2> QED BY <2>1, <2>2, <2>3, <1>3, <1>8 DEF Right
\* Until an event about c, c is where it was.
<1>10. ASSUME NEW c, NEW i \in 0..n, \A k \in 1..i : ~About(e[k], c) PROVE c \in g[q + i] <=> c \in g[q]
  <2>1. q \in 0..Len(t) /\ q + i \in q..Len(t)
    BY <1>3, <1>5, <1>6
  <2>2. ASSUME NEW k \in q + 1..q + i PROVE ~About(t[k], c)
    <3>1. k - q \in 1..i /\ k - q \in 1..n /\ q + (k - q) = k
      BY <1>3, <1>5
    <3> QED BY <3>1, <1>7, <1>10
  <2> QED BY <2>1, <2>2, <1>4, Untouched
\* The events are each about a code of its own, unless it is shared, and from its event on, c is
\* where r has it.
<1>11. /\ \A i \in 1..n : e[i].type = "SCANCODE" => e[i].code \in C /\ Toward(e[i], e[i].code, r)
       /\ \A c \in C : \E i \in 1..n : About(e[i], c)
       /\ \A i, j \in 1..n : \A c \in C \ SharedCodes : About(e[i], c) /\ About(e[j], c) => i = j
       /\ \A i \in 1..n : e[i].type # "SCANCODE" => e[i].mods = r.mods
  BY <1>2 DEF Spells, n, e
<1>a. ASSUME NEW c, NEW i \in 1..n, About(e[i], c)
      PROVE  /\ c \in C /\ Toward(e[i], c, r) /\ e[i] \in Events /\ t[q + i] = e[i]
             /\ q + i \in 0..Len(t) /\ q + i \in 1..Len(t) /\ (c \in g[q + i] <=> e[i].pressed)
  <2>1. c \in C /\ Toward(e[i], c, r)
    BY <1>11, <1>a DEF About
  <2>2. q + i \in 0..Len(t) /\ q + i \in 1..Len(t)
    BY <1>3, <1>5, <1>6
  <2>3. t[q + i] = e[i] /\ e[i] \in Events
    BY <1>5, <1>7 DEF n, e
  <2>4. g[q + i] = After(g[(q + i) - 1], e[i])
    BY <1>4, <2>2, <2>3, Zenon DEF Follows
  <2>5. c \in g[q + i] <=> e[i].pressed
    BY <2>3, <2>4, <1>a, AfterEvent
  <2> QED BY <2>1, <2>2, <2>3, <2>5
<1>12. ASSUME NEW c, c \notin SharedCodes, NEW i \in 1..n, About(e[i], c), NEW j \in i..n
       PROVE  c \in g[q + j] <=> c \in Codes(r)
  <2>1. c \in C /\ (c \in g[q + i] <=> c \in Codes(r)) /\ q + i \in 0..Len(t)
    BY <1>12, <1>a DEF Toward
  <2>2. q + j \in q + i..Len(t)
    BY <1>3, <1>5, <1>6
  <2>6. ASSUME NEW k \in (q + i) + 1..q + j PROVE ~About(t[k], c)
    <3>1. k - q \in 1..n /\ q + (k - q) = k /\ k - q # i
      BY <1>3, <1>5
    <3>2. ~About(e[k - q], c)
      BY <3>1, <2>1, <1>11, <1>12
    <3> QED BY <3>1, <3>2, <1>7
  <2>7. c \in g[q + j] <=> c \in g[q + i]
    BY <2>1, <2>2, <2>6, <1>4, Untouched
  <2> QED BY <2>1, <2>7
\* What r has up is up at the end: an event of it releases it, or it was up before.
<1>b. ASSUME NEW c \in AllCodes, c \notin Codes(r), ~(c \in adrift /\ NotPending(e, c)) PROVE c \notin g[q + n]
  <2>1. PICK i \in 0..n : c \notin g[q + i]
    <3>1. CASE \E i \in 1..n : About(e[i], c)
      <4>1. PICK i \in 1..n : About(e[i], c)
        BY <3>1
      <4>2. c \notin g[q + i]
        BY <4>1, <1>a, <1>b DEF Toward
      <4>3. i \in 0..n
        BY <1>5
      <4> QED BY <4>2, <4>3
    <3>2. CASE ~\E i \in 1..n : About(e[i], c)
      <4>1. c \notin adrift
        BY <3>2, <1>b DEF NotPending, n, e
      <4>2. c \notin Codes(prev)
        BY <3>2, <1>b, <1>2, <1>11
      <4>3. 0 \in 0..n /\ q + 0 = q
        BY <1>3, <1>5
      <4> QED BY <4>1, <4>2, <4>3, <1>9 DEF Right
    <3> QED BY <3>1, <3>2
  <2>2. q + i \in 0..Len(t) /\ q + n \in q + i..Len(t)
    BY <1>3, <1>5, <1>6
  <2>3. ASSUME NEW k \in (q + i) + 1..q + n, About(t[k], c) PROVE ~t[k].pressed
    <3>1. k - q \in 1..n /\ q + (k - q) = k
      BY <1>3, <1>5
    <3>2. About(e[k - q], c) /\ t[k] = e[k - q]
      BY <3>1, <2>3, <1>7
    <3> QED BY <3>1, <3>2, <1>a, <1>b DEF Toward
  <2> QED BY <2>1, <2>2, <2>3, <1>4, StaysUp
<1>13. FinalInv'
  <2>1. reported' = Codes(r)
    BY <1>1 DEF reported
  <2>2. ASSUME NEW c \in AllCodes, ~(c \in adrift' /\ NotPending(todo', c)) PROVE Right(c, g[q + n], Codes(r))
    <3>0. ~(c \in adrift /\ NotPending(e, c))
      BY <2>2, <1>1 DEF e
    <3>1. c \in g[q + n] => c \in Codes(r)
      BY <3>0, <1>b
    <3>2. ASSUME c \notin SharedCodes, c \in Codes(r) PROVE c \in g[q + n]
      <4>1. CASE c \in C
        <5>1. PICK i \in 1..n : About(e[i], c)
          BY <4>1, <1>11
        <5>2. n \in i..n
          BY <1>5
        <5> QED BY <5>1, <5>2, <3>2, <1>12
      <4>2. CASE c \notin C
        <5>1. \A k \in 1..n : ~About(e[k], c)
          BY <4>2, <1>11 DEF About
        <5>2. c \notin adrift
          BY <5>1, <3>0 DEF NotPending, e, n
        <5>3. n \in 0..n
          BY <1>5
        <5>4. c \in g[q + n] <=> c \in g[q]
          BY <5>1, <5>3, <1>10
        <5>5. c \in Codes(prev)
          BY <4>2, <3>2, <1>2
        <5> QED BY <5>2, <5>4, <5>5, <3>2, <1>9 DEF Right
      <4> QED BY <4>1, <4>2
    <3> QED BY <3>1, <3>2 DEF Right
  <2> QED BY <2>1, <2>2, <1>6 DEF FinalInv, g, t
<1>14. AlternateInv'
  <2>1. ASSUME NEW i \in 1..Len(t), NEW c, About(t[i], c), c \notin lost, c \notin SharedCodes
        PROVE  c \in g[i - 1] <=> ~t[i].pressed
    <3>1. CASE i \in 1..q
      <4>1. i \in 1..Len(s) /\ t[i] = s[i] /\ i - 1 \in 0..q
        BY <3>1, <1>3, <1>7
      <4>2. c \in f[i - 1] <=> ~s[i].pressed
        BY <4>1, <2>1 DEF RInv, AlternateInv, f, s
      <4> QED BY <4>1, <4>2, <1>8
    <3>2. CASE i \notin 1..q
      <4> DEFINE y == i - q
      <4>1. y \in 1..n /\ q + y = i
        BY <3>2, <1>7
      <4>2. y - 1 \in 0..n /\ q + (y - 1) = i - 1
        BY <4>1, <1>3, <1>5
      <4> HIDE DEF y
      <4>3. t[i] = e[y] /\ About(e[y], c)
        BY <4>1, <1>7, <2>1
      <4>4. c \in C /\ (e[y].pressed <=> c \in Codes(r))
        BY <4>1, <4>3, <2>1, <1>a DEF Toward
      <4>5. c \in AllCodes /\ ~(c \in Codes(prev) <=> c \in Codes(r))
        BY <4>4, <2>1, <1>2
      <4>6. ASSUME NEW k \in 1..y - 1 PROVE ~About(e[k], c)
        <5>1. k \in 1..n /\ k # y
          BY <4>1, <1>5
        <5> QED BY <5>1, <4>1, <4>3, <4>4, <2>1, <1>11
      <4>7. c \in g[q + (y - 1)] <=> c \in g[q]
        BY <4>2, <4>6, <1>10
      <4>8. c \in g[q] <=> c \in Codes(prev)
        BY <4>5, <2>1, <1>1, <1>9 DEF Right
      <4> QED BY <4>2, <4>3, <4>4, <4>5, <4>7, <4>8
    <3> QED BY <3>1, <3>2
  <2> QED BY <2>1, <1>1 DEF AlternateInv, g, t
<1>15. ModifierInv'
  <2>1. ASSUME NEW i \in 1..Len(t), t[i].type # "SCANCODE", NEW c, c \notin lost
        PROVE  c \in t[i].mods <=> c \in g[i - 1] /\ c \in Modifiers
    <3>1. CASE i \in 1..q
      <4>1. i \in 1..Len(s) /\ t[i] = s[i] /\ i - 1 \in 0..q
        BY <3>1, <1>3, <1>7
      <4>2. c \in s[i].mods <=> c \in f[i - 1] /\ c \in Modifiers
        BY <4>1, <2>1 DEF RInv, ModifierInv, f, s
      <4> QED BY <4>1, <4>2, <1>8
    <3>2. CASE i \notin 1..q
      <4> DEFINE y == i - q
      <4>1. y \in 1..n /\ q + y = i
        BY <3>2, <1>7
      <4>2. y - 1 \in 0..n /\ q + (y - 1) = i - 1
        BY <4>1, <1>3, <1>5
      <4> HIDE DEF y
      <4>3. t[i] = e[y] /\ e[y].type # "SCANCODE"
        BY <4>1, <1>7, <2>1
      <4>4. t[i].mods = r.mods
        BY <4>1, <4>3, <1>11
      <4>5. r.mods \subseteq Modifiers /\ \A m \in Modifiers : m \in Codes(r) <=> m \in r.mods
        BY ReportTypes
      <4>6. ASSUME c \in Modifiers PROVE c \in g[q + (y - 1)] <=> c \in Codes(r)
        <5>1. c \in AllCodes /\ c \notin SharedCodes
          BY <4>6, SharedByTwo DEF AllCodes, Modifiers
        <5>2. CASE c \in C
          <6>1. PICK k \in 1..n : About(e[k], c)
            BY <5>2, <1>11
          <6>2. k # y /\ ~(y < k)
            BY <6>1, <4>1, <4>3, <4>6, <1>2 DEF About
          <6>3. y - 1 \in k..n
            BY <6>2, <4>1, <1>5
          <6> QED BY <6>1, <6>3, <5>1, <1>12
        <5>3. CASE c \notin C
          <6>1. \A k \in 1..y - 1 : k \in 1..n
            BY <4>1, <1>5
          <6>2. \A k \in 1..y - 1 : ~About(e[k], c)
            BY <6>1, <5>3, <1>11 DEF About
          <6>3. c \in g[q + (y - 1)] <=> c \in g[q]
            BY <6>2, <4>2, <1>10
          <6>4. c \in Codes(prev) <=> c \in Codes(r)
            BY <5>1, <5>3, <1>2
          <6> QED BY <6>3, <6>4, <5>1, <2>1, <1>1, <1>9 DEF Right
        <5> QED BY <5>2, <5>3
      <4> QED BY <4>2, <4>4, <4>5, <4>6
    <3> QED BY <3>1, <3>2
  <2> QED BY <2>1, <1>1 DEF ModifierInv, g, t
<1> QED BY <1>13, <1>14, <1>15 DEF RInv
-----------------------------------------------------------------------------
(* The keys of the keyboards that are gone *)

\* The mirror is the report of a keyboard that is still there, and so is the report
\* that is about to become the mirror: nothing is unplugged in the middle of a callback.
OfPlugged(r) == \E d \in plugged : actual[d] = r

GInv ==
    /\ plugged \subseteq Devices
    /\ actual \in [Devices -> Reports \cup {Nothing}]
    /\ pc = "inject" => OfPlugged(cur)
    /\ pc # "inject" => held = Nothing \/ OfPlugged(held)

\* A key of the mirror is a key of a keyboard that is still there.
LEMMA GInvNoGhost == GInv => NoGhostHeld
  BY NothingIsReport DEF GInv, NoGhostHeld, OfPlugged

\* Nothing is plugged in at first, and nothing is held.
LEMMA InitGInv == Init => GInv
  BY DEF Init, GInv

\* Every step keeps the invariant.
LEMMA NextGInv == GInv /\ [Next]_vars => GInv'
<1> SUFFICES ASSUME GInv, [Next]_vars PROVE GInv'
  OBVIOUS
<1>1. ASSUME NEW d \in Devices, Connect(d) PROVE GInv'
  <2>1. /\ plugged' = plugged \cup {d} /\ actual' = actual /\ cur' = cur
        /\ pc' = pc /\ held' = held
    BY <1>1 DEF Connect
  <2>2. QED
    BY <2>1 DEF GInv, OfPlugged
<1>2. ASSUME NEW d \in Devices, Disconnect(d) PROVE GInv'
  <2>1. /\ pc = "idle" /\ pc' = pc /\ plugged' = plugged \ {d}
        /\ held' = Nothing /\ actual' = [actual EXCEPT ![d] = Nothing]
    BY <1>2 DEF Disconnect, HeldAfterDisconnect
  <2>2. QED
    BY <2>1 DEF GInv
<1>3. ASSUME NEW d \in Keyboards, NEW r \in Reports, Report(d, r) PROVE GInv'
  <2>1. /\ d \in plugged /\ plugged' = plugged /\ cur' = r /\ pc' = "inject"
        /\ actual' = [actual EXCEPT ![d] = r]
    BY <1>3 DEF Report
  <2>2. OfPlugged(cur)'
    BY <2>1 DEF GInv, OfPlugged
  <2>3. QED
    BY <2>1, <2>2 DEF GInv
<1>4. CASE Publish
  <2>1. /\ pc = "inject" /\ pc' = "idle" /\ held' = cur
        /\ plugged' = plugged /\ actual' = actual
    BY <1>4 DEF Publish
  <2>2. QED
    BY <2>1 DEF GInv, OfPlugged
<1>5. CASE Inject \/ Receive \/ UNCHANGED vars
  <2>1. UNCHANGED <<plugged, actual, cur, pc, held>>
    BY <1>5 DEF Inject, Receive, vars
  <2>2. QED
    BY <2>1 DEF GInv, OfPlugged
<1>6. QED
  BY <1>1, <1>2, <1>3, <1>4, <1>5 DEF Next

\* Whatever is plugged in or out, and whatever the keyboards report, between two
\* reports the mirror has only keys that a connected keyboard holds.
THEOREM NoKeyOfTheGone == Spec => []NoGhostHeld
<1>1. QED
  BY InitGInv, NextGInv, GInvNoGhost, PTL DEF Spec
-----------------------------------------------------------------------------
(* The theorems about the events *)

\* Sequences of events, one behind the other, are a sequence of events.
LEMMA FlattenTyped ==
  ASSUME NEW S, NEW s, NEW n \in Nat \ {0}, DOMAIN s = 1..n, Len(s) = n,
         \A i \in 1..n : s[i] \in Seq(S)
  PROVE  FlattenSeq(s) \in Seq(S)
<1> DEFINE g == CHOOSE f : f = [i \in 1..n |-> IF i = 1 THEN s[i] ELSE f[i - 1] \o s[i]]
<1>1. g = [i \in 1..n |-> IF i = 1 THEN s[i] ELSE g[i - 1] \o s[i]]
  <2>1. \E f : f = [i \in 1..n |-> IF i = 1 THEN s[i] ELSE f[i - 1] \o s[i]]
    BY ONLY GlueExists, n \in Nat \ {0}, Zenon
  <2> QED BY ONLY <2>1, Zenon
<1>2. FlattenSeq(s) = g[n]
  BY DEF FlattenSeq
<1> HIDE DEF g
<1> DEFINE T == {i \in Nat : i + 1 \in 1..n => g[i + 1] \in Seq(S)}
<1>3. 0 \in T
  <2>1. 0 + 1 = 1 /\ 1 \in 1..n
    OBVIOUS
  <2>2. g[1] = s[1]
    BY <1>1, <2>1
  <2> QED BY <2>1, <2>2
<1>4. ASSUME NEW i \in Nat, i \in T PROVE i + 1 \in T
  <2> SUFFICES ASSUME i + 2 \in 1..n PROVE g[i + 2] \in Seq(S)
    OBVIOUS
  <2>1. i + 1 \in 1..n /\ i + 2 # 1 /\ (i + 2) - 1 = i + 1
    OBVIOUS
  <2>2. g[i + 2] = g[i + 1] \o s[i + 2]
    <3>1. g[i + 2] = IF i + 2 = 1 THEN s[i + 2] ELSE g[(i + 2) - 1] \o s[i + 2]
      BY <1>1, Zenon
    <3> QED BY <3>1, <2>1, Zenon
  <2>3. g[i + 1] \in Seq(S) /\ s[i + 2] \in Seq(S)
    BY <1>4, <2>1
  <2> QED BY <2>2, <2>3
<1>5. Nat \subseteq T
  <2> HIDE DEF T
  <2> QED BY <1>3, <1>4, NatInSet
<1>6. n - 1 \in Nat /\ (n - 1) + 1 = n /\ n \in 1..n
  OBVIOUS
<1> QED BY <1>2, <1>5, <1>6

\* A slot gives events, also where two keys share a scancode.
LEMMA SlotEventsTyped ==
  ASSUME NEW old \in Reports, NEW new \in Reports, NEW i \in Slot
  PROVE  SlotEvents(old, new, i) \in Seq(Events)
<1>1. Down(old) \subseteq Usages /\ Down(new) \subseteq Usages
  BY ReportTypes
<1>2. ASSUME NEW k \in Usages PROVE on_key_release(k, new.mods) \in Seq(Events)
  <2> DEFINE c == hid_to_bsp_scancode[k]
  <2>1. c \in AllCodes /\ c \notin Codes(Nothing) /\ FALSE \in BOOLEAN /\ Scancodes \subseteq Events
    BY KeyCodes, NothingIsReport DEF Events
  <2>2. Spells(inject_scancode(c, FALSE), Events, {c}, Nothing)
    BY <2>1, ScancodeSpells
  <2>3. Spells(inject_navigation(hid_to_bsp_nav[k], FALSE, new.mods), Events, {}, new)
    BY KeyCodes, NavigationSpells
  <2>4. /\ inject_scancode(c, FALSE) \in Seq(Events)
        /\ inject_navigation(hid_to_bsp_nav[k], FALSE, new.mods) \in Seq(Events)
    BY <2>2, <2>3 DEF Spells
  <2> QED BY <2>4, ConcatProperties DEF on_key_release
<1>3. ASSUME NEW k \in Down(new) PROVE on_key_press(k, new.mods) \in Seq(Events)
  BY PressSpells DEF Spells
<1>4. <<>> \in Seq(Events)
  OBVIOUS
<1> DEFINE a == IF old.keys[i] \in Down(old) \ Down(new) THEN on_key_release(old.keys[i], new.mods) ELSE <<>>
           b == IF new.keys[i] \in Down(new) \ Down(old) THEN on_key_press(new.keys[i], new.mods) ELSE <<>>
<1>5. a \in Seq(Events)
  BY <1>1, <1>2, <1>4
<1>6. b \in Seq(Events)
  BY <1>3, <1>4
<1>7. SlotEvents(old, new, i) = a \o b
  BY DEF SlotEvents
<1> HIDE DEF a, b
<1> QED BY <1>5, <1>6, <1>7, ConcatProperties

\* A report gives events.
LEMMA ReportEventsTyped ==
  ASSUME NEW old \in Reports, NEW new \in Reports
  PROVE  ReportEvents(old, new) \in Seq(Events)
<1> DEFINE a == inject_modifier_changes(old.mods, new.mods)
           s == [i \in Slot |-> SlotEvents(old, new, i)]
           n == HID_KEYBOARD_KEY_MAX
<1>1. a \in Seq(Events)
  <2>1. a \in Seq(Scancodes)
    BY ModifierEventsSpell DEF Spells
  <2> HIDE DEF a
  <2> QED BY <2>1 DEF Events
<1>2. n \in Nat \ {0} /\ DOMAIN s = 1..n /\ \A i \in 1..n : s[i] \in Seq(Events)
  BY HidAssumption, SlotEventsTyped DEF Slot
<1>3. ReportEvents(old, new) = a \o FlattenSeq(s)
  BY DEF ReportEvents
<1> HIDE DEF s, a, n
<1>4. Len(s) = n
  BY <1>2
<1>5. FlattenSeq(s) \in Seq(Events)
  BY <1>2, <1>4, FlattenTyped
<1> QED BY <1>1, <1>3, <1>5, ConcatProperties

\* Nothing is in flight at first.
LEMMA InitHInv == Init => HInv
<1> SUFFICES ASSUME Init PROVE HInv
  OBVIOUS
<1>1. actual \in [Devices -> Reports]
  BY NothingIsReport DEF Init
<1>2. StreamOK
  BY DEF Init, StreamOK
<1>3. Len(queue) <= QueueCap
  BY HidAssumption DEF Init
<1> QED BY <1>1, <1>2, <1>3, NothingIsReport DEF Init, HInv, TypeOK

\* Every step keeps the types, those of the events included.
LEMMA NextHInv == HInv /\ [Next]_vars => HInv'
<1> SUFFICES ASSUME HInv, [Next]_vars PROVE HInv'
  OBVIOUS
<1>0. TypeOK /\ StreamOK
  BY DEF HInv
<1>1. ASSUME NEW d \in Devices, Connect(d) PROVE HInv'
  BY <1>0, <1>1 DEF Connect, HInv, TypeOK, StreamOK, drops
<1>2. ASSUME NEW d \in Devices, Disconnect(d) PROVE HInv'
  <2>1. held' \in Reports /\ actual' \in [Devices -> Reports]
    BY <1>0, <1>2, NothingIsReport DEF Disconnect, HeldAfterDisconnect, TypeOK
  <2> QED BY <1>0, <1>2, <2>1 DEF Disconnect, HInv, TypeOK, StreamOK, drops
<1>3. ASSUME NEW d \in Keyboards, NEW r \in Reports, Report(d, r) PROVE HInv'
  <2>1. /\ UNCHANGED <<plugged, prev, held, queue, appDown, adrift, lost>>
        /\ cur' = r /\ pc' = "inject" /\ todo' = ReportEvents(prev, r) /\ actual' = [actual EXCEPT ![d] = r]
        /\ owed' \subseteq Down(r)
    BY <1>3 DEF Report, drops
  <2>2. actual' \in [Devices -> Reports]
    BY <1>0, <2>1 DEF TypeOK, Devices
  <2>3. todo' \in Seq(Events)
    BY <1>0, <2>1, ReportEventsTyped DEF TypeOK
  <2>4. Down(r) \subseteq Usages
    BY ReportTypes
  <2>5. TypeOK'
    BY <1>0, <2>1, <2>2, <2>4 DEF TypeOK
  <2>6. StreamOK'
    BY <1>0, <2>1, <2>3 DEF StreamOK
  <2> QED BY <2>5, <2>6 DEF HInv
<1>4. CASE Inject
  <2>1. queue \in Seq(Events) /\ todo \in Seq(Events) /\ todo # <<>>
    BY <1>0, <1>4 DEF StreamOK, Inject
  <2>2. /\ todo' = Tail(todo) /\ Write(Head(todo))
        /\ UNCHANGED <<plugged, actual, prev, held, cur, pc, appDown, owed>>
    BY <1>4 DEF Inject
  <2>3. Head(todo) \in Events /\ todo' \in Seq(Events) /\ Code(Head(todo)) \subseteq AllCodes
    BY <2>1, <2>2, HeadTail, EventTypes
  <2>4. queue' \in Seq(Events) /\ Len(queue') <= QueueCap
    <3>1. CASE Len(queue) < QueueCap /\ queue' = Append(queue, Head(todo))
      <4>1. queue' \in Seq(Events) /\ Len(queue') = Len(queue) + 1 /\ Len(queue) \in Nat
        BY <2>1, <2>3, <3>1, AppendProperties
      <4> QED BY <4>1, <3>1, HidAssumption
    <3>2. CASE queue' = queue
      BY <1>0, <2>1, <3>2 DEF TypeOK
    <3> QED BY <2>2, <3>1, <3>2 DEF Write
  <2>5. lost' \subseteq AllCodes /\ adrift' \subseteq lost'
    BY <1>0, <2>2, <2>3 DEF Write, TypeOK
  <2>6. pc' = "idle" => todo' = <<>>
    BY <1>0, <2>1, <2>2 DEF TypeOK
  <2> QED BY <1>0, <2>2, <2>3, <2>4, <2>5, <2>6 DEF HInv, TypeOK, StreamOK
<1>5. CASE Publish
  BY <1>0, <1>5 DEF Publish, HInv, TypeOK, StreamOK, drops
<1>6. CASE Receive
  <2>1. queue \in Seq(Events) /\ queue # <<>> /\ queue' = Tail(queue) /\ appDown' = After(appDown, Head(queue))
    BY <1>0, <1>6 DEF StreamOK, Receive
  <2>2. /\ Head(queue) \in Events /\ queue' \in Seq(Events) /\ Code(Head(queue)) \subseteq AllCodes
        /\ Len(queue') = Len(queue) - 1 /\ Len(queue) \in Nat
    BY <2>1, HeadTail, EventTypes
  <2>3. appDown' \subseteq AllCodes
    BY <1>0, <2>1, <2>2 DEF After, TypeOK
  <2>4. Len(queue') <= QueueCap
    BY <1>0, <2>2, HidAssumption DEF TypeOK
  <2> QED BY <1>0, <1>6, <2>2, <2>3, <2>4 DEF Receive, HInv, TypeOK, StreamOK, drops
<1>7. CASE UNCHANGED vars
  BY <1>0, <1>7 DEF vars, HInv, TypeOK, StreamOK, drops
<1> QED BY <1>1, <1>2, <1>3, <1>4, <1>5, <1>6, <1>7 DEF Next

\* With nothing in flight and nothing reported, nothing is down.
LEMMA InitRInv == Init /\ HInv => RInv
<1> SUFFICES ASSUME Init, HInv PROVE RInv
  OBVIOUS
<1>1. Len(Stream) = 0 /\ Follows(DownAfter, appDown, Stream)
  <2>1. Len(queue) = 0 /\ Len(todo) = 0
    BY DEF Init
  <2> QED BY <2>1, StreamFacts DEF HInv
<1>2. DownAfter[Len(Stream)] = {}
  BY <1>1 DEF Follows, Init
<1>3. reported = {}
  BY NothingIsReport DEF reported, Init
<1>4. \A i \in 1..Len(Stream) : FALSE
  BY <1>1
<1> QED BY <1>2, <1>3, <1>4 DEF RInv, FinalInv, Right, AlternateInv, ModifierInv

\* Every step keeps what the events in flight say.
LEMMA NextRInv == HInv /\ RInv /\ [Next]_vars /\ HInv' => RInv'
<1> SUFFICES ASSUME HInv, RInv, [Next]_vars, HInv' PROVE RInv'
  OBVIOUS
<1>0. StreamOK'
  BY DEF HInv
<1>1. ASSUME NEW d \in Keyboards, NEW r \in Reports, Report(d, r) PROVE RInv'
  BY <1>0, <1>1, ReportRInv
<1>2. CASE Inject
  <2>1. Len(queue) < QueueCap \/ Len(queue) = QueueCap
    BY <1>2 DEF Inject, Write
  <2> QED BY <2>1, <1>0, <1>2, WrittenRInv, LostRInv
<1>3. CASE Receive
  BY <1>0, <1>3, ReceivedRInv
<1>4. ASSUME UNCHANGED <<queue, todo, appDown, lost, adrift>>, reported' = reported PROVE RInv'
  <2>1. Stream' = Stream
    BY <1>4 DEF Stream
  <2>2. \A c : NotPending(todo', c) <=> NotPending(todo, c)
    BY <1>4
  <2> QED BY <1>4, <2>1, <2>2, QuietRInv
<1>5. CASE Publish
  BY <1>4, <1>5 DEF Publish, drops, reported
<1>6. ASSUME NEW d \in Devices, Connect(d) \/ Disconnect(d) PROVE RInv'
  BY <1>4, <1>6 DEF Connect, Disconnect, drops, reported
<1>7. CASE UNCHANGED vars
  BY <1>4, <1>7 DEF vars, drops, reported
<1> QED BY <1>1, <1>2, <1>3, <1>5, <1>6, <1>7 DEF Next

\* The invariant is about single scancodes and single events; Replay is what it says.
LEMMA RInvReplay == HInv /\ RInv => Replay
<1> SUFFICES ASSUME HInv, RInv PROVE Replay
  OBVIOUS
<1> DEFINE pending == {e.code : e \in {f \in ToSet(todo) : f.type = "SCANCODE"}}
<1>1. /\ Stream \in Seq(Events) /\ todo \in Seq(Events) /\ DOMAIN Stream = 1..Len(Stream)
      /\ ToSet(todo) = {todo[i] : i \in 1..Len(todo)}
  <2>1. Stream \in Seq(Events) /\ todo \in Seq(Events)
    BY StreamFacts DEF HInv, StreamOK
  <2> QED BY <2>1 DEF ToSet
<1>2. \A c : c \notin pending <=> NotPending(todo, c)
  BY <1>1 DEF NotPending, About
<1> HIDE DEF pending
<1>3. \A c \in AllCodes :
        \/ (c \in DownAfter[Len(Stream)]) = (c \in reported)
        \/ c \in SharedCodes \ DownAfter[Len(Stream)]
        \/ c \in adrift \ pending
  BY <1>2 DEF RInv, FinalInv, Right
<1>4. ASSUME NEW i \in DOMAIN Stream, NEW c \in Code(Stream[i]) \ (lost \cup SharedCodes)
      PROVE  (c \in DownAfter[i - 1]) = ~Stream[i].pressed
  <2>1. i \in 1..Len(Stream) /\ Stream[i] \in Events
    BY <1>1
  <2>2. About(Stream[i], c) /\ Stream[i].type = "SCANCODE"
    BY <2>1, <1>4, EventTypes DEF About
  <2>3. Stream[i].pressed \in BOOLEAN
    BY <2>1, <2>2, EventTypes
  <2>4. c \in DownAfter[i - 1] <=> ~Stream[i].pressed
    BY <2>1, <2>2 DEF RInv, AlternateInv
  <2> QED BY <2>3, <2>4
<1> QED BY <1>3, <1>4 DEF Replay, pending, reported

\* So is ModifiersAgree.
LEMMA RInvModifiersAgree == HInv /\ RInv => ModifiersAgree
<1> SUFFICES ASSUME HInv, RInv PROVE ModifiersAgree
  OBVIOUS
<1>1. DOMAIN Stream = 1..Len(Stream) /\ Stream \in Seq(Events)
  BY StreamFacts DEF HInv
<1>2. ASSUME NEW i \in DOMAIN Stream, Stream[i].type # "SCANCODE"
      PROVE  Stream[i].mods \ lost = (DownAfter[i - 1] \cap ToSet(modifier_map)) \ lost
  <2>1. \A c : c \notin lost => (c \in Stream[i].mods <=> c \in DownAfter[i - 1] /\ c \in Modifiers)
    BY <1>1, <1>2 DEF RInv, ModifierInv
  <2> QED BY <2>1 DEF Modifiers
<1> QED BY <1>2 DEF ModifiersAgree

\* Whatever is plugged in and reported, also two keys of one scancode: reports, mirror,
\* queue and histories stay what their types say, and an idle callback owes no event.
THEOREM KeyboardStateIsTyped == Spec => []TypeOK
<1>1. HInv => TypeOK
  BY DEF HInv
<1> QED BY InitHInv, NextHInv, <1>1, PTL DEF Spec

\* The invariant of the events in flight.
LEMMA EventsInvariant == Spec => [](HInv /\ RInv)
<1>1. Init => HInv /\ RInv
  BY InitHInv, InitRInv
<1>2. HInv /\ RInv /\ [Next]_vars => (HInv /\ RInv)'
  BY NextHInv, NextRInv
<1> QED BY <1>1, <1>2, PTL DEF Spec

\* When the app has read what is in flight, it takes exactly the keys of the last report to be
\* down, but for those whose latest event was lost; and no key that lost no event is pressed when
\* down or released when up.  Of a scancode that two keys share, it is never stuck.
THEOREM EventsReplayTheReports == Spec => []Replay
<1>1. HInv /\ RInv => Replay
  BY RInvReplay
<1> QED BY EventsInvariant, <1>1, PTL

\* The modifiers that a navigation or character event carries are those that the scancode events
\* before it put down, but for modifiers that lost an event.
THEOREM ModifiersOfTheEvents == Spec => []ModifiersAgree
<1>1. HInv /\ RInv => ModifiersAgree
  BY RInvModifiersAgree
<1> QED BY EventsInvariant, <1>1, PTL
=============================================================================
