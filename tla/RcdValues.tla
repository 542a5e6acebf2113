----------------------------- MODULE RcdValues -----------------------------
(***************************************************************************)
(* How rcd turns the JSON of a client into what a store holds and back:    *)
(* the grammar of every key type (render), what `get` reports of what is   *)
(* held (emit_value), and the arguments of an action (add_arg).  A client  *)
(* sends a value, reads the key and sends back what it read, as a settings *)
(* form does.  Text is a sequence of character classes: "f" a hex digit,   *)
(* "g" another letter, "0" and "3" digits, "n" a control byte, and signs   *)
(* for themselves.  Lengths are scaled down (the source's in comments).    *)
(***************************************************************************)
EXTENDS Integers, Sequences, FiniteSets, SequencesExt

CONSTANTS
    VKeys,      \* the key types tried
    VWide,      \* a number past the int range: narrowed, it lands at VWide % VWord
    VWord,      \* values of a narrowed int
    VOctet      \* the largest octet (255)

ASSUME VConstants == VWord \in Nat \ {0} /\ VWide \in Nat /\ VWide >= VWord /\ VOctet \in Nat /\ VKeys # {}

VARIABLES
    vkey,     \* the key being edited: a row of the table
    vdae,     \* what its daemon says when asked: "silent", "empty" (a placeholder) or "says";
              \* of the name server, whether resolv.conf names one, and an IPv4 one or another
    vheld,    \* what the store holds
    vask,     \* the value the client sent
    vread,    \* what get reported of it
    vwas,     \* what the store held when it was read
    vpc,      \* send, read, back, again, done; refused
    vwire     \* the name an action carried to its handler, or "none"

vvars == <<vkey, vdae, vheld, vask, vread, vwas, vpc, vwire>>

(***************************************************************************)
(* JSON values and stored text.                                            *)
(***************************************************************************)
Val(t, n, s) == [t |-> t, n |-> n, s |-> s]      \* n counts halves, so that 3 is one and a half
Missing == Val("missing", 0, <<>>)
Null == Val("null", 0, <<>>)
Bool(x) == Val("bool", IF x THEN 1 ELSE 0, <<>>)
Num(n) == Val("num", 2 * n, <<>>)
Str(s) == Val("str", 0, s)

Held(t, n, s) == [t |-> t, n |-> n, s |-> s]     \* t: "unset", "dec" (a number in decimal) or "text"
VUnset == Held("unset", 0, <<>>)
Dec(n) == Held("dec", n, <<>>)
Text(s) == Held("text", 0, s)
Refused == Held("refused", 0, <<>>)

\* One row of the table per type and flag that a value's path depends on.
Row(type, min, max) == [type |-> type, min |-> min, max |-> max, auto |-> FALSE, pct |-> FALSE, choices |-> <<>>,
                        reset |-> TRUE, kept |-> "file"]
keys ==
    [bool   |-> Row("V_BOOL", 0, 0),
     int    |-> Row("V_INT", 1, 4),
     auto   |-> [Row("V_INT", 0, 4) EXCEPT !.auto = TRUE],
     pct    |-> [Row("V_INT", 1, 4) EXCEPT !.pct = TRUE],
     label  |-> [Row("V_INT", 1, 2) EXCEPT !.choices = <<"off", "on">>],
     enum   |-> [Row("V_ENUM", 0, 0) EXCEPT !.choices = <<"h264", "two">>],
     cred   |-> Row("V_CRED", 0, 2),
     text   |-> Row("V_TEXT", 1, 2),
     secret |-> [Row("V_SECRET", 0, 3) EXCEPT !.kept = "store"],
     passwd |-> [Row("V_PASSWD", 2, 6) EXCEPT !.kept = "store", !.reset = FALSE],
     host   |-> Row("V_HOST", 0, 3),
     ipv4   |-> [Row("V_IPV4", 1, 0) EXCEPT !.kept = "store"],
     dns    |-> [Row("V_IPV4", 0, 0) EXCEPT !.kept = "dns"]]

rcd_key_resettable(k) == k.reset
rcd_type_secret(k) == k.type \in {"V_SECRET", "V_PASSWD"}

Alnum == {"f", "g", "0", "3"}
Over(s, set) == ToSet(s) \subseteq set

(***************************************************************************)
(* render: what a value becomes in its store, or a refusal.                *)
(***************************************************************************)
NarrowFirst(v, min, max) == LET n == (v.n \div 2) % VWord IN v.t = "num" /\ v.n % 2 = 0 /\ n \in min..max
\* check_int: the range is checked before the number is narrowed.
check_int(v, min, max) == v.t = "num" /\ v.n >= 2 * min /\ v.n <= 2 * max /\ v.n % 2 = 0

Narrowed(v) == (v.n \div 2) % VWord

label_to_num(k, s) ==
    LET i == SelectInSeq(k.choices, LAMBDA c : <<c>> = s) IN IF i = 0 THEN Refused ELSE Dec(k.min + i - 1)

Digit(c) == c \in {"0", "3"}
Value(c) == IF c = "3" THEN 3 ELSE 0
\* The number a run of digits spells.
Spelled(s) == FoldLeft(LAMBDA a, c : 10 * a + Value(c), 0, s)
Leading(s) == LET i == SelectInSeq(s, LAMBDA c : ~Digit(c)) IN IF i = 0 THEN s ELSE SubSeq(s, 1, i - 1)

\* pct_tenths: digits, at most one decimal, "%"; -1 for anything else.
pct_tenths(s) ==
    LET w == Leading(s)
        rest == SubSeq(s, Len(w) + 1, Len(s))
        dec == Len(rest) >= 2 /\ rest[1] = "." /\ Digit(rest[2])
        end == IF dec THEN SubSeq(rest, 3, Len(rest)) ELSE rest
    IN  IF Len(w) \in 1..3 /\ end = <<"%">> THEN 10 * Spelled(w) + (IF dec THEN Value(rest[2]) ELSE 0) ELSE -1
RCD_PCT_MIN == 5
RCD_PCT_MAX == 100

render_int(k, v) ==
    IF k.auto /\ v.t = "str" /\ v.s = <<"auto">> THEN Text(v.s)
    ELSE IF k.pct /\ v.t = "str" THEN IF pct_tenths(v.s) \in RCD_PCT_MIN..RCD_PCT_MAX THEN Text(v.s) ELSE Refused
    ELSE IF k.choices # <<>> /\ v.t = "str" THEN label_to_num(k, v.s)
    ELSE IF check_int(v, k.min, k.max) THEN Dec(Narrowed(v)) ELSE Refused

render_bool(v) ==
    IF v.t = "bool" \/ (v.t = "num" /\ v.n \in {0, 2}) THEN Text(<<IF v.n # 0 THEN "true" ELSE "false">>) ELSE Refused

render_cred(k, s) == Len(s) <= k.max /\ Over(s, Alnum \cup {"-", "_", "~", "."})

\* check_text: printable, and neither of the two that would end the quoted string.
Printable(c) == c # "n"
check_text(s, min, max) == Len(s) \in min..max /\ \A i \in DOMAIN s : Printable(s[i]) /\ s[i] # "q"

SecretLen == 2..3     \* 8 to 63
HexLen == 4           \* 64
render_secret(k, s) ==
    \/ s = <<>> /\ k.min = 0
    \/ Len(s) = HexLen /\ Over(s, {"f", "0", "3"})
    \/ Len(s) \in SecretLen /\ check_text(s, 0, Len(s))

PasswdAnyDollar(k, s) ==
    Len(s) <= k.max /\ (\A i \in DOMAIN s : s[i] # ":") /\ (Len(s) >= k.min \/ (s # <<>> /\ s[1] = "$"))
\* A value that begins '$' must be a whole $id$salt$digest; ":" stands for all that /etc/shadow cannot hold.
render_passwd(k, s) ==
    /\ Len(s) <= k.max /\ \A i \in DOMAIN s : s[i] # ":"
    /\ IF s # <<>> /\ s[1] = "$"
       THEN Cardinality({i \in DOMAIN s : s[i] = "$"}) >= 3 /\ Last(s) # "$"
       ELSE Len(s) >= k.min

render_host(k, s) ==
    Len(s) \in 1..k.max /\ Over(s, Alnum \cup {".", "-"}) /\ {s[1], Last(s)} \cap {".", "-"} = {}

OctetLoose(st, c) ==
    IF Digit(c) THEN [st EXCEPT !.value = 10 * @ + Value(c), !.digits = @ + 1, !.bad = @ \/ 10 * st.value + Value(c) > VOctet]
    ELSE IF c = "." THEN [bad |-> st.bad \/ st.digits = 0, octet |-> st.octet + 1, digits |-> 0, value |-> 0]
    ELSE [st EXCEPT !.bad = TRUE]
\* One character of the address scanner: a leading zero, a number too large or an empty one is bad.
Octet(st, c) ==
    IF Digit(c)
    THEN [st EXCEPT !.value = 10 * @ + Value(c), !.digits = @ + 1,
                    !.bad = @ \/ (st.digits = 1 /\ st.value = 0) \/ 10 * st.value + Value(c) > VOctet]
    ELSE IF c = "." THEN [bad |-> st.bad \/ st.digits = 0, octet |-> st.octet + 1, digits |-> 0, value |-> 0]
    ELSE [st EXCEPT !.bad = TRUE]
render_ipv4(k, s) ==
    IF s = <<>> THEN k.min = 0
    ELSE LET e == FoldLeft(Octet, [bad |-> FALSE, octet |-> 0, digits |-> 0, value |-> 0], Append(s, "."))
         IN  ~e.bad /\ e.octet = 4

\* A number is spelled out first, so that a numeric choice matches either way.
render_enum(k, v) ==
    LET given == IF v.t = "num" THEN <<IF v.n = 4 THEN "two" ELSE "other">> ELSE v.s
        i == SelectInSeq(k.choices, LAMBDA c : <<c>> = given)
    IN  IF v.t \in {"str", "num"} /\ v.n % 2 = 0 /\ i > 0 THEN Text(<<k.choices[i]>>) ELSE Refused

render(k, v) ==
    LET As(ok) == IF v.t = "str" /\ ok THEN Text(v.s) ELSE Refused
    IN  IF v = Null THEN IF rcd_key_resettable(k) THEN VUnset ELSE Refused
        ELSE IF v = Missing THEN Refused
        ELSE
        CASE k.type = "V_BOOL" -> render_bool(v)
          [] k.type = "V_INT" -> render_int(k, v)
          [] k.type = "V_CRED" -> As(render_cred(k, v.s))
          [] k.type = "V_TEXT" -> As(check_text(v.s, k.min, k.max))
          [] k.type = "V_SECRET" -> As(render_secret(k, v.s))
          [] k.type = "V_PASSWD" -> As(render_passwd(k, v.s))
          [] k.type = "V_HOST" -> As(render_host(k, v.s))
          [] k.type = "V_IPV4" -> As(render_ipv4(k, v.s))
          [] OTHER -> render_enum(k, v)

(***************************************************************************)
(* get.                                                                    *)
(***************************************************************************)
\* strtol: the digits a text begins with.
strtol(h) == IF h.t = "dec" THEN h.n ELSE Spelled(Leading(h.s))

\* typed_value: an integer's two kinds of word stay words.
typed_value(k, h) ==
    CASE k.type = "V_BOOL" -> Bool(h.s = <<"true">>)
      [] k.type = "V_INT" ->
           IF h.t = "text" /\ ((k.auto /\ h.s = <<"auto">>) \/ (k.pct /\ "%" \in ToSet(h.s))) THEN Str(h.s) ELSE Num(strtol(h))
      [] OTHER -> Str(h.s)

\* What the daemon resolves an absent key to: the least value of its type.
Resolved(k) ==
    CASE k.type = "V_BOOL" -> Text(<<"false">>) [] k.type = "V_INT" -> Dec(k.min)
      [] k.type = "V_ENUM" -> Text(<<k.choices[1]>>) [] OTHER -> Text(<<"g">>)

\* dns_get, with no server stored: the one resolv.conf names, which need not be an IPv4 address.
Resolving(d) ==
    IF d = "says" THEN Text(<<"3", ".", "3", ".", "3", ".", "3">>) ELSE IF d = "other" THEN Text(<<"f", ":", "f">>) ELSE VUnset

\* emit_value: a secret is never read; a store of its own is the only answer; else the daemon's, unless it is
\* an empty placeholder, else the file's.
Raw(k, d, h) ==
    IF h.t # "unset" THEN h
    ELSE IF k.kept = "dns" THEN Resolving(d)
    ELSE IF k.kept = "file" /\ d = "says" THEN Resolved(k) ELSE VUnset
emit_value(k, d, h) ==
    IF rcd_type_secret(k) \/ Raw(k, d, h).t = "unset" THEN Missing ELSE typed_value(k, Raw(k, d, h))

(***************************************************************************)
(* Actions.                                                                *)
(***************************************************************************)
NameMax == 3          \* OSD_NAME_MAX
rcd_osd_name_ok(s) == Len(s) \in 1..(NameMax - 1) /\ Over(s, Alnum \cup {"_", "-"})
rcd_osd_new_name_ok(s) == rcd_osd_name_ok(s) /\ ~Over(s, {"0", "3"})

\* add_arg for the name an overlay element is given.
add_arg(v, fresh) ==
    v.t = "str" /\ (IF fresh THEN rcd_osd_new_name_ok(v.s) ELSE rcd_osd_name_ok(v.s))

(***************************************************************************)
(* What clients send, and the exchange.                                    *)
(***************************************************************************)
Words(alphabet, n) == UNION {[1..i -> alphabet] : i \in 0..n}
Common == {Null, Missing, Bool(TRUE), Num(0), Num(1), Num(2), Num(4), Num(5), Num(VWide), Val("num", 3, <<>>), Str(<<>>)}
Inputs(name) ==
    Common \cup {Str(s) : s \in
      CASE name = "pct" -> Words({"0", "3", ".", "%"}, 5)
        [] name \in {"bool", "int", "auto", "label", "enum"} -> {<<"auto">>, <<"on">>, <<"two">>, <<"h264">>, <<"3">>}
        [] name = "cred" -> Words({"g", "~", ":", "n"}, 3)
        [] name = "text" -> Words({"g", " ", "q", "n"}, 3)
        [] name = "secret" -> Words({"f", "g", "q", "n"}, 5)
        [] name = "passwd" -> Words({"$", "g", ":"}, 7)
        [] name = "host" -> Words({"g", ".", "-", "_"}, 4)
        [] OTHER -> Words({".", "0", "3"}, 8)}

VInit ==
    /\ \/ \E n \in VKeys : vkey = keys[n] /\ vask \in Inputs(n) /\ vpc = "send"
       \/ vkey = keys.text /\ vask \in {Str(s) : s \in Words({"g", "3", "_", "."}, 3)} \cup {Null, Num(1)} /\ vpc = "act"
    /\ vdae \in (CASE vkey.kept = "file" -> {"silent", "empty", "says"}
                   [] vkey.kept = "dns" -> {"silent", "says", "other"} [] OTHER -> {"silent"})
    /\ vheld = VUnset /\ vread = Missing /\ vwas = VUnset /\ vwire = <<>>

\* What a store holds of a value: an empty one takes the line or the variable away.
Kept(k, h) == IF k.kept # "file" /\ h = Text(<<>>) THEN VUnset ELSE h

\* rcd_set_validate and the store: a refused request changes nothing.
SetValue(from, to) ==
    /\ vpc = from
    /\ LET h == render(vkey, vask)
       IN  IF h = Refused THEN vpc' = "refused" /\ UNCHANGED vheld ELSE vpc' = to /\ vheld' = Kept(vkey, h)
    /\ UNCHANGED <<vkey, vdae, vask, vread, vwas, vwire>>

\* rcd_cmd_get, and a form that sends back what it was given; what it was not given it leaves out.
Get ==
    /\ vpc \in {"read", "again"} /\ vread' = emit_value(vkey, vdae, vheld)
    /\ vpc' = IF vpc = "again" \/ vread' = Missing THEN "done" ELSE "back"
    /\ vask' = IF vpc = "read" THEN vread' ELSE vask
    /\ vwas' = IF vpc = "read" THEN vheld ELSE vwas
    /\ UNCHANGED <<vkey, vdae, vheld, vwire>>

\* rcd_action_validate: only the fields the entry names are carried.
Act(fresh) ==
    /\ vpc = "act" /\ add_arg(vask, fresh) /\ vwire' = vask.s
    /\ vpc' = IF fresh THEN "named" ELSE "acted"
    /\ UNCHANGED <<vkey, vdae, vheld, vask, vread, vwas>>

VNext == SetValue("send", "read") \/ Get \/ SetValue("back", "again") \/ \E fresh \in BOOLEAN : Act(fresh)

VSpec == VInit /\ [][VNext]_vvars

-----------------------------------------------------------------------------
VTypeOK ==
    /\ vkey \in {keys[n] : n \in DOMAIN keys} /\ vheld.t \in {"unset", "dec", "text"}
    /\ vpc \in {"send", "read", "back", "again", "done", "refused", "act", "named", "acted"}

\* A settings form can be saved as it stands: what get reports of a key is accepted when it is sent back, reads
\* the same afterwards, and leaves in the store what was there if anything was (render, typed_value, emit_value).
\* Of a key that was not set, or set to nothing, the form is shown what is in use - the daemon's default, or the
\* server of resolv.conf (rcd_network.c:447) - and saving it pins that; a server there that is not an IPv4
\* address is refused.
FormRepeats ==
    /\ vread # Missing => vpc # "refused" \/ vdae = "other"
    /\ vpc = "again" /\ vwas # VUnset => vheld = vwas
    /\ vpc = "done" /\ vread # Missing => vread = vask

Spellings == {<<"0">>, <<"3">>} \cup {s \in [1..2 -> {"0", "3"}] : s[1] # "0" /\ Spelled(s) <= VOctet}

\* Whatever a client sends, what is stored is what its store can hold and its reader takes the way it was meant:
\* an address is taken exactly when it is four canonical octets, a number is the number sent, text fits its line
\* and its field, a stored hash has a digest, an element's name is a section's and a new one is not a number.
StoredSound ==
    /\ vheld.t = "dec" => vheld.n \in vkey.min..vkey.max /\ (vask.t = "num" => vask.n = 2 * vheld.n)
    /\ vheld.t = "text" /\ vkey.type \in {"V_CRED", "V_TEXT", "V_SECRET", "V_HOST", "V_PASSWD"} =>
         ToSet(vheld.s) \cap (IF vkey.type = "V_PASSWD" THEN {":"} ELSE {"n", "q"}) = {}
    /\ vkey.type = "V_PASSWD" /\ vheld.t = "text" /\ Head(vheld.s) = "$" =>
         \E i, j \in 2..Len(vheld.s) - 1 : i < j /\ vheld.s[i] = "$" /\ vheld.s[j] = "$"
    /\ vkey.type = "V_IPV4" /\ vask.t = "str" /\ vask.s # <<>> /\ vpc \in {"read", "refused"} =>
         (vpc = "read" <=> \E a, b, c, d \in Spellings : vask.s = a \o <<".">> \o b \o <<".">> \o c \o <<".">> \o d)
    /\ vwire # <<>> => "." \notin ToSet(vwire) /\ (vpc = "named" => ~Over(vwire, {"0", "3"}))
=============================================================================
