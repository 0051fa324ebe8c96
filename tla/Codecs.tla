------------------------------- MODULE Codecs -------------------------------
(* The program's functions on texts and addresses, each called once, with  *)
(* what they promise of their answers: decoding (http/http_decode.c),      *)
(* base64 (http/base64.c), addresses (http/ip_addr.c).                     *)
EXTENDS Decode, Base64, Addresses

CONSTANTS
  Encoded,          \* texts to decode
  Path,             \* paths, from their first slash on
  Bytes64,          \* byte strings to encode
  Text64,           \* texts to decode as base64
  Ip,               \* addresses
  Port              \* port numbers

(* inet_ntop has a text for every address. *)
ASSUME IpAssumption == Ip \subseteq {Pton[t] : t \in DOMAIN Pton}

ASSUME PortAssumption == Port \subseteq 0..MaxPort

(* What base64 is asked to encode are strings of bytes; what it is asked   *)
(* to decode has no byte that its table of 128 has no entry for.           *)
ASSUME Base64Assumption == Bytes64 \subseteq Seq(Byte) /\ Text64 \subseteq Seq(0..127)

VARIABLES fn, in, out

codecsVars == <<fn, in, out>>

Mask == UNION {[family : {ip.family}, addr : {ip.addr}, cidr : 0..(ByteBits * Len(ip.addr))] : ip \in Ip}

IpPort == {[family |-> ip.family, addr |-> ip.addr, port |-> port] : ip \in Ip, port \in Port}

(* The bounds of a range: an IPv4 address, or none. *)
Bound == {<<>>} \cup {t \in DOMAIN Pton : Pton[t].family = AF_INET}

NoAnswer == <<>>

CodecsInit ==
  /\ \/ fn = "http_decode_string" /\ in \in Encoded \X (SUBSET {URL, HTML, ESCAPE} \ {{}})
     \/ fn = "http_decode_path" /\ in \in Path
     \/ fn = "b64_encode" /\ in \in Bytes64
     \/ fn = "b64_decode" /\ in \in Text64
     \/ fn = "ip_mask_match" /\ in \in Mask
     \/ fn = "ip_addr_compare" /\ in \in Ip \X Ip
     \/ fn = "ip4_match_range" /\ in \in Bound \X Bound
     \/ fn = "ip_port_to_str" /\ in \in IpPort
  /\ out = NoAnswer

Returns(f, answer) == fn = f /\ out = NoAnswer /\ out' = <<answer>> /\ UNCHANGED <<fn, in>>

CodecsNext ==
  \/ Returns("http_decode_string", http_decode_string(in[1], in[2]))
  \/ Returns("http_decode_path", http_decode_path(in))
  \/ Returns("b64_encode", b64_encode(in))
  \/ Returns("b64_decode", b64_decode(in))
  \/ Returns("ip_mask_match", {ip \in Ip : ip_mask_match(in, ip)})
  \/ Returns("ip_addr_compare", ip_addr_compare(in[1], in[2]))
  \/ Returns("ip4_match_range",
             {ip \in Ip : ip.family = AF_INET /\ ip4_match_range(ip.addr, in[1] \o <<DASH>> \o in[2])})
  \/ Returns("ip_port_to_str", ip_port_to_str(in))

CodecsSpec == CodecsInit /\ [][CodecsNext]_codecsVars

Answered(f) == fn = f /\ out # NoAnswer

answer == out[1]

-----------------------------------------------------------------------------
(* What an encoding is, one at a place of a text *)

(* At most n characters from i on. *)
Part(s, i, n) == SubSeq(s, i, Min({i + n - 1, Len(s)}))

Hex2(s, i) == i + 1 <= Len(s) /\ isxdigit(s[i]) /\ isxdigit(s[i + 1])

Value(s, i, j, base) == ToNumber(SubSeq(s, i, j), base) % 256

(* Digits are what the code takes for them, some control characters too. *)
AtUrl(s, i) ==
  LET Digit(j) == IF j <= Len(s) THEN character_to_digit(s[j]) ELSE -1
      Pair(j) == 16 * Digit(j) + Digit(j + 1)
  IN  {[n |-> n, c |-> Pair(i + n - 2)] :
         n \in {m \in {3, 4, 6} :
                  /\ ConvertCaseEx(Part(s, i, m - 2)) \in {<<37>>, <<37, 88>>, <<37, 85, 48, 48>>}
                  /\ Digit(i + m - 2) >= 0 /\ Digit(i + m - 1) >= 0 /\ Pair(i + m - 2) > 0}}
      \cup {[n |-> 6, c |-> (Pair(i + 4) + 32) % 256] :
              x \in {y \in {0} : /\ ConvertCaseEx(Part(s, i, 4)) = <<37, 85, 70, 70>>
                                 /\ i + 5 <= Len(s) /\ PERCENT \notin {s[i + 4], s[i + 5]}}}
      \cup {[n |-> 1, c |-> SP] : x \in {y \in {0} : s[i] = PLUS}}

AtHtml(s, i) ==
  LET Semi(j) == IF j <= Len(s) /\ s[j] = SEMI THEN j + 1 - i ELSE j - i
      dec == RunEnd(s, i + 2, isdigit)
      hex == RunEnd(s, i + 3, isxdigit)
      alnum == RunEnd(s, i + 1, isalnum)
  IN  {[n |-> Semi(dec), c |-> Value(s, i + 2, dec - 1, 10)] :
         x \in {y \in {0} : Part(s, i, 2) = <<AMP, HASH>> /\ dec > i + 2}}
      \cup {[n |-> Semi(hex), c |-> Value(s, i + 3, hex - 1, 16)] :
         x \in {y \in {0} : ConvertCaseEx(Part(s, i, 3)) = <<AMP, HASH, 88>> /\ hex > i + 3}}
      \cup {[n |-> Semi(alnum), c |-> e.is] :
         e \in {f \in Entities : s[i] = AMP /\ Starts(From(s, i + 1), f.name)}}

AtEscape(s, i) ==
  {[n |-> 2, c |-> e[2]] : e \in {f \in Escapes : Part(s, i, 2) = <<BACKSLASH, f[1]>>}}
  \cup {[n |-> 4, c |-> Value(s, i + 2, i + 3, 16)] :
         x \in {y \in {0} : ConvertCaseEx(Part(s, i, 2)) = <<BACKSLASH, 88>> /\ Hex2(s, i + 2)}}
  \cup {[n |-> m, c |-> Value(s, i + 1, i + m - 1, 8)] :
         m \in {k \in 2..4 : /\ s[i] = BACKSLASH /\ RunEnd(s, i + 1, isodigit) >= i + k
                             /\ k < 4 => RunEnd(s, i + 1, isodigit) = i + k}}

At(s, i, flags) ==
  UNION {IF URL \in flags THEN AtUrl(s, i) ELSE {}, IF HTML \in flags THEN AtHtml(s, i) ELSE {},
         IF ESCAPE \in flags THEN AtEscape(s, i) ELSE {}}

(* The texts one step less encoded than s. *)
Decoded(s, flags) ==
  UNION {{SubSeq(s, 1, i - 1) \o <<e.c>> \o From(s, i + e.n) : e \in At(s, i, flags)} : i \in DOMAIN s}

(* All that decoding, in any order, can make of s. *)
Decodings(s, flags) ==
  LET Reach[n \in 0..Len(s)] ==
        IF n = 0 THEN {s}
        ELSE LET before == Reach[n - 1] IN before \cup UNION {Decoded(t, flags) : t \in before}
  IN  Reach[Len(s)]

(* A character encoded, and the first character of the encoding again:     *)
(* %252541, &amp;amp;lt;, \134134n.                                        *)
Layers ==
  {[flag |-> URL, first |-> <<37>>, more |-> <<50, 53>>, last |-> <<52, 49>>, is |-> <<65>>],
   [flag |-> HTML, first |-> <<38>>, more |-> <<97, 109, 112, 59>>, last |-> <<108, 116, 59>>, is |-> <<60>>],
   [flag |-> ESCAPE, first |-> <<92>>, more |-> <<49, 51, 52>>, last |-> <<110>>, is |-> <<LF>>]}

(* One encoding and n more around it. *)
Layered(e, n) == e.first \o FlattenSeq([i \in 1..n |-> e.more]) \o e.last

(* http_decode_string: what it makes of a text comes from the text by      *)
(* decoding alone, and an encoding is left only when each of the 16 rounds *)
(* took at least a character.  Such a text there is: of encodings within   *)
(* each other a round takes one away, and the 17th and all below it stay.  *)
(* This is of texts shorter than the buffer; those of one or two           *)
(* characters are not decoded as URLs.                                     *)
DecodedInRounds ==
  Answered("http_decode_string") /\ Len(in[1]) < MAX_OUT =>
    LET flags == IF Len(in[1]) > 2 THEN in[2] ELSE in[2] \ {URL}
    IN  /\ answer \in Decodings(in[1], flags)
        /\ Decoded(answer, flags) # {} => Len(answer) + ROUNDS <= Len(in[1])
        /\ \A e \in Layers, n \in 0..Len(in[1]) : e.flag \in flags /\ in[1] = Layered(e, n) =>
             answer = (IF n < ROUNDS THEN e.is ELSE Layered(e, n - ROUNDS))

-----------------------------------------------------------------------------
(* The segments of a path that are not empty or ".". *)
Segments(s) ==
  LET Cut(r, c) == IF IsSlash(c) THEN Append(r, <<>>) ELSE Append(Front(r), Append(Last(r), c))
  IN  SelectSeq(FoldLeft(Cut, <<<<>>>>, s), LAMBDA seg : seg \notin {<<>>, <<DOT>>})

IsUp(seg) == seg = <<DOT, DOT>>

(* Where the segments lead, and whether they ever lead above the root. *)
Resolved(segs) ==
  LET Step(r, seg) ==
        IF ~IsUp(seg) THEN [r EXCEPT !.at = Append(@, seg)]
        ELSE IF r.at = <<>> THEN [r EXCEPT !.above = TRUE]
        ELSE [r EXCEPT !.at = Front(@)]
  IN  FoldLeft(Step, [at |-> <<>>, above |-> FALSE], segs)

(* http_decode_path: the path it leaves has no "." or ".." or empty        *)
(* segment and leads where the original did.  One that leads above the     *)
(* root is a fault, and so is one whose last segment goes back to it.      *)
PathResolved ==
  Answered("http_decode_path") =>
    LET r == Resolved(Segments(in))
        n == Len(in)
        backToRoot == r.at = <<>> /\ n > 2 /\ IsSlash(in[n - 2]) /\ IsUp(From(in, n - 1))
    IN  /\ answer.ret = (IF r.above \/ backToRoot THEN -1 ELSE 0)
        /\ answer.ret = 0 => /\ Segments(answer.path) = r.at
                             /\ \A i \in DOMAIN answer.path : answer.path[i] # BACKSLASH
                             /\ strlstr(answer.path, <<SLASH, SLASH>>) = 0

-----------------------------------------------------------------------------
(* b64_decode: it undoes b64_encode, and no two texts of base64 characters *)
(* stand for the same bytes.                                               *)
Base64Canonical ==
  /\ Answered("b64_encode") => b64_decode(answer) = in
  /\ Answered("b64_decode") =>
       \/ answer = INVALID
       \/ b64_encode(answer) = NoBlanks(in)

(* ip_mask_match: an address matches when its first cidr bits are those of *)
(* the mask, wherever in a byte the prefix ends; a netmask says the same   *)
(* as its cidr.                                                            *)
PrefixMatch ==
  Answered("ip_mask_match") =>
    /\ answer = {ip \in Ip : /\ ip.family = in.family
                             /\ \A i \in 0..(in.cidr - 1) : Bit(ip.addr, i) = Bit(in.addr, i)}
    /\ in.family = AF_INET => ip4_mask_to_cidr(ip4_cidr_to_mask(in.cidr)) = in.cidr

Sign(n) == IF n < 0 THEN -1 ELSE IF n > 0 THEN 1 ELSE 0

InOrder(ip1, ip2) == ip_addr_compare(ip1, ip2) <= 0

(* ip_addr_compare: within a family it is the order of the bits, so that   *)
(* swapping its arguments turns its sign.  A range "begin-end" holds the   *)
(* addresses between its bounds in that order, and a bound left out is     *)
(* none: this is what the code does.  ip_addr.h:83 writes of a range       *)
(* ">= begin || <= end", which holds of addresses outside it, too, and     *)
(* ip_addr.h:97 that "x.x.x.x-" is "x.x.x.x-0.0.0.0", an empty range;      *)
(* neither is so.                                                          *)
AddressOrder ==
  /\ Answered("ip_addr_compare") /\ in[1].family = in[2].family =>
       LET differ == {i \in 0..(ByteBits * Len(in[1].addr) - 1) : Bit(in[1].addr, i) # Bit(in[2].addr, i)}
       IN  Sign(answer) = (IF differ = {} THEN 0 ELSE IF Bit(in[1].addr, Min(differ)) = 0 THEN -1 ELSE 1)
  /\ Answered("ip4_match_range") =>
       answer = {ip \in Ip : /\ ip.family = AF_INET
                             /\ in[1] # <<>> => InOrder(Pton[in[1]], ip)
                             /\ in[2] # <<>> => InOrder(ip, Pton[in[2]])}

(* ip_port_from_str: it reads what ip_port_to_str writes, of either        *)
(* family, though the colons of an IPv6 address are also what ends it.     *)
PortRoundTrip ==
  Answered("ip_port_to_str") =>
    LET read == ip_port_from_str([family |-> "none", addr |-> <<>>, port |-> 0], answer)
    IN  read.ret = 0 /\ ip_port_compare(read.ip, in) = 0

=============================================================================
