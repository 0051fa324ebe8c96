----------------------------- MODULE Addresses -----------------------------
(* http/ip_addr.c: IPv4 and IPv6 addresses, prefixes, and addresses with   *)
(* a port.  An address is its family and its bytes in network order.       *)
EXTENDS Chars

CONSTANTS
  ByteBits,         \* bits of a byte: 8
  N4, N6,           \* bytes of an address: 4 and 16
  Pton              \* inet_pton: the address each text stands for

ASSUME WidthAssumption == ByteBits \in Nat \ {0} /\ N4 \in Nat \ {0} /\ N6 \in Nat /\ N6 >= N4 + 2

(* 1 << n, as a number without a width. *)
Pow2[n \in Nat] == IF n = 0 THEN 1 ELSE 2 * Pow2[n - 1]

AF_INET == "AF_INET"
AF_INET6 == "AF_INET6"

Full == Pow2[ByteBits] - 1
Octet == 0..Full
Bits4 == ByteBits * N4

V4 == [family : {AF_INET}, addr : [1..N4 -> Octet]]
V6 == [family : {AF_INET6}, addr : [1..N6 -> Octet]]

(* The texts inet_pton takes are made of these characters; only those of   *)
(* IPv6 have colons, and all of them have.                                 *)
ASSUME PtonAssumption ==
  \A t \in DOMAIN Pton :
    \/ Pton[t] \in V4 /\ t \in Seq({DOT} \cup (48..57))
    \/ Pton[t] \in V6 /\ t \in Seq({DOT, COLON} \cup (48..57) \cup (65..70) \cup (97..102))
                      /\ COLON \in ToSet(t)

(* An IPv4 address as a number. *)
ntohl(addr) == Read(LAMBDA n, b : n * (Full + 1) + b, 0, addr)

htonl(n) == [i \in 1..N4 |-> (n \div Pow2[ByteBits * (N4 - i)]) % (Full + 1)]

(* Its bits, from the first. *)
Bit(addr, i) == (addr[1 + (i \div ByteBits)] \div Pow2[ByteBits - 1 - (i % ByteBits)]) % 2

-----------------------------------------------------------------------------
(* Prefixes *)

ip4_cidr_to_mask(cidr) ==
  IF cidr <= 0 \/ cidr > Bits4 THEN htonl(0)
  ELSE htonl(Pow2[Bits4] - Pow2[Bits4 - cidr])

(* The place of the lowest bit that is set. *)
ip4_mask_to_cidr(mask) ==
  LET low == {i \in 0..(Bits4 - 1) : (ntohl(mask) \div Pow2[i]) % 2 = 1}
  IN  Bits4 - (IF low = {} THEN Bits4 ELSE Min(low))

(* _s_mask_partial, applied to a byte. *)
Masked(b, partial) == (b \div Pow2[ByteBits - partial]) * Pow2[ByteBits - partial]

(* ip_addr_apply_mask, -1 being the address as it was: the partial mask    *)
(* is applied to the byte behind the one it is meant for, which is then    *)
(* cleared with all that follow; IPv4 takes no cidr of all bits.           *)
ip_addr_apply_mask(ip, cidr) ==
  LET n == Len(ip.addr)
      max == IF ip.family = AF_INET THEN Bits4 - 1 ELSE ByteBits * N6
      whole == cidr \div ByteBits
      start == IF cidr % ByteBits = 0 THEN whole ELSE whole + 1
  IN  IF cidr < 1 \/ cidr > max THEN ip
      ELSE [ip EXCEPT !.addr = [i \in 1..n |-> IF i <= start THEN @[i] ELSE 0]]

(* Faulty: the byte that the prefix ends in is not compared. *)
ip_mask_match_Whole(mask, ip) ==
  /\ mask.family = ip.family
  /\ \A i \in 1..(mask.cidr \div ByteBits) : mask.addr[i] = ip.addr[i]

(* The byte behind the last one, which a whole prefix reads, is masked out. *)
ip_mask_match(mask, ip) ==
  LET whole == mask.cidr \div ByteBits
      partial == mask.cidr % ByteBits
  IN  /\ mask.family = ip.family
      /\ \/ mask.cidr = 0
         \/ /\ SubSeq(mask.addr, 1, whole) = SubSeq(ip.addr, 1, whole)
            /\ partial > 0 => Masked(mask.addr[whole + 1], partial) = Masked(ip.addr[whole + 1], partial)

ip_mask_is_wildcard(mask) == mask.cidr = 0 /\ \A i \in DOMAIN mask.addr : mask.addr[i] = 0

-----------------------------------------------------------------------------
(* Order *)

(* memcmp, as a sign. *)
memcmp(a, b) ==
  LET differ == {i \in DOMAIN a : a[i] # b[i]}
  IN  IF differ = {} THEN 0 ELSE IF a[Min(differ)] < b[Min(differ)] THEN -1 ELSE 1

V4Mapped(v4) ==
  [family |-> AF_INET6,
   addr |-> [i \in 1..(N6 - N4) |-> IF i > N6 - N4 - 2 THEN Full ELSE 0] \o v4.addr]

(* ip_addr_v6_to_v4: IPv4-mapped addresses and, from 2 on, compatible ones. *)
IsV4(v6) ==
  \/ v6 = V4Mapped([family |-> AF_INET, addr |-> SubSeq(v6.addr, N6 - N4 + 1, N6)])
  \/ /\ \A i \in 1..(N6 - N4) : v6.addr[i] = 0
     /\ ntohl(SubSeq(v6.addr, N6 - N4 + 1, N6)) > 1

ip_addr_v6_to_v4(v6) ==
  IF v6.family = AF_INET6 /\ IsV4(v6)
  THEN [family |-> AF_INET, addr |-> SubSeq(v6.addr, N6 - N4 + 1, N6)] ELSE v6

(* Faulty: byte by byte from the last. *)
ip_addr_compare_Last(ip1, ip2) ==
  IF ip1.family = ip2.family
  THEN LET differ == {i \in DOMAIN ip1.addr : ip1.addr[i] # ip2.addr[i]}
       IN  IF differ = {} THEN 0
           ELSE IF ip1.addr[Max(differ)] <= ip2.addr[Min(differ)] THEN -1 ELSE 1
  ELSE IF ip1.family = AF_INET THEN -1 ELSE memcmp(ip1.addr, V4Mapped(ip2).addr)

(* With an IPv4 address on the left of an IPv6 one, the code tries to      *)
(* convert the right one, which cannot be.                                 *)
ip_addr_compare(ip1, ip2) ==
  CASE ip1.family = ip2.family -> memcmp(ip1.addr, ip2.addr)
    [] ip1.family = AF_INET /\ ip2.family = AF_INET6 -> -1
    [] OTHER -> memcmp(ip1.addr, V4Mapped(ip2).addr)

(* ip_mask_compare, ip_port_compare: then by the number beside it. *)
ip_mask_compare(m1, m2) ==
  LET ret == ip_addr_compare(m1, m2) IN IF ret # 0 THEN ret ELSE m1.cidr - m2.cidr

ip_port_compare(p1, p2) ==
  LET ret == ip_addr_compare(p1, p2) IN IF ret # 0 THEN ret ELSE p1.port - p2.port

ip4_in_range(ip, begin, end) == ntohl(ip) >= ntohl(begin) /\ ntohl(ip) <= ntohl(end)

-----------------------------------------------------------------------------
(* Text *)

Ok(ip) == [ret |-> 0, ip |-> ip]

Error(ip) == [ret |-> -1, ip |-> ip]

strchr(s, c) == SelectInSeq(s, LAMBDA b : b = c)

atoi(s) ==
  LET k == RunEnd(s, 1, isspace)
      minus == k <= Len(s) /\ s[k] = DASH
      i == IF k <= Len(s) /\ s[k] \in {DASH, PLUS} THEN k + 1 ELSE k
      n == ToNumber(SubSeq(s, i, RunEnd(s, i, isdigit) - 1), 10)
  IN  IF minus THEN -n ELSE n

(* A text with a blank in it is taken, and ip stays what it was. *)
ip_addr_from_str(ip, str) ==
  LET family == IF strchr(str, COLON) > 0 THEN AF_INET6 ELSE AF_INET
  IN  IF \E i \in DOMAIN str : isspace(str[i]) THEN Ok(ip)
      ELSE IF str \in DOMAIN Pton /\ Pton[str].family = family
           THEN Ok([ip EXCEPT !.family = family, !.addr = Pton[str].addr])
           ELSE Error([ip EXCEPT !.family = family])

MaxPort == 65535

SetPort(parsed, text, digitsOnly) ==
  LET port == atoi(text)
  IN  IF parsed.ret # 0 \/ ~digitsOnly \/ port < 0 \/ port > MaxPort
      THEN Error(parsed.ip)
      ELSE Ok([parsed.ip EXCEPT !.port = port])

(* Digits up to the first blank. *)
DigitsOnly(text) == \A i \in 1..(RunEnd(text, 1, LAMBDA b : ~isspace(b)) - 1) : isdigit(text[i])

(* The loop stops at the first character that is not a blank, and a blank  *)
(* is no digit: of the digits themselves nothing is asked.                 *)
NotBlank(text) == text = <<>> \/ ~isspace(text[1])

(* [x:x:...]:port; what follows "]" is skipped whatever it is. *)
PortFromStr6(ip, str) ==
  LET at == strchr(str, 93)
  IN  IF at = 0 THEN Error(ip)
      ELSE SetPort(ip_addr_from_str(ip, SubSeq(str, 2, at - 1)), From(str, at + 2), DigitsOnly(From(str, at + 2)))

(* x.x.x.x:port *)
PortFromStr4(ip, str) ==
  LET at == strchr(str, COLON)
  IN  IF at = 0 THEN Error(ip)
      ELSE SetPort(ip_addr_from_str(ip, SubSeq(str, 1, at - 1)), From(str, at + 1), NotBlank(From(str, at + 1)))

ip_port_from_str(ip, str) ==
  IF Len(str) > 0 /\ str[1] = 91 THEN PortFromStr6(ip, str) ELSE PortFromStr4(ip, str)

(* inet_ntop: the text of an address. *)
Ntop(ip) == CHOOSE t \in DOMAIN Pton : Pton[t] = [family |-> ip.family, addr |-> ip.addr]

Decimal(n) ==
  LET Digits[k \in 0..n] == IF k < 10 THEN <<48 + k>> ELSE Append(Digits[k \div 10], 48 + (k % 10))
  IN  Digits[n]

(* Faulty: an IPv6 address is written without its brackets. *)
ip_port_to_str_Plain(ip) == Ntop(ip) \o <<COLON>> \o Decimal(ip.port)

ip_port_to_str(ip) ==
  (IF ip.family = AF_INET6 THEN <<91>> \o Ntop(ip) \o <<93>> ELSE Ntop(ip))
    \o <<COLON>> \o Decimal(ip.port)

ip4_from_str(str) ==
  IF str \in DOMAIN Pton /\ Pton[str].family = AF_INET THEN Pton[str].addr ELSE htonl(0)

(* ip4_match_range, "begin-end": either may be left out. *)
MatchRange(ip, range) ==
  LET at == strchr(range, DASH)
  IN  ip4_in_range(ip,
        IF at = 1 THEN htonl(0) ELSE ip4_from_str(SubSeq(range, 1, at - 1)),
        IF at = Len(range) THEN [i \in 1..N4 |-> Full] ELSE ip4_from_str(From(range, at + 1)))

(* On a little endian machine the host bits of the end are set in its      *)
(* first bytes: the bytes of a network number are turned round.            *)
HostEnd(value, host) ==
  LET turned == ntohl(Reverse(value))
      low == turned % Pow2[host]
  IN  Reverse(htonl(turned - low + Pow2[host] - 1))

(* ip4_match_range, "net/cidr" and "net/mask". *)
MatchSubnet(ip, range) ==
  LET at == strchr(range, SLASH)
      value == ip4_from_str(SubSeq(range, 1, at - 1))
      bits == From(range, at + 1)
      cidr == IF strchr(bits, DOT) > 0 THEN ip4_mask_to_cidr(ip4_from_str(bits)) ELSE atoi(bits)
      host == Bits4 - cidr
  IN  IF cidr <= 0 \/ cidr >= Bits4 \/ ntohl(value) % Pow2[host] # 0
      THEN value = ip
      ELSE ip4_in_range(ip, value, HostEnd(value, host))

ip4_match_range(ip, range) ==
  IF strchr(range, DASH) > 0 THEN MatchRange(ip, range)
  ELSE IF strchr(range, SLASH) > 0 THEN MatchSubnet(ip, range)
  ELSE ip4_from_str(range) = ip

=============================================================================
