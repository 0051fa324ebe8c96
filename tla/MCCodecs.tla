------------------------------ MODULE MCCodecs ------------------------------
(* Texts made of up to six pieces that encodings consist of, encodings in  *)
(* up to 20 layers, all paths of up to seven characters, addresses of two  *)
(* and five bytes of two bits.                                             *)
EXTENDS Codecs

UpTo(n, S) == UNION {[1..k -> S] : k \in 1..n}

Texts(n, Piece) == {FlattenSeq(p) : p \in UpTo(n, Piece)}

(* %  2  5  4      %  x  4  1 *)
Percented == UpTo(5, {37, 50, 53, 52}) \cup UpTo(5, {37, 120, 52, 49})

(* %u00  %UFF  %  4  1  + *)
Wide == Texts(4, {<<37, 117, 48, 48>>, <<37, 85, 102, 70>>, <<37>>, <<52>>, <<49>>, <<43>>})

(* &#x  &#  &amp  gt  \x  \  %  25  6  ; *)
Mixed ==
  Texts(3, {<<38, 35, 120>>, <<38, 35>>, <<38, 97, 109, 112>>, <<71, 116>>, <<92, 120>>,
            <<92>>, <<37>>, <<50, 53>>, <<54>>, <<59>>})

(* More layers than rounds; with 20 of "amp;", longer than the buffer. *)
Nested == {Layered(e, n) : e \in Layers, n \in 0..(ROUNDS + 4)}

MCEncoded == Percented \cup Wide \cup Mixed \cup Nested

(* / . a \ *)
MCPath == {<<47>> \o p : p \in UpTo(6, {47, 46, 97}) \cup UpTo(4, {47, 46, 97, 92})}

MCBytes64 == UpTo(4, {0, 77, 190, 255})

(* A  Q  g  /  =  blank  - *)
MCText64 == UpTo(4, {65, 81, 103, 47, 61, 32, 45}) \cup {<<65, 81, 81, 65>> \o t : t \in UpTo(4, {65, 81, 61})}

MCIp ==
  {[family |-> AF_INET, addr |-> a] : a \in [1..2 -> 0..3]}
  \cup {[family |-> AF_INET6, addr |-> <<0>> \o a \o <<2>>] : a \in [1..3 -> {0, 1, 3}]}

(* 0.1 and 0:1:2:3:0, a digit a byte *)
TextOf(ip) ==
  LET sep == IF ip.family = AF_INET THEN DOT ELSE COLON
      Upto[n \in 1..Len(ip.addr)] ==
        IF n = 1 THEN <<48 + ip.addr[1]>> ELSE Upto[n - 1] \o <<sep, 48 + ip.addr[n]>>
  IN  Upto[Len(ip.addr)]

MCPton == [t \in {TextOf(ip) : ip \in MCIp} |-> CHOOSE ip \in MCIp : TextOf(ip) = t]

MCPort == {0, 7, 80, 65535}

=============================================================================
