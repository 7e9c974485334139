------------------------ MODULE PSCProxyProtocolProofs ------------------------
(***************************************************************************)
(* PSCProxyProtocol for every size of a byte and every set of strings and  *)
(* bodies that a packet has room for: the bytes of a packet decide what    *)
(* Packets decides, and parse takes out what prepare was given.            *)
(***************************************************************************)
EXTENDS PSCProxyProtocol, SequenceTheorems, TLAPS

OneByte == 0 .. ByteSize - 1

(* What the type byte says is the type that Packets has, as many bytes as  *)
(* the size field says are there when Packets calls it whole, and then     *)
(* what was given is behind the header.                                    *)
PacketInv ==
  data # <<>> =>
    /\ packet.type \in DOMAIN PacketType /\ data[3] = PacketType[packet.type]
    /\ packet.whole <=> getSize(data) = Len(data)
    /\ packet.whole => body(data) = given
    /\ Len(data) > 3 => packet.whole

(* The body of an AUTH_REQUEST: the version, the user and the password.    *)
AuthBytes(u, p) == <<protoVersion>> \o CStr(u) \o CStr(p)

(* The bodies that decide a verdict. *)
AuthInv ==
  packet.whole /\ packet.type = "AUTH_REQUEST" =>
    \E u, p \in Strings :
      /\ given = AuthBytes(u, p)
      /\ packet.body = IF u = user /\ p = pass THEN "good" ELSE "bad"

ReplyInv ==
  packet.whole /\ packet.type = "AUTH_REPLY" =>
    \/ given = <<AUTHORIZED>> /\ packet.body = "AUTHORIZED"
    \/ given = <<UNAUTHORIZED>> /\ packet.body = "UNAUTHORIZED"

IInv ==
  /\ TypeOK /\ packet.whole \in BOOLEAN
  /\ data = <<>> => packet.type = "none" /\ ~ packet.whole
  /\ PacketInv /\ AuthInv /\ ReplyInv

-----------------------------------------------------------------------------
(* The size field.                                                         *)

(* A size below the square of ByteSize comes back from its two bytes.      *)
LEMMA SizeField ==
  ASSUME NEW n \in Nat, n < ByteSize * ByteSize
  PROVE  /\ setSize(n) \in Seq(OneByte) /\ Len(setSize(n)) = 2
         /\ getSize(setSize(n)) = n
<1> DEFINE q == n \div ByteSize
           r == n % ByteSize
<1>0. ByteSize \in Nat /\ ByteSize > 5
  BY ProtocolAssumption
<1>1. q \in Nat /\ r \in OneByte /\ n = ByteSize * q + r
  BY <1>0 DEF OneByte
<1>2. q < ByteSize
  <2> HIDE DEF q, r
  <2> SUFFICES ASSUME q >= ByteSize PROVE FALSE
    BY <1>0, <1>1
  <2>1. ByteSize * q >= ByteSize * ByteSize
    BY <1>0, <1>1
  <2> QED BY <1>0, <1>1, <2>1 DEF OneByte
<1>3. q % ByteSize = q
  <2> HIDE DEF q
  <2> QED BY <1>0, <1>1, <1>2
<1>4. setSize(n) = <<q, r>>
  BY <1>3 DEF setSize
<1> HIDE DEF q, r
<1>5. q \in OneByte
  BY <1>0, <1>1, <1>2 DEF OneByte
<1>6. q * ByteSize + r = n
  BY <1>0, <1>1 DEF OneByte
<1>7. Len(<<q, r>>) = 2 /\ <<q, r>> \in Seq(OneByte)
  BY <1>1, <1>5
<1>8. getSize(<<q, r>>) = n
  BY <1>6 DEF getSize
<1> QED BY <1>4, <1>7, <1>8

LEMMA Small ==
  ASSUME NEW n \in Nat, n <= 3 + ByteSize
  PROVE  n < ByteSize * ByteSize
<1>0. ByteSize \in Nat /\ ByteSize > 5
  BY ProtocolAssumption
<1>1. ByteSize * ByteSize >= 6 * ByteSize
  BY <1>0
<1> QED BY <1>0, <1>1

-----------------------------------------------------------------------------
LEMMA Joined ==
  ASSUME NEW a \in Seq(OneByte), NEW b \in Seq(OneByte)
  PROVE  /\ a \o b \in Seq(OneByte) /\ Len(a) \in Nat /\ Len(b) \in Nat /\ Len(a \o b) = Len(a) + Len(b)
         /\ \A i \in 1 .. Len(a) : (a \o b)[i] = a[i]
         /\ \A i \in 1 .. Len(b) : (a \o b)[Len(a) + i] = b[i]
OBVIOUS

(* A packet made of a size, a type and a body. *)
Packet(n, t, b) == setSize(n) \o <<PacketType[t]>> \o b

LEMMA PacketBytes ==
  ASSUME NEW n \in Nat, n < ByteSize * ByteSize, NEW t \in DOMAIN PacketType, NEW b \in Seq(OneByte)
  PROVE  /\ Packet(n, t, b) \in Seq(OneByte) /\ Len(Packet(n, t, b)) = 3 + Len(b)
         /\ Packet(n, t, b) # <<>> /\ Len(b) \in Nat
         /\ getSize(Packet(n, t, b)) = n
         /\ Packet(n, t, b)[3] = PacketType[t]
         /\ \A i \in 1 .. Len(b) : Packet(n, t, b)[3 + i] = b[i]
         /\ body(Packet(n, t, b)) = b
<1> DEFINE s == setSize(n)
           h == s \o <<PacketType[t]>>
           p == h \o b
<1>1. s \in Seq(OneByte) /\ Len(s) = 2 /\ getSize(s) = n
  BY SizeField
<1>2. PacketType[t] \in OneByte
  BY ProtocolAssumption DEF PacketType, OneByte
<1> HIDE DEF s
<1>3. /\ <<PacketType[t]>> \in Seq(OneByte) /\ Len(<<PacketType[t]>>) = 1
      /\ <<PacketType[t]>>[1] = PacketType[t]
  BY <1>2
<1>4. /\ h \in Seq(OneByte) /\ Len(h) = 3 /\ h[1] = s[1] /\ h[2] = s[2] /\ h[3] = PacketType[t]
  <2>1. /\ h \in Seq(OneByte) /\ Len(h) = Len(s) + Len(<<PacketType[t]>>)
        /\ \A i \in 1 .. Len(s) : h[i] = s[i]
        /\ \A i \in 1 .. Len(<<PacketType[t]>>) : h[Len(s) + i] = <<PacketType[t]>>[i]
    BY <1>1, <1>3, Joined
  <2>2. 1 \in 1 .. 1 /\ 1 \in 1 .. 2 /\ 2 \in 1 .. 2 /\ 2 + 1 = 3
    OBVIOUS
  <2> QED BY <1>1, <1>3, <2>1, <2>2
<1> HIDE DEF h
<1>5. /\ p \in Seq(OneByte) /\ Len(p) = 3 + Len(b) /\ Len(b) \in Nat
      /\ \A i \in 1 .. 3 : p[i] = h[i]
      /\ \A i \in 1 .. Len(b) : p[3 + i] = b[i]
  <2>1. /\ p \in Seq(OneByte) /\ Len(b) \in Nat /\ Len(p) = Len(h) + Len(b)
        /\ \A i \in 1 .. Len(h) : p[i] = h[i]
        /\ \A i \in 1 .. Len(b) : p[Len(h) + i] = b[i]
    BY <1>4, Joined
  <2> HIDE DEF p
  <2> QED BY <1>4, <2>1
<1> HIDE DEF p
<1>6. p # <<>> /\ getSize(p) = n /\ p[3] = PacketType[t]
  BY <1>1, <1>4, <1>5 DEF getSize
<1>7. body(p) = b
  <2>1. body(p) \in Seq(OneByte) /\ Len(body(p)) = Len(b)
    BY <1>5, SubSeqProperties DEF body
  <2>2. \A i \in 1 .. Len(b) : body(p)[i] = p[3 + i]
    BY <1>5 DEF body
  <2> QED BY <1>5, <2>1, <2>2, SeqEqual
<1>8. Packet(n, t, b) = p
  BY DEF Packet, p, h, s
<1> QED BY <1>5, <1>6, <1>7, <1>8

LEMMA Prepared ==
  ASSUME NEW t \in DOMAIN PacketType, NEW b \in Seq(OneByte), Fits(Len(b))
  PROVE  /\ prepare(t, b) = Packet(3 + Len(b), t, b)
         /\ 3 + Len(b) \in Nat /\ 3 + Len(b) < ByteSize * ByteSize
BY DEF prepare, Packet, Fits

-----------------------------------------------------------------------------
(* The credentials.                                                        *)

(* A string and the 0 behind it. *)
LEMMA CStrBytes ==
  ASSUME NEW s \in Strings
  PROVE  /\ CStr(s) \in Seq(OneByte) /\ Len(s) \in Nat /\ Len(CStr(s)) = Len(s) + 1
         /\ \A i \in 1 .. Len(s) : CStr(s)[i] = s[i] /\ s[i] # 0
         /\ CStr(s)[Len(s) + 1] = 0
<1>1. s \in Seq(1 .. ByteSize - 1) /\ ByteSize \in Nat /\ ByteSize > 5
  BY ProtocolAssumption
<1>2. Len(s) \in Nat /\ \A i \in 1 .. Len(s) : s[i] \in 1 .. ByteSize - 1
  BY <1>1
<1>3. \A i \in 1 .. Len(s) : s[i] \in OneByte /\ s[i] # 0
  BY <1>1, <1>2 DEF OneByte
<1>4. s \in Seq(OneByte) /\ 0 \in OneByte
  BY <1>1, <1>2, <1>3 DEF OneByte
<1> QED BY <1>2, <1>3, <1>4, AppendProperties DEF CStr

(* Bytes that begin with s and its 0, and with t and its 0, show that the  *)
(* two are one.                                                            *)
LEMMA SameString ==
  ASSUME NEW s \in Strings, NEW t \in Strings,
         \A i \in 1 .. Len(s) + 1 : i <= Len(t) + 1 => CStr(s)[i] = CStr(t)[i]
  PROVE  s = t
<1>1. /\ Len(s) \in Nat /\ \A i \in 1 .. Len(s) : CStr(s)[i] = s[i] /\ s[i] # 0
      /\ CStr(s)[Len(s) + 1] = 0
  BY CStrBytes
<1>2. /\ Len(t) \in Nat /\ \A i \in 1 .. Len(t) : CStr(t)[i] = t[i] /\ t[i] # 0
      /\ CStr(t)[Len(t) + 1] = 0
  BY CStrBytes
<1>3. Len(s) = Len(t)
  <2>1. ~ Len(s) < Len(t)
    <3> SUFFICES ASSUME Len(s) < Len(t) PROVE FALSE
      OBVIOUS
    <3>1. Len(s) + 1 \in 1 .. Len(t) /\ Len(s) + 1 \in 1 .. Len(s) + 1 /\ Len(s) + 1 <= Len(t) + 1
      BY <1>1, <1>2
    <3> QED BY <1>1, <1>2, <3>1
  <2>2. ~ Len(t) < Len(s)
    <3> SUFFICES ASSUME Len(t) < Len(s) PROVE FALSE
      OBVIOUS
    <3>1. Len(t) + 1 \in 1 .. Len(s) /\ Len(t) + 1 <= Len(t) + 1 /\ Len(t) + 1 \in 1 .. Len(s) + 1
      BY <1>1, <1>2
    <3> QED BY <1>1, <1>2, <3>1
  <2> QED BY <1>1, <1>2, <2>1, <2>2
<1>4. \A i \in 1 .. Len(s) : s[i] = t[i]
  <2> TAKE i \in 1 .. Len(s)
  <2>1. i \in 1 .. Len(s) + 1 /\ i <= Len(t) + 1
    BY <1>1, <1>3
  <2> QED BY <1>1, <1>2, <1>3, <2>1
<1>5. s \in Seq(1 .. ByteSize - 1) /\ t \in Seq(1 .. ByteSize - 1)
  BY ProtocolAssumption
<1> QED BY <1>3, <1>4, <1>5, SeqEqual

(* The loop that compares comes to the 0 of its string.                    *)
LEMMA AgreesAll ==
  ASSUME NEW s \in Strings, NEW d, NEW from \in Nat, NEW n
  PROVE  Agrees(d, from, s, n) <=>
           /\ n = Len(s) + 1 /\ from + n - 1 <= Len(d)
           /\ \A i \in 1 .. Len(s) + 1 : d[from + i - 1] = CStr(s)[i]
<1>1. /\ Len(s) \in Nat /\ Len(CStr(s)) = Len(s) + 1
      /\ \A i \in 1 .. Len(s) : CStr(s)[i] # 0
      /\ CStr(s)[Len(s) + 1] = 0
  BY CStrBytes
<1>2. ASSUME Agrees(d, from, s, n) PROVE n = Len(s) + 1
  <2>1. n \in 1 .. Len(s) + 1 /\ \A i \in 1 .. n : (CStr(s)[i] = 0 <=> i = n)
    BY <1>1, <1>2 DEF Agrees
  <2>2. n \in 1 .. n
    BY <1>1, <2>1
  <2>3. n \notin 1 .. Len(s)
    BY <1>1, <2>1, <2>2
  <2> QED BY <1>1, <2>1, <2>3
<1>3. ASSUME n = Len(s) + 1
      PROVE  Agrees(d, from, s, n) <=>
               from + n - 1 <= Len(d) /\ \A i \in 1 .. Len(s) + 1 : d[from + i - 1] = CStr(s)[i]
  <2>1. n \in 1 .. Len(CStr(s))
    BY <1>1, <1>3
  <2>2. \A i \in 1 .. n : (CStr(s)[i] = 0 <=> i = n)
    BY <1>1, <1>3
  <2> QED BY <1>3, <2>1, <2>2 DEF Agrees
<1> QED BY <1>2, <1>3

LEMMA AuthBody ==
  ASSUME NEW u \in Strings, NEW p \in Strings, NEW b, b = AuthBytes(u, p)
  PROVE  /\ b \in Seq(OneByte) /\ Len(b) = 1 + Len(u) + 1 + Len(p) + 1 /\ Fits(Len(b))
         /\ b[1] = protoVersion
         /\ \A i \in 1 .. Len(u) + 1 : b[1 + i] = CStr(u)[i]
         /\ \A i \in 1 .. Len(p) + 1 : b[1 + (Len(u) + 1) + i] = CStr(p)[i]
<1> DEFINE a == <<protoVersion>> \o CStr(u)
<1>0. Len(u) \in Nat /\ Len(p) \in Nat
  BY CStrBytes
<1>1. <<protoVersion>> \in Seq(OneByte) /\ Len(<<protoVersion>>) = 1 /\ <<protoVersion>>[1] = protoVersion
  BY ProtocolAssumption DEF OneByte, protoVersion
<1>2. CStr(u) \in Seq(OneByte) /\ CStr(p) \in Seq(OneByte) /\ Len(CStr(u)) = Len(u) + 1 /\ Len(CStr(p)) = Len(p) + 1
  BY CStrBytes
<1>3. /\ a \in Seq(OneByte) /\ Len(a) = Len(<<protoVersion>>) + Len(CStr(u))
      /\ \A i \in 1 .. Len(<<protoVersion>>) : a[i] = <<protoVersion>>[i]
      /\ \A i \in 1 .. Len(CStr(u)) : a[Len(<<protoVersion>>) + i] = CStr(u)[i]
  BY <1>1, <1>2, Joined
<1> HIDE DEF a
<1>4. /\ Len(a) = 1 + (Len(u) + 1) /\ a[1] = protoVersion
      /\ \A i \in 1 .. Len(u) + 1 : a[1 + i] = CStr(u)[i]
  BY <1>0, <1>1, <1>2, <1>3
<1>5. /\ a \o CStr(p) \in Seq(OneByte) /\ Len(a \o CStr(p)) = Len(a) + Len(CStr(p))
      /\ \A i \in 1 .. Len(a) : (a \o CStr(p))[i] = a[i]
      /\ \A i \in 1 .. Len(CStr(p)) : (a \o CStr(p))[Len(a) + i] = CStr(p)[i]
  BY <1>2, <1>3, Joined
<1>6. b = a \o CStr(p)
  BY DEF a, AuthBytes
<1>7. b \in Seq(OneByte) /\ Len(b) = 1 + Len(u) + 1 + Len(p) + 1
  <2>1. Len(b) = (1 + (Len(u) + 1)) + (Len(p) + 1)
    BY <1>2, <1>4, <1>5, <1>6
  <2>2. Len(b) = 1 + Len(u) + 1 + Len(p) + 1
    BY <1>0, <2>1
  <2> QED BY <1>5, <1>6, <2>2
<1>8. b[1] = protoVersion /\ \A i \in 1 .. Len(u) + 1 : b[1 + i] = CStr(u)[i]
  <2>1. 1 \in 1 .. Len(a) /\ \A i \in 1 .. Len(u) + 1 : 1 + i \in 1 .. Len(a)
    BY <1>0, <1>4
  <2> QED BY <1>4, <1>5, <1>6, <2>1
<1>9. \A i \in 1 .. Len(p) + 1 : b[1 + (Len(u) + 1) + i] = CStr(p)[i]
  BY <1>2, <1>4, <1>5, <1>6
<1>10. Fits(1 + Len(u) + 1 + Len(p) + 1)
  BY ProtocolAssumption
<1> QED BY <1>7, <1>8, <1>9, <1>10

(* parseAuth accepts an AUTH_REQUEST that was made of u and p when both    *)
(* are the server's.                                                       *)
LEMMA AuthVerdict ==
  ASSUME NEW u \in Strings, NEW p \in Strings, NEW d \in Seq(OneByte),
         checkPacketSanity(d, "AUTH_REQUEST"),
         body(d) = AuthBytes(u, p)
  PROVE  parseAuth(d, user, pass) <=> u = user /\ p = pass
<1> DEFINE b == body(d)
<1>0. Len(u) \in Nat /\ Len(p) \in Nat /\ Len(user) \in Nat /\ Len(pass) \in Nat /\ user \in Strings /\ pass \in Strings
  BY CStrBytes, ProtocolAssumption
<1>1. /\ Len(b) = 1 + Len(u) + 1 + Len(p) + 1 /\ b[1] = protoVersion /\ b \in Seq(OneByte)
      /\ \A i \in 1 .. Len(u) + 1 : b[1 + i] = CStr(u)[i]
      /\ \A i \in 1 .. Len(p) + 1 : b[1 + (Len(u) + 1) + i] = CStr(p)[i]
  <2>1. b = AuthBytes(u, p)
    OBVIOUS
  <2> HIDE DEF b
  <2> QED BY <2>1, AuthBody
<1>2. b = body(d)
  OBVIOUS
<1> HIDE DEF b
<1>3. Len(d) = 3 + Len(b) /\ Len(d) \in Nat /\ \A i \in 1 .. Len(b) : d[3 + i] = b[i]
  <2>1. Len(d) \in Nat /\ b = SubSeq(d, 4, Len(d)) /\ Len(b) \in Nat /\ Len(b) > 0
    BY <1>0, <1>1, <1>2 DEF body
  <2>2. Len(d) >= 4
    BY <2>1
  <2> QED BY <2>1, <2>2
<1>4. d[4] = protoVersion
  <2>1. 1 \in 1 .. Len(b) /\ 3 + 1 = 4
    BY <1>0, <1>1
  <2> QED BY <1>1, <1>3, <2>1
<1>5. \A i \in 1 .. Len(u) + 1 : d[4 + i] = CStr(u)[i]
  <2> TAKE i \in 1 .. Len(u) + 1
  <2>1. 1 + i \in 1 .. Len(b) /\ 3 + (1 + i) = 4 + i
    BY <1>0, <1>1
  <2> QED BY <1>1, <1>3, <2>1
<1>6. \A i \in 1 .. Len(p) + 1 : d[(4 + (Len(u) + 1)) + i] = CStr(p)[i]
  <2> TAKE i \in 1 .. Len(p) + 1
  <2>1. 1 + (Len(u) + 1) + i \in 1 .. Len(b) /\ 3 + (1 + (Len(u) + 1) + i) = (4 + (Len(u) + 1)) + i
    BY <1>0, <1>1
  <2> QED BY <1>1, <1>3, <2>1
<1>7. \A n : Agrees(d, 5, user, n) <=>
        /\ n = Len(user) + 1 /\ 5 + n - 1 <= Len(d)
        /\ \A i \in 1 .. Len(user) + 1 : d[5 + i - 1] = CStr(user)[i]
  <2> TAKE n
  <2>1. 5 \in Nat
    OBVIOUS
  <2> QED BY <1>0, <2>1, AgreesAll
<1>8. \A n \in Nat : \A m : Agrees(d, 5 + n, pass, m) <=>
        /\ m = Len(pass) + 1 /\ (5 + n) + m - 1 <= Len(d)
        /\ \A i \in 1 .. Len(pass) + 1 : d[(5 + n) + i - 1] = CStr(pass)[i]
  <2> TAKE n \in Nat
  <2> TAKE m
  <2>1. 5 + n \in Nat
    OBVIOUS
  <2> QED BY <1>0, <2>1, AgreesAll
<1>9. ASSUME parseAuth(d, user, pass) PROVE u = user /\ p = pass
  <2>1. PICK n \in 1 .. Len(d), m \in 1 .. Len(d) : Agrees(d, 5, user, n) /\ Agrees(d, 5 + n, pass, m)
    BY <1>9 DEF parseAuth
  <2>2. n = Len(user) + 1 /\ \A i \in 1 .. Len(user) + 1 : d[5 + i - 1] = CStr(user)[i]
    BY <1>7, <2>1
  <2>3. \A i \in 1 .. Len(user) + 1 : i <= Len(u) + 1 => CStr(user)[i] = CStr(u)[i]
    <3> TAKE i \in 1 .. Len(user) + 1
    <3> HAVE i <= Len(u) + 1
    <3>1. i \in 1 .. Len(u) + 1 /\ 5 + i - 1 = 4 + i
      BY <1>0
    <3> QED BY <1>5, <2>2, <3>1
  <2>4. u = user
    BY <1>0, <2>3, SameString
  <2>5. n \in Nat /\ n = Len(u) + 1
    BY <1>0, <2>2, <2>4
  <2>6. \A i \in 1 .. Len(pass) + 1 : d[(5 + n) + i - 1] = CStr(pass)[i]
    BY <1>8, <2>1, <2>5
  <2>7. \A i \in 1 .. Len(pass) + 1 : i <= Len(p) + 1 => CStr(pass)[i] = CStr(p)[i]
    <3> TAKE i \in 1 .. Len(pass) + 1
    <3> HAVE i <= Len(p) + 1
    <3>1. i \in 1 .. Len(p) + 1 /\ (5 + n) + i - 1 = (4 + (Len(u) + 1)) + i
      BY <1>0, <2>5
    <3> QED BY <1>6, <2>6, <3>1
  <2>8. p = pass
    BY <1>0, <2>7, SameString
  <2> QED BY <2>4, <2>8
<1>10. ASSUME u = user, p = pass PROVE parseAuth(d, user, pass)
  <2> DEFINE n == Len(user) + 1
             m == Len(pass) + 1
  <2>1. /\ n \in 1 .. Len(d) /\ m \in 1 .. Len(d) /\ n \in Nat
        /\ 5 + n - 1 <= Len(d) /\ (5 + n) + m - 1 <= Len(d)
    BY <1>0, <1>1, <1>3, <1>10
  <2>2. Agrees(d, 5, user, n)
    <3>1. \A i \in 1 .. Len(user) + 1 : d[5 + i - 1] = CStr(user)[i]
      <4> TAKE i \in 1 .. Len(user) + 1
      <4>1. 5 + i - 1 = 4 + i
        BY <1>0
      <4> QED BY <1>5, <1>10, <4>1
    <3> QED BY <1>7, <2>1, <3>1
  <2>3. Agrees(d, 5 + n, pass, m)
    <3>1. \A i \in 1 .. Len(pass) + 1 : d[(5 + n) + i - 1] = CStr(pass)[i]
      <4> TAKE i \in 1 .. Len(pass) + 1
      <4>1. (5 + n) + i - 1 = (4 + (Len(u) + 1)) + i
        BY <1>0, <1>10
      <4> QED BY <1>6, <1>10, <4>1
    <3> QED BY <1>8, <2>1, <3>1
  <2> HIDE DEF n, m
  <2> QED BY <1>4, <2>1, <2>2, <2>3 DEF parseAuth
<1> QED BY <1>9, <1>10

-----------------------------------------------------------------------------
(* Every step keeps the invariant.                                         *)

LEMMA TypesDiffer ==
  /\ DOMAIN PacketType = {"AUTH_REQUEST", "AUTH_REPLY", "RESET_REQUEST", "RESET_REPLY", "CMD_REQUEST", "CMD_REPLY"}
  /\ \A t, s \in DOMAIN PacketType : PacketType[t] = PacketType[s] => t = s
BY DEF PacketType

(* What prepare makes of a body is a whole packet of its type. *)
LEMMA PreparedInv ==
  ASSUME NEW t \in DOMAIN PacketType, NEW b \in Seq(OneByte), Fits(Len(b)),
         given' = b, data' = prepare(t, b), packet'.type = t, packet'.whole = TRUE
  PROVE  TypeOK' /\ PacketInv' /\ data' # <<>>
<1>1. /\ data' \in Seq(OneByte) /\ Len(data') = 3 + Len(b) /\ data' # <<>> /\ Len(b) \in Nat
      /\ getSize(data') = 3 + Len(b) /\ data'[3] = PacketType[t] /\ body(data') = b
  BY Prepared, PacketBytes
<1>2. Len(data') >= 3
  BY <1>1
<1> QED BY <1>1, <1>2 DEF TypeOK, OneByte, PacketInv, getSize, body

LEMMA BodyBytes ==
  ASSUME NEW b \in Bodies \cup GarbledBodies
  PROVE  b \in Seq(OneByte) /\ Len(b) \in Nat /\ Fits(Len(b))
BY ProtocolAssumption DEF OneByte

LEMMA InvInit == Init => IInv
<1>1. <<>> \in Seq(OneByte)
  OBVIOUS
<1> QED BY <1>1 DEF Init, IInv, TypeOK, OneByte, PacketInv, AuthInv, ReplyInv, P!NoData

LEMMA InvPrepareAuth ==
  ASSUME NEW u \in Strings, NEW p \in Strings, prepareAuth(u, p)
  PROVE  IInv'
<1>1. given' = AuthBytes(u, p) /\ data' = prepare("AUTH_REQUEST", AuthBytes(u, p))
  BY DEF prepareAuth, AuthBytes
<1>2. /\ packet'.type = "AUTH_REQUEST" /\ packet'.whole = TRUE
      /\ packet'.body = IF u = user /\ p = pass THEN "good" ELSE "bad"
  BY DEF prepareAuth, P!Auth, P!Prepare
<1>3. PICK b : b = AuthBytes(u, p)
  OBVIOUS
<1>4. b \in Seq(OneByte) /\ Fits(Len(b))
  BY <1>3, AuthBody
<1>5. TypeOK' /\ PacketInv' /\ data' # <<>>
  BY <1>1, <1>2, <1>3, <1>4, PreparedInv, TypesDiffer
<1>6. AuthInv' /\ ReplyInv'
  BY <1>1, <1>2 DEF AuthInv, ReplyInv, AuthBytes, CStr
<1> QED BY <1>2, <1>5, <1>6 DEF IInv

LEMMA InvPrepareAuthReply ==
  ASSUME NEW authorized \in BOOLEAN, prepareAuthReply(authorized)
  PROVE  IInv'
<1>1. PICK b : b = <<IF authorized THEN AUTHORIZED ELSE UNAUTHORIZED>>
  OBVIOUS
<1>2. b \in Seq(OneByte) /\ Fits(Len(b))
  <2>1. b \in Seq(OneByte) /\ Len(b) = 1
    BY <1>1, ProtocolAssumption DEF OneByte, AUTHORIZED, UNAUTHORIZED
  <2>2. 4 < ByteSize * ByteSize
    BY ProtocolAssumption, Small
  <2> QED BY <2>1, <2>2 DEF Fits
<1>3. given' = b /\ data' = prepare("AUTH_REPLY", b)
  BY <1>1 DEF prepareAuthReply
<1>4. /\ packet'.type = "AUTH_REPLY" /\ packet'.whole = TRUE
      /\ packet'.body = IF authorized THEN "AUTHORIZED" ELSE "UNAUTHORIZED"
  BY DEF prepareAuthReply, P!AuthReply, P!Prepare
<1>5. TypeOK' /\ PacketInv' /\ data' # <<>>
  BY <1>2, <1>3, <1>4, PreparedInv, TypesDiffer
<1>6. AuthInv' /\ ReplyInv'
  BY <1>1, <1>3, <1>4 DEF AuthInv, ReplyInv
<1> QED BY <1>4, <1>5, <1>6 DEF IInv

LEMMA InvPrepare ==
  ASSUME NEW b \in Bodies \cup {<<>>}, NEW t \in {"RESET_REQUEST", "RESET_REPLY", "CMD_REQUEST", "CMD_REPLY"},
         given' = b, data' = prepare(t, b), packet'.type = t, packet'.whole = TRUE
  PROVE  IInv'
<1>1. b \in Seq(OneByte) /\ Fits(Len(b))
  <2>1. CASE b \in Bodies
    BY <2>1, BodyBytes
  <2>2. CASE b = <<>>
    <3>1. 3 < ByteSize * ByteSize
      <4>1. 3 \in Nat /\ 3 <= 3 + ByteSize
        BY ProtocolAssumption
      <4> QED BY <4>1, Small
    <3> QED BY <2>2, <3>1 DEF Fits
  <2> QED BY <2>1, <2>2
<1>2. TypeOK' /\ PacketInv' /\ data' # <<>>
  BY <1>1, PreparedInv, TypesDiffer
<1> QED BY <1>2 DEF IInv, AuthInv, ReplyInv

LEMMA InvReadHeader ==
  ASSUME IInv, readHeader
  PROVE  IInv'
<1>1. /\ data \in Seq(OneByte) /\ Len(data) \in Nat /\ Len(data) > 3 /\ data # <<>> /\ data' = SubSeq(data, 1, 3)
  BY DEF IInv, TypeOK, OneByte, readHeader
<1>2. packet' = [type |-> packet.type, body |-> None, whole |-> FALSE]
  BY DEF readHeader, P!Header
<1>3. /\ data' \in Seq(OneByte) /\ Len(data') = 3 /\ data'[1] = data[1] /\ data'[2] = data[2] /\ data'[3] = data[3]
  BY <1>1, SubSeqProperties
<1>4. data' # <<>>
  <2>1. Len(data') # 0
    BY <1>3
  <2> QED BY <1>3, <2>1, EmptySeq
<1>5. getSize(data) = Len(data)
  BY <1>1 DEF IInv, PacketInv
<1>6. getSize(data)' # Len(data)'
  BY <1>1, <1>3, <1>5 DEF getSize
<1>7. PacketInv'
  BY <1>1, <1>2, <1>3, <1>4, <1>6 DEF IInv, PacketInv
<1> QED BY <1>2, <1>3, <1>4, <1>7 DEF IInv, TypeOK, OneByte, AuthInv, ReplyInv

LEMMA InvReadGarbled ==
  ASSUME NEW b \in GarbledBodies, NEW size \in 0 .. 3 + ByteSize,
         NEW t \in {"RESET_REQUEST", "RESET_REPLY", "CMD_REQUEST", "CMD_REPLY"},
         readGarbled(b, size, t)
  PROVE  IInv'
<1>1. b \in Seq(OneByte) /\ Len(b) \in Nat
  BY BodyBytes
<1>2. size \in Nat /\ size < ByteSize * ByteSize
  <2>1. size \in Nat /\ size <= 3 + ByteSize
    BY ProtocolAssumption
  <2> QED BY <2>1, Small
<1>3. given' = b /\ data' = Packet(size, t, b)
  BY DEF readGarbled, Packet
<1>4. packet'.type = t /\ packet'.whole = (size >= 3)
  BY DEF readGarbled, P!Prepare
<1>5. IF size > 3 THEN Len(b) = size - 3 ELSE Len(b) = 0
  BY DEF readGarbled
<1>6. /\ data' \in Seq(OneByte) /\ Len(data') = 3 + Len(b) /\ data' # <<>>
      /\ getSize(data') = size /\ data'[3] = PacketType[t] /\ body(data') = b
  <2>1. t \in DOMAIN PacketType
    BY TypesDiffer
  <2> QED BY <1>1, <1>2, <1>3, <2>1, PacketBytes
<1>7. Len(data') >= 3 /\ (size >= 3 <=> size = Len(data')) /\ (Len(data') > 3 => size >= 3)
  BY <1>1, <1>2, <1>5, <1>6
<1>8. PacketInv'
  BY <1>3, <1>4, <1>6, <1>7, TypesDiffer DEF PacketInv, getSize, body
<1> QED BY <1>4, <1>6, <1>7, <1>8 DEF IInv, TypeOK, OneByte, AuthInv, ReplyInv

LEMMA InvNext == IInv /\ [Next]_vars => IInv'
<1> SUFFICES ASSUME IInv, [Next]_vars PROVE IInv'
  OBVIOUS
<1>1. CASE UNCHANGED vars
  BY <1>1 DEF vars, IInv, TypeOK, PacketInv, AuthInv, ReplyInv, body, getSize
<1>2. CASE \E u, p \in Strings : prepareAuth(u, p)
  BY <1>2, InvPrepareAuth
<1>3. CASE \E authorized \in BOOLEAN : prepareAuthReply(authorized)
  BY <1>3, InvPrepareAuthReply
<1>4. CASE prepareResetRequest
  BY <1>4, InvPrepare DEF prepareResetRequest, P!ResetRequest, P!Prepare
<1>5. CASE \E b \in Bodies : prepareResetReply(b) \/ prepareCmdRequest(b) \/ prepareCmdReply(b)
  <2> PICK b \in Bodies : prepareResetReply(b) \/ prepareCmdRequest(b) \/ prepareCmdReply(b)
    BY <1>5
  <2>1. CASE prepareResetReply(b)
    BY <2>1, InvPrepare DEF prepareResetReply, P!ResetReply, P!Prepare
  <2>2. CASE prepareCmdRequest(b)
    BY <2>2, InvPrepare DEF prepareCmdRequest, P!CmdRequest, P!Prepare
  <2>3. CASE prepareCmdReply(b)
    BY <2>3, InvPrepare DEF prepareCmdReply, P!CmdReply, P!Prepare
  <2> QED BY <2>1, <2>2, <2>3
<1>6. CASE readHeader
  BY <1>6, InvReadHeader
<1>7. CASE \E b \in GarbledBodies, size \in 0 .. 3 + ByteSize,
              t \in {"RESET_REQUEST", "RESET_REPLY", "CMD_REQUEST", "CMD_REPLY"} :
             readGarbled(b, size, t)
  BY <1>7, InvReadGarbled
<1> QED BY <1>1, <1>2, <1>3, <1>4, <1>5, <1>6, <1>7 DEF Next

-----------------------------------------------------------------------------
(* The theorems.                                                           *)

LEMMA Verdicts == IInv => SameVerdicts
<1> SUFFICES ASSUME IInv PROVE SameVerdicts
  OBVIOUS
<1>1. data \in Seq(OneByte) /\ Len(data) \in Nat /\ (Len(data) # 0 <=> data # <<>>)
  BY DEF IInv, TypeOK, OneByte
<1>2. \A t \in DOMAIN PacketType : checkPacketSanity(data, t) <=> P!Sane(packet, t)
  <2> TAKE t \in DOMAIN PacketType
  <2>1. CASE data = <<>>
    BY <1>1, <2>1 DEF checkPacketSanity, P!Sane, IInv
  <2>2. CASE data # <<>>
    BY <1>1, <2>2, TypesDiffer DEF checkPacketSanity, P!Sane, IInv, PacketInv
  <2> QED BY <2>1, <2>2
<1>3. \A t \in DOMAIN PacketType : checkPacketSanity(data, t) => body(data) = given
  BY <1>1, <1>2 DEF checkPacketSanity, P!Sane, IInv, PacketInv
<1>4. parseAuth(data, user, pass) <=> P!parseAuth(packet)
  <2>1. CASE checkPacketSanity(data, "AUTH_REQUEST")
    <3>1. P!Sane(packet, "AUTH_REQUEST") /\ body(data) = given
      BY <1>2, <1>3, <2>1, TypesDiffer
    <3>2. PICK u \in Strings, p \in Strings :
            /\ given = AuthBytes(u, p)
            /\ packet.body = IF u = user /\ p = pass THEN "good" ELSE "bad"
      BY <3>1 DEF IInv, AuthInv, P!Sane
    <3>3. parseAuth(data, user, pass) <=> u = user /\ p = pass
      BY <1>1, <2>1, <3>1, <3>2, AuthVerdict
    <3> QED BY <3>1, <3>2, <3>3 DEF P!parseAuth
  <2>2. CASE ~ checkPacketSanity(data, "AUTH_REQUEST")
    BY <1>2, <2>2, TypesDiffer DEF parseAuth, P!parseAuth
  <2> QED BY <2>1, <2>2
<1>5. parseAuthReply(data) <=> P!parseAuthReply(packet)
  <2>1. CASE checkPacketSanity(data, "AUTH_REPLY")
    <3>1. P!Sane(packet, "AUTH_REPLY") /\ body(data) = given
      BY <1>2, <1>3, <2>1, TypesDiffer
    <3>2. \/ given = <<AUTHORIZED>> /\ packet.body = "AUTHORIZED"
          \/ given = <<UNAUTHORIZED>> /\ packet.body = "UNAUTHORIZED"
      BY <3>1 DEF IInv, ReplyInv, P!Sane
    <3>3. data[4] = given[1]
      <4>1. Len(given) = 1 /\ given = SubSeq(data, 4, Len(data))
        BY <3>1, <3>2 DEF body
      <4>2. Len(data) >= 4
        BY <1>1, <4>1
      <4> QED BY <1>1, <4>1, <4>2
    <3> QED BY <2>1, <3>1, <3>2, <3>3 DEF parseAuthReply, P!parseAuthReply, AUTHORIZED, UNAUTHORIZED
  <2>2. CASE ~ checkPacketSanity(data, "AUTH_REPLY")
    BY <1>2, <2>2, TypesDiffer DEF parseAuthReply, P!parseAuthReply
  <2> QED BY <2>1, <2>2
<1> QED BY <1>2, <1>4, <1>5 DEF SameVerdicts

THEOREM ProtocolInvariant == Spec => []IInv
BY InvInit, InvNext, PTL DEF Spec

(* A PacketData holds bytes, three at least or none. *)
THEOREM ProtocolTypeCorrect == Spec => []TypeOK
<1>1. IInv => TypeOK
  BY DEF IInv
<1> QED BY <1>1, ProtocolInvariant, PTL

(* The bytes of a packet decide as Packets has it, whatever the strings    *)
(* and bodies are: credentials are accepted when user and password are     *)
(* both the server's, and a packet as what it was made as.                 *)
THEOREM SameVerdictsHolds == Spec => []SameVerdicts
BY Verdicts, ProtocolInvariant, PTL

(* parse takes out of a packet the body that prepare was given, however    *)
(* long it is.                                                             *)
THEOREM SameBodyHolds == Spec => []SameBody
<1>1. IInv => SameBody
  <2> SUFFICES ASSUME IInv, NEW t \in {"RESET_REPLY", "CMD_REQUEST", "CMD_REPLY"}, checkPacketSanity(data, t)
               PROVE  body(data) = given
    BY DEF SameBody
  <2>1. data # <<>> /\ getSize(data) = Len(data)
    BY DEF checkPacketSanity
  <2> QED BY <2>1 DEF IInv, PacketInv
<1> QED BY <1>1, ProtocolInvariant, PTL
=============================================================================
