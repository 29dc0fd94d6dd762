------------------------- MODULE ConnectCallProofs -------------------------
(***************************************************************************)
(* Theorems about one intercepted my_connect (ConnectCall) for any server, *)
(* any contents of the configuration file, any number of hooks that load   *)
(* it at once and any bounds.  Four invariants that hold side by side:     *)
(* what the handshake has read (SocksInv), which loads still have to judge *)
(* what they wrote (LoadInv), how much of its budget the call has used     *)
(* (ClockInv), and that no phase runs ahead of the handshake (PhaseInv).   *)
(***************************************************************************)
EXTENDS ConnectCall, SequenceTheorems, TLAPS

-----------------------------------------------------------------------------
(* The handshake, with greetings of any protocol, replies with any address *)
(* and fragments of any size.  What the ReadExact in progress has read,    *)
(* followed by what waits to be read, is always what is left of the        *)
(* greeting or of the reply (AnswerInv), which is why a fragment more or   *)
(* less changes nothing.                                                   *)

Port == <<0, 80>>

(* What is left of the reply r and the data d behind it in the state p.    *)
Rest(r, d, p) ==
  CASE p = "readHeader"  -> <<r.ver, r.code, 0, r.atyp>>
                              \o ((IF r.atyp = 3 THEN <<Len(r.addr)>> ELSE <<>>) \o (r.addr \o (Port \o d)))
    [] p = "readLength"  -> <<Len(r.addr)>> \o (r.addr \o (Port \o d))
    [] p = "readAddress" -> r.addr \o (Port \o d)
    [] p = "readPort"    -> Port \o d
    [] p = "open"        -> d

Replied == {"readHeader", "readLength", "readAddress", "readPort", "open"}

(* The client and the server take turns.                                   *)
TurnInv ==
  /\ pc = "sendAuth" => server = "auth"
  /\ pc = "readAuth" => server \in {"greeting", "request"}
  /\ pc = "sendRequest" => server = "request"
  /\ pc = "readHeader" => server \in {"reply", "done"}
  /\ pc \in Replied \ {"readHeader"} => server = "done"

(* Nothing waits before the server spoke, nor behind a greeting that       *)
(* accepts the method.                                                     *)
QuietInv ==
  pc \in Sends \/ (pc \in Reads /\ server \in {"greeting", "reply"}) =>
    inbox = <<>> /\ buf = <<>> /\ replied = 0

(* A ReadExact in progress wants more; outside of one nothing is read.     *)
WantInv ==
  /\ pc \in Reads => Len(buf) < Wanted
  /\ pc \notin Reads => buf = <<>>

GreetingInv ==
  pc = "readAuth" /\ server = "request" =>
    buf \o inbox \in Greetings /\ replied = Len(inbox)

AnswerInv ==
  pc \in Replied /\ server = "done" =>
    \E r \in Replies, d \in Seq({9}) :
      /\ granted <=> r.code = 0
      /\ pc # "readHeader" => r.code = 0
      /\ pc = "readLength" => r.atyp = 3
      /\ pc = "readAddress" => len = Len(r.addr)
      /\ buf \o inbox = Rest(r, d, pc)
      /\ replied = Len(inbox) - Len(d)

SocksInv == SocksTypeOK /\ TurnInv /\ QuietInv /\ WantInv /\ GreetingInv /\ AnswerInv

-----------------------------------------------------------------------------
(* Concatenation, by a name the provers leave as it is.                    *)
Cat(s, t) == s \o t

LEMMA CatFacts ==
  ASSUME NEW S
  PROVE  \A s, t \in Seq(S) : /\ Cat(s, t) \in Seq(S)
                             /\ \A u \in Seq(S) : Cat(Cat(s, t), u) = Cat(s, Cat(t, u))
<1> SUFFICES ASSUME NEW s \in Seq(S), NEW t \in Seq(S)
             PROVE  Cat(s, t) \in Seq(S) /\ \A u \in Seq(S) : Cat(Cat(s, t), u) = Cat(s, Cat(t, u))
  OBVIOUS
<1>1. Cat(s, t) \in Seq(S)
  BY ConcatProperties DEF Cat
<1>2. ASSUME NEW u \in Seq(S) PROVE Cat(Cat(s, t), u) = Cat(s, Cat(t, u))
  BY ConcatAssociative DEF Cat
<1> QED
  BY <1>1, <1>2

(* A fragment of n bytes moves from what waits to what was read, and       *)
(* nothing else changes.                                                   *)
LEMMA Fragment ==
  ASSUME NEW S, NEW b \in Seq(S), NEW s \in Seq(S), NEW n \in 1 .. Len(s)
  PROVE  /\ b \o SubSeq(s, 1, n) \in Seq(S) /\ Len(b \o SubSeq(s, 1, n)) = Len(b) + n
         /\ SubSeq(s, n + 1, Len(s)) \in Seq(S) /\ Len(SubSeq(s, n + 1, Len(s))) = Len(s) - n
         /\ Cat(Cat(b, SubSeq(s, 1, n)), SubSeq(s, n + 1, Len(s))) = Cat(b, s)
<1> DEFINE p == SubSeq(s, 1, n)
           t == SubSeq(s, n + 1, Len(s))
<1>1. Len(s) \in Nat /\ \A i \in 1 .. Len(s) : s[i] \in S
  BY LenProperties
<1>2. p \in Seq(S) /\ Len(p) = n
  BY <1>1, SubSeqProperties
<1>3. t \in Seq(S) /\ Len(t) = Len(s) - n
  <2>1. \A i \in n + 1 .. Len(s) : s[i] \in S
    BY <1>1
  <2>2. t \in Seq(S) /\ Len(t) = IF n + 1 <= Len(s) THEN Len(s) - (n + 1) + 1 ELSE 0
    BY <1>1, <2>1, SubSeqProperties
  <2> QED
    BY <1>1, <2>2
<1>4. p \o t = s
  <2>1. 1 \in 1 .. Len(s) + 1 /\ n \in 1 - 1 .. Len(s) /\ Len(s) \in n .. Len(s)
    BY <1>1
  <2>2. p \o t = SubSeq(s, 1, Len(s))
    BY <2>1, ConcatAdjacentSubSeq
  <2> QED
    BY <2>2, SubSeqFull
<1>5. Cat(Cat(b, p), t) = Cat(b, s)
  <2> HIDE DEF p, t
  <2>1. Cat(Cat(b, p), t) = Cat(b, Cat(p, t))
    BY <1>2, <1>3, CatFacts
  <2>2. Cat(p, t) = s
    BY <1>4 DEF Cat
  <2> QED
    BY <2>1, <2>2
<1>6. b \o p \in Seq(S) /\ Len(b \o p) = Len(b) + n
  BY <1>2, ConcatProperties
<1> QED
  BY <1>3, <1>5, <1>6

(* Two ways to cut one sequence at the same place are the same.            *)
LEMMA SameCut ==
  ASSUME NEW S, NEW b \in Seq(S), NEW s \in Seq(S), NEW c \in Seq(S), NEW t \in Seq(S),
         b \o s = c \o t, Len(b) = Len(c)
  PROVE  b = c /\ s = t
<1>1. Len(b) \in Nat /\ Len(s) \in Nat
  BY LenProperties
<1>2. \A i \in 1 .. Len(b) : (b \o s)[i] = b[i] /\ (c \o t)[i] = c[i]
  <2>1. \A i \in 1 .. Len(b) + Len(s) : (b \o s)[i] = IF i <= Len(b) THEN b[i] ELSE s[i - Len(b)]
    BY ConcatProperties
  <2>2. \A i \in 1 .. Len(c) + Len(t) : (c \o t)[i] = IF i <= Len(c) THEN c[i] ELSE t[i - Len(c)]
    BY ConcatProperties
  <2>3. Len(t) \in Nat
    BY LenProperties
  <2> QED
    BY <1>1, <2>1, <2>2, <2>3
<1>3. b = c
  BY <1>2, SeqEqual
<1> QED
  BY <1>3, ConcatSimplifications

LEMMA ByteFacts ==
  /\ Bytes \subseteq Nat /\ \A k \in 0 .. 255 : k \in Bytes
  /\ <<>> \in Seq(Bytes) /\ Len(<<>>) = 0
  /\ Port \in Seq(Bytes) /\ Len(Port) = 2
  /\ \A x \in Bytes : <<x>> \in Seq(Bytes) /\ Len(<<x>>) = 1 /\ <<x>>[1] = x
  /\ \A d \in Seq({9}) : d \in Seq(Bytes) /\ \A i \in 1 .. Len(d) : d[i] = 9
<1>1. Bytes \subseteq Nat /\ \A k \in 0 .. 255 : k \in Bytes
  BY DEF Bytes
<1>2. <<>> \in Seq(Bytes) /\ Len(<<>>) = 0
  BY EmptySeq
<1>3. Port \in Seq(Bytes) /\ Len(Port) = 2
  BY DEF Port, Bytes
<1>4. \A x \in Bytes : <<x>> \in Seq(Bytes) /\ Len(<<x>>) = 1 /\ <<x>>[1] = x
  OBVIOUS
<1>5. \A d \in Seq({9}) : d \in Seq(Bytes) /\ \A i \in 1 .. Len(d) : d[i] = 9
  <2> SUFFICES ASSUME NEW d \in Seq({9}) PROVE d \in Seq(Bytes) /\ \A i \in 1 .. Len(d) : d[i] = 9
    OBVIOUS
  <2>1. {9} \subseteq Bytes
    BY <1>1
  <2>2. d \in Seq(Bytes)
    BY <2>1, SeqMonotonic
  <2>3. \A i \in 1 .. Len(d) : d[i] \in {9}
    BY ElementOfSeq
  <2> QED
    BY <2>2, <2>3
<1> QED
  BY <1>1, <1>2, <1>3, <1>4, <1>5

(* The reply as it is read: a header, the length if there is one, the      *)
(* address, the port, the data.                                            *)
LEMMA ReplyParts ==
  ASSUME NEW r \in Replies, NEW d \in Seq({9})
  PROVE  /\ \A p \in Replied : p # "readLength" => Rest(r, d, p) \in Seq(Bytes)
         /\ Rest(r, d, "readHeader") = ReplyBytes(r) \o d
         /\ ReplyBytes(r) \in Seq(Bytes)
         /\ Len(Rest(r, d, "readHeader")) = Len(ReplyBytes(r)) + Len(d)
         /\ r.atyp = 3 => Rest(r, d, "readLength") \in Seq(Bytes) /\ Len(r.addr) \in Bytes
<1> DEFINE H == <<r.ver, r.code, 0, r.atyp>>
           L == IF r.atyp = 3 THEN <<Len(r.addr)>> ELSE <<>>
           A == r.addr
<1>1. /\ H \in Seq(Bytes) /\ Len(r.addr) \in Nat /\ A \in Seq(Bytes)
      /\ r.atyp = 3 => Len(r.addr) \in Bytes
  <2>0. /\ r.ver \in Bytes /\ r.code \in Bytes /\ r.atyp \in Bytes /\ A \in Seq(Bytes)
        /\ r.atyp = 3 => Len(r.addr) < 256
    BY Socks5Assumption
  <2>1. r.ver \in Bytes /\ r.code \in Bytes /\ r.atyp \in Bytes /\ A \in Seq(Bytes) /\ 0 \in Bytes
    BY <2>0 DEF Bytes
  <2>2. Len(r.addr) \in Nat
    BY <2>1, LenProperties
  <2>3. r.atyp = 3 => Len(r.addr) \in Bytes
    <3> DEFINE n == Len(r.addr)
    <3>1. n \in Nat /\ (r.atyp = 3 => n < 256)
      BY <2>0, <2>2
    <3> HIDE DEF n
    <3>2. r.atyp = 3 => n \in Bytes
      BY <3>1 DEF Bytes
    <3> QED
      BY <3>2 DEF n
  <2> QED
    BY <2>1, <2>2, <2>3
<1>2. L \in Seq(Bytes) /\ d \in Seq(Bytes) /\ Port \in Seq(Bytes)
  BY <1>1, ByteFacts
<1>3. Port \o d \in Seq(Bytes) /\ A \o Port \in Seq(Bytes)
  BY <1>1, <1>2, ConcatProperties
<1>4. A \o (Port \o d) \in Seq(Bytes)
  BY <1>1, <1>2, <1>3, ConcatProperties
<1>5. L \o (A \o (Port \o d)) \in Seq(Bytes)
  BY <1>2, <1>4, ConcatProperties
<1>6. H \o (L \o (A \o (Port \o d))) \in Seq(Bytes)
  BY <1>1, <1>5, ConcatProperties
<1> DEFINE R == ((H \o L) \o A) \o Port
<1>7. ReplyBytes(r) = R
  BY DEF ReplyBytes, Port
<1>8. H \o L \in Seq(Bytes) /\ (H \o L) \o A \in Seq(Bytes) /\ R \in Seq(Bytes)
  BY <1>1, <1>2, ConcatProperties
<1> HIDE DEF H, L, A
<1>9. R \o d = H \o (L \o (A \o (Port \o d)))
  <2>1. Cat(Cat(Cat(Cat(H, L), A), Port), d) = Cat(H, Cat(L, Cat(A, Cat(Port, d))))
    <3>1. Cat(H, L) \in Seq(Bytes) /\ Cat(Port, d) \in Seq(Bytes)
      BY <1>1, <1>2, CatFacts
    <3>2. Cat(Cat(H, L), A) \in Seq(Bytes) /\ Cat(A, Cat(Port, d)) \in Seq(Bytes)
      BY <1>1, <3>1, CatFacts
    <3>3. Cat(Cat(Cat(Cat(H, L), A), Port), d) = Cat(Cat(Cat(H, L), A), Cat(Port, d))
      BY <1>2, <3>2, CatFacts
    <3>4. Cat(Cat(Cat(H, L), A), Cat(Port, d)) = Cat(Cat(H, L), Cat(A, Cat(Port, d)))
      BY <1>1, <3>1, CatFacts
    <3>5. Cat(Cat(H, L), Cat(A, Cat(Port, d))) = Cat(H, Cat(L, Cat(A, Cat(Port, d))))
      BY <1>1, <1>2, <3>2, CatFacts
    <3> QED
      BY <3>3, <3>4, <3>5
  <2> QED
    BY <2>1 DEF Cat
<1>10. Rest(r, d, "readHeader") = ReplyBytes(r) \o d
  BY <1>7, <1>9 DEF Rest, H, L, A
<1>11. Len(R \o d) = Len(R) + Len(d)
  BY <1>2, <1>8, ConcatProperties
<1>12. \A p \in Replied : p # "readLength" => Rest(r, d, p) \in Seq(Bytes)
  BY <1>2, <1>3, <1>4, <1>6 DEF Rest, Replied, H, L, A
<1>13. r.atyp = 3 => Rest(r, d, "readLength") \in Seq(Bytes)
  BY <1>5 DEF Rest, L, A
<1> QED
  BY <1>1, <1>7, <1>8, <1>10, <1>11, <1>12, <1>13

(* The part of the reply a ReadExact takes, and the state behind it.       *)
Piece(r, p) ==
  CASE p = "readHeader"  -> <<r.ver, r.code, 0, r.atyp>>
    [] p = "readLength"  -> <<Len(r.addr)>>
    [] p = "readAddress" -> r.addr
    [] p = "readPort"    -> Port

Following(r, p) ==
  CASE p = "readHeader"  -> IF r.atyp = 3 THEN "readLength"
                            ELSE IF r.atyp \in {1, 4} THEN "readAddress" ELSE "readPort"
    [] p = "readLength"  -> IF Len(r.addr) > 0 THEN "readAddress" ELSE "readPort"
    [] p = "readAddress" -> "readPort"
    [] p = "readPort"    -> "open"

LEMMA RestStep ==
  ASSUME NEW r \in Replies, NEW d \in Seq({9}), NEW p \in Replied \ {"open"},
         p = "readLength" => r.atyp = 3
  PROVE  LET q == Following(r, p) IN
         /\ q \in Replied /\ (q = "readLength" => r.atyp = 3)
         /\ Piece(r, p) \in Seq(Bytes) /\ Rest(r, d, q) \in Seq(Bytes)
         /\ Rest(r, d, p) = Piece(r, p) \o Rest(r, d, q)
         /\ Len(Rest(r, d, q)) \in Nat /\ Len(Rest(r, d, q)) >= Len(d)
<1> DEFINE q == Following(r, p)
           A == r.addr
           B == Port \o d
           C == A \o B
           H == <<r.ver, r.code, 0, r.atyp>>
           L == <<Len(A)>>
<1>1. /\ r.ver \in Bytes /\ r.code \in Bytes /\ r.atyp \in Bytes /\ A \in Seq(Bytes)
      /\ r.atyp \notin {1, 3, 4} => A = <<>>
  BY Socks5Assumption
<1>2. d \in Seq(Bytes) /\ Port \in Seq(Bytes) /\ Len(Port) = 2
  BY ByteFacts
<1>3. Len(A) \in Nat /\ Len(d) \in Nat
  BY <1>1, <1>2, LenProperties
<1>4. B \in Seq(Bytes) /\ Len(B) = 2 + Len(d)
  <2>1. Port \o d \in Seq(Bytes) /\ Len(Port \o d) = Len(Port) + Len(d)
    BY <1>2, ConcatProperties
  <2> QED
    BY <1>2, <2>1
<1> HIDE DEF B
<1>5. C \in Seq(Bytes) /\ Len(C) = Len(A) + Len(B)
  <2> HIDE DEF A
  <2> QED
    BY <1>1, <1>4, ConcatProperties
<1> HIDE DEF C
<1>6. r.atyp = 3 => L \in Seq(Bytes) /\ L \o C \in Seq(Bytes) /\ Len(L \o C) = 1 + Len(C)
  <2> SUFFICES ASSUME r.atyp = 3 PROVE L \in Seq(Bytes) /\ L \o C \in Seq(Bytes) /\ Len(L \o C) = 1 + Len(C)
    OBVIOUS
  <2>1. L \in Seq(Bytes) /\ Len(L) = 1
    BY ReplyParts, ByteFacts
  <2> HIDE DEF L
  <2>2. L \in Seq(Bytes) /\ C \in Seq(Bytes)
    BY <1>5, <2>1
  <2>3. L \o C \in Seq(Bytes) /\ Len(L \o C) = Len(L) + Len(C)
    BY <2>2, ConcatProperties
  <2> QED
    BY <2>1, <2>3
<1>7. H \in Seq(Bytes)
  BY <1>1 DEF Bytes
<1>17. /\ Len(B) \in Nat /\ Len(B) >= Len(d) /\ Len(C) \in Nat /\ Len(C) >= Len(d)
       /\ r.atyp = 3 => Len(L \o C) \in Nat /\ Len(L \o C) >= Len(d)
  <2> HIDE DEF A, L
  <2> QED
    BY <1>3, <1>4, <1>5, <1>6
<1>8. <<>> \o C = C
  BY <1>5, ConcatEmptySeq
<1>9. Rest(r, d, "readAddress") = C /\ Rest(r, d, "readPort") = B /\ Rest(r, d, "open") = d
  BY DEF Rest, B, C
<1>10. Rest(r, d, "readLength") = L \o C
  BY DEF Rest, B, C
<1>11. CASE p = "readHeader" /\ r.atyp = 3
  <2>1. q = "readLength" /\ Piece(r, p) = H /\ Rest(r, d, p) = H \o (L \o C)
    BY <1>11 DEF Following, Piece, Rest, B, C
  <2> HIDE DEF q, H, L
  <2> QED
    BY <1>6, <1>7, <1>10, <1>11, <1>17, <2>1 DEF Replied, q
<1>18. CASE p = "readHeader" /\ r.atyp \notin {1, 3, 4}
  <2>1. q = "readPort" /\ Piece(r, p) = H /\ Rest(r, d, p) = H \o (<<>> \o C)
    BY <1>18 DEF Following, Piece, Rest, B, C
  <2>2. C = B
    BY <1>1, <1>4, <1>18, ConcatEmptySeq DEF C
  <2>3. Rest(r, d, p) = H \o B
    BY <1>8, <2>1, <2>2
  <2> HIDE DEF q, H
  <2> QED
    BY <1>4, <1>7, <1>9, <1>17, <2>1, <2>3 DEF Replied, q
<1>12. CASE p = "readHeader" /\ r.atyp \in {1, 4}
  <2>3. r.atyp # 3
    BY <1>12
  <2>1. q = "readAddress" /\ Piece(r, p) = H /\ Rest(r, d, p) = H \o (<<>> \o C)
    <3>1. q = "readAddress"
      BY <1>12, <2>3 DEF Following
    <3>2. Piece(r, p) = H
      BY <1>12 DEF Piece
    <3>3. Rest(r, d, p) = H \o (<<>> \o C)
      BY <1>12, <2>3 DEF Rest, B, C
    <3> QED
      BY <3>1, <3>2, <3>3
  <2>2. Rest(r, d, p) = H \o C
    BY <1>8, <2>1
  <2> HIDE DEF q, H
  <2> QED
    BY <1>5, <1>7, <1>9, <1>17, <2>1, <2>2 DEF Replied, q
<1>13. CASE p = "readLength" /\ Len(A) > 0
  <2>1. q = "readAddress" /\ Piece(r, p) = L /\ Rest(r, d, p) = L \o C
    BY <1>10, <1>13 DEF Following, Piece
  <2> HIDE DEF q, L
  <2> QED
    BY <1>5, <1>6, <1>9, <1>13, <1>17, <2>1 DEF Replied, q
<1>14. CASE p = "readLength" /\ Len(A) = 0
  <2>1. q = "readPort" /\ Piece(r, p) = L /\ Rest(r, d, p) = L \o C
    BY <1>10, <1>14 DEF Following, Piece
  <2>2. A = <<>>
    BY <1>1, <1>14, EmptySeq
  <2>3. C = B
    BY <1>4, <2>2, ConcatEmptySeq DEF C
  <2> HIDE DEF q, L
  <2> QED
    BY <1>3, <1>4, <1>6, <1>9, <1>14, <2>1, <2>3 DEF Replied, q
<1>15. CASE p = "readAddress"
  <2>1. q = "readPort" /\ Piece(r, p) = A /\ Rest(r, d, p) = A \o B
    BY <1>9, <1>15 DEF Following, Piece, C
  <2> HIDE DEF q
  <2> QED
    BY <1>1, <1>3, <1>4, <1>9, <2>1 DEF Replied, q
<1>16. CASE p = "readPort"
  <2>1. q = "open" /\ Piece(r, p) = Port /\ Rest(r, d, p) = Port \o d
    BY <1>9, <1>16 DEF Following, Piece, B
  <2> HIDE DEF q
  <2> QED
    BY <1>2, <1>3, <1>9, <2>1 DEF Replied, q
<1> QED
  <2>1. r.atyp = 3 \/ r.atyp \in {1, 4} \/ r.atyp \notin {1, 3, 4}
    OBVIOUS
  <2> QED
    BY <1>3, <1>11, <1>12, <1>13, <1>14, <1>15, <1>16, <1>18, <2>1 DEF Replied

-----------------------------------------------------------------------------
LEMMA SocksInitInv == SocksInit => SocksInv
<1> SUFFICES ASSUME SocksInit PROVE SocksInv
  OBVIOUS
<1> USE DEF SocksInit
<1>1. SocksTypeOK
  <2>1. <<>> \in Seq(Bytes) /\ 0 \in Bytes /\ 0 \in Nat /\ FALSE \in BOOLEAN
    BY ByteFacts DEF Bytes
  <2> QED
    BY <2>1 DEF SocksTypeOK, Sends
<1>2. TurnInv /\ QuietInv /\ GreetingInv /\ AnswerInv
  BY DEF TurnInv, QuietInv, GreetingInv, AnswerInv, Replied
<1>3. WantInv
  BY DEF WantInv, Reads
<1> QED
  BY <1>1, <1>2, <1>3 DEF SocksInv

(* Time passes, the server closes, or the caller is elsewhere.             *)
LEMMA SocksQuiet ==
  ASSUME SocksInv, UNCHANGED <<pc, buf, len, inbox, server, replied>>,
         elapsed' \in Nat, total' \in Nat, closed' \in BOOLEAN, granted' \in BOOLEAN,
         pc \in Replied => granted' = granted
  PROVE  SocksInv'
<1>1. SocksTypeOK' /\ TurnInv' /\ QuietInv' /\ GreetingInv'
  BY DEF SocksInv, SocksTypeOK, TurnInv, QuietInv, GreetingInv
<1>2. WantInv'
  BY DEF SocksInv, WantInv, Wanted
<1>3. AnswerInv'
  BY DEF SocksInv, AnswerInv
<1> QED
  BY <1>1, <1>2, <1>3 DEF SocksInv

LEMMA SendInv == ASSUME SocksInv, Send PROVE SocksInv'
<1> USE DEF SocksInv, Send, Goto
<1>1. SocksTypeOK'
  BY ByteFacts DEF SocksTypeOK, Sends, Reads
<1>2. TurnInv' /\ QuietInv'
  BY DEF TurnInv, QuietInv, Sends, Reads, Replied
<1>3. WantInv'
  BY ByteFacts DEF WantInv, Wanted, Sends, Reads
<1>4. GreetingInv' /\ AnswerInv'
  BY DEF GreetingInv, AnswerInv, Sends, Replied
<1> QED
  BY <1>1, <1>2, <1>3, <1>4

(* The handshake gives up.                                                 *)
LEMMA EndInv == ASSUME SocksInv, CallFails \/ PeerClosed \/ TimesOut PROVE SocksInv'
<1>1. Goto("failed") /\ UNCHANGED <<len, total, inbox, server, closed, granted, replied>>
  BY DEF CallFails, PeerClosed, TimesOut
<1> QED
  BY <1>1, ByteFacts DEF SocksInv, Goto, SocksTypeOK, TurnInv, QuietInv, WantInv, GreetingInv, AnswerInv,
     Sends, Reads, Ended, Replied

LEMMA ServerGreetsInv == ASSUME SocksInv, NEW g \in Greetings, ServerGreets(g) PROVE SocksInv'
<1> USE DEF SocksInv, ServerGreets
<1>0. /\ g \in Seq(Bytes) /\ Len(g) \in Nat /\ inbox \o g \in Seq(Bytes)
      /\ pc = "readAuth" => inbox \o g = g /\ buf \o (inbox \o g) = g
  <2>1. g \in Seq(Bytes) /\ Len(g) \in Nat
    BY Socks5Assumption, LenProperties
  <2>2. inbox \o g \in Seq(Bytes)
    BY <2>1, ConcatProperties DEF SocksTypeOK
  <2>3. pc = "readAuth" => inbox = <<>> /\ buf = <<>>
    BY DEF QuietInv, Reads
  <2>4. <<>> \o g = g
    BY <2>1, ConcatEmptySeq
  <2> QED
    BY <2>1, <2>2, <2>3, <2>4
<1>1. SocksTypeOK'
  BY <1>0 DEF SocksTypeOK
<1>2. TurnInv' /\ QuietInv'
  BY DEF TurnInv, QuietInv, Sends, Reads, Replied
<1>3. WantInv'
  BY DEF WantInv, Wanted
<1>4. GreetingInv'
  BY <1>0 DEF GreetingInv, QuietInv, Reads
<1>5. AnswerInv'
  BY DEF AnswerInv
<1> QED
  BY <1>1, <1>2, <1>3, <1>4, <1>5

LEMMA ServerRepliesInv ==
  ASSUME SocksInv, NEW r \in Replies, NEW x \in Payloads, ServerReplies(r, x)
  PROVE  SocksInv'
<1> USE DEF SocksInv, ServerReplies
<1> DEFINE d == IF r.code = 0 THEN x ELSE <<>>
           m == ReplyBytes(r)
<1>0. d \in Seq({9}) /\ d \in Seq(Bytes) /\ Len(d) \in Nat /\ m \in Seq(Bytes) /\ Len(m) \in Nat
  <2>1. d \in Seq({9})
    BY Socks5Assumption, EmptySeq
  <2> HIDE DEF d
  <2> QED
    BY <2>1, ReplyParts, ByteFacts, LenProperties
<1>1. inbox' = inbox \o m \o d
  OBVIOUS
<1> HIDE DEF d, m
<1>2. inbox \o m \in Seq(Bytes)
  BY <1>0, ConcatProperties DEF SocksTypeOK
<1>3. inbox' \in Seq(Bytes) /\ Len(inbox') = Len(inbox \o m) + Len(d)
  <2> DEFINE k == inbox \o m
  <2>1. k \in Seq(Bytes)
    BY <1>2
  <2> HIDE DEF k
  <2>2. k \o d \in Seq(Bytes) /\ Len(k \o d) = Len(k) + Len(d)
    BY <1>0, <2>1, ConcatProperties
  <2> QED
    BY <1>1, <2>2 DEF k
<1>4. SocksTypeOK'
  BY <1>0, <1>3 DEF SocksTypeOK, m
<1>5. TurnInv' /\ QuietInv' /\ GreetingInv'
  BY DEF TurnInv, QuietInv, GreetingInv, Sends, Reads, Replied
<1>6. WantInv'
  BY DEF WantInv, Wanted
<1>7. AnswerInv'
  <2> SUFFICES ASSUME pc = "readHeader" PROVE AnswerInv'
    BY DEF AnswerInv, TurnInv, Replied
  <2>1. inbox = <<>> /\ buf = <<>> /\ replied = 0
    BY DEF QuietInv, Reads
  <2>2. inbox \o m = m
    BY <1>0, <2>1, ConcatEmptySeq
  <2>3. inbox' = m \o d
    BY <1>1, <2>2
  <2>4. buf' \o inbox' = inbox'
    BY <1>3, <2>1, ConcatEmptySeq
  <2>5. Rest(r, d, "readHeader") = m \o d
    BY <1>0, ReplyParts DEF m
  <2>6. replied' = Len(m) /\ Len(inbox') = Len(m) + Len(d)
    BY <1>0, <1>3, <2>1, <2>2 DEF m
  <2>7. buf' \o inbox' = Rest(r, d, pc') /\ replied' = Len(inbox') - Len(d) /\ pc' = "readHeader"
    <3>1. pc' = "readHeader"
      OBVIOUS
    <3>2. Rest(r, d, pc') = inbox'
      BY <2>3, <2>5, <3>1
    <3>3. replied' = Len(inbox') - Len(d)
      <4> DEFINE a == Len(m)
                 c == Len(d)
      <4>1. a \in Nat /\ c \in Nat /\ replied' = a /\ Len(inbox') = a + c
        BY <1>0, <2>6
      <4> HIDE DEF a, c
      <4>2. replied' = (a + c) - c
        BY <4>1
      <4> QED
        BY <4>1, <4>2 DEF c
    <3> QED
      BY <2>4, <3>1, <3>2, <3>3
  <2>8. (\E s \in Replies, y \in Seq({9}) :
          /\ granted <=> s.code = 0
          /\ pc # "readHeader" => s.code = 0
          /\ pc = "readLength" => s.atyp = 3
          /\ pc = "readAddress" => len = Len(s.addr)
          /\ buf \o inbox = Rest(s, y, pc)
          /\ replied = Len(inbox) - Len(y))'
    <3> USE <1>0
    <3> WITNESS r \in Replies, d \in Seq({9})
    <3> QED
      BY <1>0, <2>7
  <2> QED
    BY <2>8 DEF AnswerInv
<1> QED
  BY <1>4, <1>5, <1>6, <1>7

(* What a ReadExact wants of a reply is its next piece.                    *)
LEMMA PieceWanted ==
  ASSUME SocksInv, NEW r \in Replies, pc \in Replied \ {"open"},
         pc = "readAddress" => len = Len(r.addr)
  PROVE  Len(Piece(r, pc)) = Wanted
<1>1. CASE pc = "readHeader"
  BY <1>1 DEF Piece, Wanted
<1>2. CASE pc = "readLength"
  BY <1>2 DEF Piece, Wanted
<1>3. CASE pc = "readAddress"
  BY <1>3 DEF Piece, Wanted
<1>4. CASE pc = "readPort"
  BY <1>4, ByteFacts DEF Piece, Wanted
<1> QED
  BY <1>1, <1>2, <1>3, <1>4 DEF Replied

(* One fragment of a greeting or of a reply.                               *)
LEMMA ReceiveInv == ASSUME SocksInv, NEW n \in 1 .. 16, Receive(n) PROVE SocksInv'
<1> DEFINE b == buf \o SubSeq(inbox, 1, n)
           t == SubSeq(inbox, n + 1, Len(inbox))
<1>1. /\ pc \in Reads /\ n <= Len(inbox) /\ n <= Wanted - Len(buf) /\ inbox' = t
      /\ replied' = IF replied < n THEN 0 ELSE replied - n
      /\ \/ Len(b) < Wanted /\ buf' = b /\ elapsed' = elapsed /\ UNCHANGED <<pc, len>>
         \/ ~(Len(b) < Wanted) /\ pc' = After(b) /\ elapsed' = 0 /\ buf' = <<>> /\ len' = LengthAfter(b)
      /\ UNCHANGED <<total, server, closed, granted>>
  BY DEF Receive, Goto, ClockAfterFragment
<1>2. buf \in Seq(Bytes) /\ inbox \in Seq(Bytes) /\ len \in Bytes /\ replied \in Nat
  BY DEF SocksInv, SocksTypeOK
<1>3. Len(inbox) \in Nat /\ Len(buf) \in Nat /\ n \in 1 .. Len(inbox)
  BY <1>1, <1>2, LenProperties
<1>4. /\ b \in Seq(Bytes) /\ Len(b) = Len(buf) + n
      /\ t \in Seq(Bytes) /\ Len(t) = Len(inbox) - n
      /\ b \o t = buf \o inbox
  <2>1. \A S : \A x, y \in Seq(S) : \A k \in 1 .. Len(y) :
          /\ x \o SubSeq(y, 1, k) \in Seq(S) /\ Len(x \o SubSeq(y, 1, k)) = Len(x) + k
          /\ SubSeq(y, k + 1, Len(y)) \in Seq(S) /\ Len(SubSeq(y, k + 1, Len(y))) = Len(y) - k
          /\ Cat(Cat(x, SubSeq(y, 1, k)), SubSeq(y, k + 1, Len(y))) = Cat(x, y)
    BY Fragment
  <2>2. b \in Seq(Bytes)
    BY <1>2, <1>3, <2>1
  <2>3. Len(b) = Len(buf) + n
    BY <1>2, <1>3, <2>1
  <2>4. t \in Seq(Bytes)
    BY <1>2, <1>3, <2>1
  <2>5. Len(t) = Len(inbox) - n
    BY <1>2, <1>3, <2>1
  <2>6. Cat(Cat(buf, SubSeq(inbox, 1, n)), t) = Cat(buf, inbox)
    BY <1>2, <1>3, <2>1
  <2> QED
    BY <2>2, <2>3, <2>4, <2>5, <2>6 DEF Cat
<1> HIDE DEF b, t
<1>5. inbox # <<>>
  BY <1>3, EmptySeq
<1>6. /\ pc = "readAuth" => server = "request"
      /\ pc # "readAuth" => pc \in Replied \ {"open"} /\ server = "done"
  BY <1>1, <1>5 DEF SocksInv, TurnInv, QuietInv, Reads, Replied
<1>7. Wanted \in Nat
  <2>1. len \in Nat
    BY <1>2, ByteFacts
  <2> QED
    BY <1>1, <2>1 DEF Wanted, Reads
<1>8. Len(b) <= Wanted
  BY <1>1, <1>3, <1>4, <1>7
<1>9. replied' \in Nat
  BY <1>1, <1>2
<1>10. CASE pc = "readAuth" /\ Len(b) < Wanted
  <2>1. /\ pc' = pc /\ buf' = b /\ len' = len /\ Wanted' = Wanted
    BY <1>1, <1>10 DEF Wanted
  <2>2. GreetingInv'
    <3>1. buf \o inbox \in Greetings /\ replied = Len(inbox)
      BY <1>6, <1>10 DEF SocksInv, GreetingInv
    <3>2. buf' \o inbox' = buf \o inbox
      BY <1>1, <1>4, <2>1
    <3>3. replied' = Len(inbox')
      BY <1>1, <1>3, <1>4, <3>1
    <3> QED
      BY <3>1, <3>2, <3>3 DEF GreetingInv
  <2>3. SocksTypeOK'
    BY <1>1, <1>4, <1>9, <2>1 DEF SocksInv, SocksTypeOK
  <2>4. TurnInv' /\ QuietInv' /\ WantInv' /\ AnswerInv'
    BY <1>1, <1>6, <1>10, <2>1 DEF SocksInv, TurnInv, QuietInv, WantInv, AnswerInv, Sends, Reads, Replied
  <2> QED
    BY <2>2, <2>3, <2>4 DEF SocksInv
<1>11. CASE pc = "readAuth" /\ ~(Len(b) < Wanted)
  <2>1. /\ pc' = (IF b = <<5, 0>> THEN "sendRequest" ELSE "failed")
        /\ buf' = <<>> /\ len' = len /\ elapsed' = 0
    BY <1>1, <1>11 DEF After, LengthAfter
  <2>2. b = <<5, 0>> => inbox' = <<>> /\ replied' = 0
    <3> SUFFICES ASSUME b = <<5, 0>> PROVE inbox' = <<>> /\ replied' = 0
      OBVIOUS
    <3>1. b \o t \in Greetings /\ replied = Len(inbox)
      BY <1>4, <1>6, <1>11 DEF SocksInv, GreetingInv
    <3> DEFINE g == b \o t
    <3>2. Len(g) = Len(b) + Len(t) /\ \A i \in 1 .. Len(b) + Len(t) : g[i] = IF i <= Len(b) THEN b[i] ELSE t[i - Len(b)]
      BY <1>4, ConcatProperties
    <3>3. Len(b) = 2 /\ b[1] = 5 /\ b[2] = 0 /\ Len(t) \in Nat
      BY <1>4, LenProperties
    <3> HIDE DEF g
    <3>4. Len(g) = 2 + Len(t) /\ g[1] = 5 /\ g[2] = 0
      BY <3>2, <3>3
    <3>5. g \in Greetings
      BY <3>1 DEF g
    <3>6. ~(Len(g) > 2)
      BY <3>4, <3>5, Socks5Assumption
    <3>7. Len(t) = 0
      BY <3>3, <3>4, <3>6
    <3>8. t = <<>>
      BY <1>4, <3>7, EmptySeq
    <3>9. replied' = 0
      BY <1>1, <1>3, <1>4, <3>1, <3>7
    <3> QED
      BY <1>1, <3>8, <3>9
  <2>3. SocksTypeOK'
    BY <1>1, <1>4, <1>9, <2>1, ByteFacts DEF SocksInv, SocksTypeOK, Sends, Ended
  <2>4. TurnInv' /\ QuietInv' /\ WantInv' /\ GreetingInv' /\ AnswerInv'
    BY <1>1, <1>6, <1>11, <2>1, <2>2 DEF TurnInv, QuietInv, WantInv, GreetingInv, AnswerInv, Sends, Reads, Replied
  <2> QED
    BY <2>3, <2>4 DEF SocksInv
<1>12. CASE pc # "readAuth"
  <2>1. PICK r \in Replies, d \in Seq({9}) :
          /\ granted <=> r.code = 0
          /\ pc # "readHeader" => r.code = 0
          /\ pc = "readLength" => r.atyp = 3
          /\ pc = "readAddress" => len = Len(r.addr)
          /\ buf \o inbox = Rest(r, d, pc)
          /\ replied = Len(inbox) - Len(d)
    BY <1>6, <1>12 DEF SocksInv, AnswerInv
  <2> DEFINE q == Following(r, pc)
             w == Piece(r, pc)
             u == Rest(r, d, q)
  <2>2. /\ q \in Replied /\ (q = "readLength" => r.atyp = 3)
        /\ w \in Seq(Bytes) /\ u \in Seq(Bytes) /\ Rest(r, d, pc) = w \o u
        /\ Len(u) \in Nat /\ Len(u) >= Len(d)
    BY <1>6, <1>12, <2>1, RestStep
  <2>3. Len(w) = Wanted
    BY <1>6, <1>12, <2>1, PieceWanted
  <2> HIDE DEF q, w, u
  <2>4. b \o t = w \o u
    BY <1>4, <2>1, <2>2
  <2>5. Len(d) \in Nat
    BY LenProperties
  <2>6. Len(b) + Len(t) = Len(w) + Len(u)
    <3>1. Len(b \o t) = Len(b) + Len(t)
      BY <1>4, ConcatProperties
    <3>2. Len(w \o u) = Len(w) + Len(u)
      BY <2>2, ConcatProperties
    <3> QED
      BY <2>4, <3>1, <3>2
  <2>7. replied' = Len(t) - Len(d)
    <3>1. Len(t) >= Len(d) /\ Len(t) \in Nat /\ Len(inbox) = Len(t) + n
      BY <1>3, <1>4, <1>7, <1>8, <2>2, <2>3, <2>5, <2>6
    <3>2. replied = (Len(t) + n) - Len(d)
      BY <2>1, <3>1
    <3> QED
      BY <1>1, <2>5, <3>1, <3>2
  <2>8. CASE Len(b) < Wanted
    <3>1. pc' = pc /\ buf' = b /\ len' = len /\ Wanted' = Wanted
      BY <1>1, <2>8 DEF Wanted
    <3>2. buf' \o inbox' = Rest(r, d, pc') /\ replied' = Len(inbox') - Len(d)
      BY <1>1, <1>4, <2>1, <2>7, <3>1
    <3>3. AnswerInv'
      BY <1>1, <2>1, <3>1, <3>2 DEF AnswerInv
    <3>4. SocksTypeOK'
      BY <1>1, <1>4, <1>9, <3>1 DEF SocksInv, SocksTypeOK
    <3>5. TurnInv' /\ QuietInv' /\ WantInv' /\ GreetingInv'
      BY <1>1, <1>6, <1>12, <2>8, <3>1 DEF SocksInv, TurnInv, QuietInv, WantInv, GreetingInv, Sends, Reads, Replied
    <3> QED
      BY <3>3, <3>4, <3>5 DEF SocksInv
  <2>9. CASE ~(Len(b) < Wanted)
    <3>1. Len(b) = Len(w)
      BY <1>3, <1>4, <1>7, <1>8, <2>3, <2>9
    <3>2. b = w /\ t = u
      BY <1>4, <2>2, <2>4, <3>1, SameCut
    <3>3. /\ pc' = IF pc = "readHeader" /\ r.code # 0 THEN "failed" ELSE q
          /\ len' \in Bytes /\ (pc' = "readAddress" => len' = Len(r.addr) /\ len' > 0)
      <4>1. pc' = After(w) /\ len' = LengthAfter(w)
        BY <1>1, <2>9, <3>2
      <4>2. /\ r.code \in Bytes /\ Len(r.addr) \in Nat
            /\ (r.atyp = 1 => Len(r.addr) = 4) /\ (r.atyp = 4 => Len(r.addr) = 16)
            /\ (r.atyp = 3 => Len(r.addr) \in Bytes)
        <5>1. Len(r.addr) \in Nat
          BY Socks5Assumption, LenProperties
        <5>2. r.atyp = 3 => Len(r.addr) \in Bytes
          BY ReplyParts
        <5> QED
          BY <5>1, <5>2, Socks5Assumption
      <4>3. CASE pc = "readHeader"
        <5>1. w = <<r.ver, r.code, 0, r.atyp>> /\ After(w) = AfterHeader(w) /\ LengthAfter(w) = AddressLength(w[4])
          BY <4>3 DEF w, Piece, After, LengthAfter
        <5>2. w[2] = r.code /\ w[4] = r.atyp
          BY <5>1
        <5>3. q = IF r.atyp = 3 THEN "readLength" ELSE IF r.atyp \in {1, 4} THEN "readAddress" ELSE "readPort"
          BY <4>3 DEF q, Following
        <5>4. r.atyp = 1 \/ r.atyp = 3 \/ r.atyp = 4 \/ r.atyp \notin {1, 3, 4}
          OBVIOUS
        <5>5. After(w) = (IF r.code # 0 THEN "failed" ELSE IF AddressLength(r.atyp) > 0 THEN "readAddress"
                          ELSE IF r.atyp = 3 THEN "readLength" ELSE "readPort")
          BY <5>1, <5>2 DEF AfterHeader, Accepted
        <5>6. AddressLength(1) = 4 /\ AddressLength(3) = 0 /\ AddressLength(4) = 16
          BY DEF AddressLength
        <5>7. len' = AddressLength(r.atyp)
          BY <4>1, <5>1, <5>2
        <5>8. CASE r.atyp = 3
          BY <4>1, <4>3, <5>3, <5>5, <5>6, <5>7, <5>8 DEF Bytes
        <5>9. CASE r.atyp = 1
          <6>1. Len(r.addr) = 4 /\ len' = 4 /\ q = "readAddress"
            BY <4>2, <5>3, <5>6, <5>7, <5>9
          <6>2. pc' = IF r.code # 0 THEN "failed" ELSE "readAddress"
            BY <4>1, <5>5, <5>6, <5>9
          <6> QED
            BY <4>3, <6>1, <6>2 DEF Bytes
        <5>10. CASE r.atyp = 4
          <6>1. Len(r.addr) = 16 /\ len' = 16 /\ q = "readAddress"
            BY <4>2, <5>3, <5>6, <5>7, <5>10
          <6>2. pc' = IF r.code # 0 THEN "failed" ELSE "readAddress"
            BY <4>1, <5>5, <5>6, <5>10
          <6> QED
            BY <4>3, <6>1, <6>2 DEF Bytes
        <5>11. CASE r.atyp \notin {1, 3, 4}
          <6>1. AddressLength(r.atyp) = 0 /\ q = "readPort"
            BY <5>3, <5>11 DEF AddressLength
          <6>2. pc' = (IF r.code # 0 THEN "failed" ELSE "readPort") /\ len' = 0
            BY <4>1, <5>5, <5>7, <5>11, <6>1
          <6> QED
            BY <4>3, <6>1, <6>2 DEF Bytes
        <5> QED
          BY <5>4, <5>8, <5>9, <5>10, <5>11
      <4>4. CASE pc = "readLength"
        <5>1. w = <<Len(r.addr)>> /\ w[1] = Len(r.addr)
          BY <4>4 DEF w, Piece
        <5>2. q = IF Len(r.addr) > 0 THEN "readAddress" ELSE "readPort"
          BY <4>4 DEF q, Following
        <5> QED
          BY <2>1, <4>1, <4>2, <4>4, <5>1, <5>2 DEF After, LengthAfter
      <4>5. CASE pc = "readAddress"
        BY <1>2, <2>1, <4>1, <4>5 DEF q, Following, After, LengthAfter
      <4>6. CASE pc = "readPort"
        BY <1>2, <2>1, <4>1, <4>6 DEF q, Following, After, LengthAfter
      <4> QED
        BY <1>6, <1>12, <4>3, <4>4, <4>5, <4>6 DEF Replied
    <3>4. buf' = <<>> /\ elapsed' = 0
      BY <1>1, <2>9
    <3>5. buf' \o inbox' = u
      BY <1>1, <2>2, <3>2, <3>4, ConcatEmptySeq
    <3>6. AnswerInv'
      BY <1>1, <2>1, <2>2, <2>7, <3>2, <3>3, <3>5 DEF AnswerInv, u, Replied
    <3>7. SocksTypeOK'
      BY <1>1, <1>4, <1>9, <2>2, <3>3, <3>4, ByteFacts DEF SocksInv, SocksTypeOK, Ended, Reads, Replied
    <3>8. TurnInv' /\ QuietInv' /\ GreetingInv'
      BY <1>1, <1>6, <1>12, <2>2, <3>3 DEF TurnInv, QuietInv, GreetingInv, Sends, Reads, Replied
    <3>9. WantInv'
      <4>1. Len(buf') = 0 /\ len' \in Nat
        BY <3>3, <3>4, ByteFacts
      <4>2. pc' \in Reads => Wanted' > 0
        BY <2>2, <3>3, <4>1 DEF Wanted, Reads, Replied
      <4> QED
        BY <3>4, <4>1, <4>2 DEF WantInv
    <3> QED
      BY <3>6, <3>7, <3>8, <3>9 DEF SocksInv
  <2> QED
    BY <2>8, <2>9
<1> QED
  BY <1>10, <1>11, <1>12

LEMMA SocksNextInv == SocksInv /\ SocksNext => SocksInv'
<1> SUFFICES ASSUME SocksInv, SocksNext PROVE SocksInv'
  OBVIOUS
<1>1. elapsed \in Nat /\ total \in Nat /\ closed \in BOOLEAN /\ granted \in BOOLEAN
  BY DEF SocksInv, SocksTypeOK
<1>2. CASE Tick
  <2>1. elapsed' = elapsed + 1 /\ total' = total + 1
        /\ UNCHANGED <<pc, buf, len, inbox, server, closed, granted, replied>>
    BY <1>2 DEF Tick
  <2> QED
    BY <1>1, <2>1, SocksQuiet
<1>3. CASE ServerCloses
  <2>1. closed' = TRUE /\ UNCHANGED <<pc, buf, len, elapsed, total, inbox, server, granted, replied>>
    BY <1>3 DEF ServerCloses
  <2> QED
    BY <1>1, <2>1, SocksQuiet
<1> QED
  BY <1>2, <1>3, SendInv, EndInv, ReceiveInv, ServerGreetsInv, ServerRepliesInv DEF SocksNext, Client, Server

(* The handshake that ends well was granted and is aligned.                *)
LEMMA OpenFacts == SocksInv => StreamAligned /\ (pc = "open" => granted)
<1> SUFFICES ASSUME SocksInv, pc = "open" PROVE replied = 0 /\ granted /\ \A i \in 1 .. Len(inbox) : inbox[i] = 9
  BY DEF StreamAligned
<1>1. PICK r \in Replies, d \in Seq({9}) :
        granted /\ buf \o inbox = Rest(r, d, "open") /\ replied = Len(inbox) - Len(d)
  BY DEF SocksInv, AnswerInv, TurnInv, Replied
<1>2. inbox \in Seq(Bytes) /\ buf = <<>>
  BY DEF SocksInv, SocksTypeOK, WantInv, Reads
<1>3. buf \o inbox = inbox
  BY <1>2, ConcatEmptySeq
<1>4. inbox = d
  BY <1>1, <1>3 DEF Rest
<1>5. Len(d) \in Nat /\ \A i \in 1 .. Len(d) : d[i] = 9
  BY ByteFacts, LenProperties
<1> QED
  BY <1>1, <1>4, <1>5

-----------------------------------------------------------------------------
Fields == {"host", "port", "type", "mitm", "connect"}

(* A field out of its range is one that a load has yet to judge, or that a *)
(* load left behind when it threw.                                         *)
ReadInv(h) ==
  /\ load[h] \in {"proxy", "validate", "mitm", "timeout", "clamp"} => read[h] \in Files \ {NoFile}
  /\ load[h] = "timeout" => read[h].timeout # Absent

LoadInv ==
  /\ DOMAIN load = Hooks /\ DOMAIN read = Hooks /\ DOMAIN config = Fields
  /\ \A h \in Hooks : ReadInv(h)
  /\ config.connect \in Int
  /\ PortInRange(config.port) \/ \E h \in Hooks : load[h] \in {"validate", "threw"}
  /\ TimeoutInRange(config.connect) \/ \E h \in Hooks : load[h] \in {"clamp", "threw"}

(* The calls of the handshake that are over, each of which took at most    *)
(* Timeout.                                                                *)
Over(p) ==
  CASE p = "sendAuth"    -> 0 [] p = "readAuth"    -> 1
    [] p = "sendRequest" -> 2 [] p = "readHeader"  -> 3
    [] p = "readLength"  -> 4 [] p = "readAddress" -> 5
    [] p = "readPort"    -> 6 [] OTHER -> 7

Early == {"init", "route", "dial"}

(* The time the poll for the connect can take, its signals included.       *)
DialBudget == (Signals + 1) * DialTicks

HandshakeClock ==
  /\ elapsed <= Timeout /\ (pc \in Ended => elapsed = 0)
  /\ total <= DialBudget + Over(pc) * Timeout + elapsed

ClockInv ==
  /\ phase \in Early \cup {"poll", "ask", "mitm", "socks"} \cup Returned
  /\ signals \in 0 .. Signals
  /\ phase \in Early => elapsed = 0 /\ total = 0
  /\ phase = "poll" => elapsed <= DialTicks /\ total <= (Signals - signals) * DialTicks + elapsed
  /\ phase \in {"ask", "mitm"} => total <= DialBudget
  /\ phase = "socks" => HandshakeClock
  /\ phase \in Returned => CallBounded

(* The handshake has not begun before its phase, and phase ends with it.   *)
PhaseInv ==
  /\ phase \in Early \cup {"poll", "ask", "mitm"} => pc = "sendAuth"
  /\ phase \in {"ask", "mitm"} => via = "mitm"
  /\ OpenOnlyIfAccepted

CallInv == SocksInv /\ LoadInv /\ ClockInv /\ PhaseInv

-----------------------------------------------------------------------------
LEMMA TestIsBoolean == ASSUME NEW S, NEW x, NEW b, b = (x \in S) PROVE b \in BOOLEAN
OBVIOUS

LEMMA Judged ==
  /\ \A p : PortInRange(ValidPort(p))
  /\ \A v \in Int : TimeoutInRange(Clamp(v)) /\ Clamp(v) \in Int
  /\ PortInRange(DefaultPort) /\ TimeoutInRange(DefaultTimeout)
<1>1. PortInRange(DefaultPort) /\ \A p : PortInRange(ValidPort(p))
  BY DEF PortInRange, ValidPort, DefaultPort
<1>2. MinTimeout \in Int /\ MaxTimeout \in Int /\ DefaultTimeout \in Int
      /\ MinTimeout <= DefaultTimeout /\ DefaultTimeout <= MaxTimeout
  BY DEF MinTimeout, MaxTimeout, DefaultTimeout
<1>3. TimeoutInRange(DefaultTimeout) /\ \A v \in Int : TimeoutInRange(Clamp(v)) /\ Clamp(v) \in Int
  BY <1>2 DEF Clamp, TimeoutInRange
<1> QED
  BY <1>1, <1>3

LEMMA ConfigInitInv == ConfigInit => LoadInv
<1> SUFFICES ASSUME ConfigInit PROVE LoadInv
  OBVIOUS
<1>1. /\ config.port = DefaultPort /\ config.connect = DefaultTimeout /\ DOMAIN config = Fields
      /\ DOMAIN load = Hooks /\ DOMAIN read = Hooks /\ \A h \in Hooks : load[h] = "idle"
  BY DEF ConfigInit, Fields
<1>2. DefaultTimeout \in Int
  BY DEF DefaultTimeout
<1> QED
  BY <1>1, <1>2, Judged DEF LoadInv, ReadInv

(* One load goes on to s: what it reads, and who still has to judge.       *)
Moves(h, s) ==
  /\ DOMAIN load' = Hooks /\ DOMAIN read' = Hooks /\ load'[h] = s
  /\ \A g \in Hooks : g # h => load'[g] = load[g] /\ read'[g] = read[g]

LEMMA MovesOn ==
  ASSUME LoadInv, NEW h \in Hooks, NEW s, LoadAt(h, s)
  PROVE  Moves(h, s) /\ (s \notin {"done", "threw"} => read'[h] = read[h])
<1>1. DOMAIN load = Hooks /\ DOMAIN read = Hooks
  BY DEF LoadInv
<1>2. load' = [load EXCEPT ![h] = s]
  BY DEF LoadAt
<1>3. read' = [read EXCEPT ![h] = NoFile] \/ (read' = read /\ s \in {"done", "threw"}) \/ read' = read
  BY DEF LoadAt
<1>4. s \notin {"done", "threw"} => read' = read
  BY DEF LoadAt
<1> QED
  BY <1>1, <1>2, <1>3, <1>4 DEF Moves

(* The invariant is kept by a load that moves on, when the fields it wrote *)
(* are in range, or waited for it before or wait for it now.               *)
LEMMA MovesInv ==
  ASSUME LoadInv, NEW h \in Hooks, NEW s, Moves(h, s),
         s \in {"proxy", "validate", "mitm", "timeout", "clamp"} => read'[h] \in Files \ {NoFile},
         s = "timeout" => read'[h].timeout # Absent,
         DOMAIN config' = Fields, config'.connect \in Int,
         \/ s \in {"validate", "threw"}
         \/ PortInRange(config'.port)
         \/ config'.port = config.port /\ load[h] \notin {"validate", "threw"},
         \/ s \in {"clamp", "threw"}
         \/ TimeoutInRange(config'.connect)
         \/ config'.connect = config.connect /\ load[h] \notin {"clamp", "threw"}
  PROVE  LoadInv'
<1>1. DOMAIN load' = Hooks /\ DOMAIN read' = Hooks /\ DOMAIN config' = Fields
  BY DEF Moves
<1>2. \A g \in Hooks : ReadInv(g)'
  <2> SUFFICES ASSUME NEW g \in Hooks PROVE ReadInv(g)'
    OBVIOUS
  <2>1. CASE g = h
    BY <2>1 DEF ReadInv, Moves
  <2>2. CASE g # h
    BY <2>2 DEF ReadInv, Moves, LoadInv
  <2> QED
    BY <2>1, <2>2
<1>3. PortInRange(config'.port) \/ \E g \in Hooks : load'[g] \in {"validate", "threw"}
  <2>1. CASE s \in {"validate", "threw"}
    BY <2>1 DEF Moves
  <2>2. CASE config'.port = config.port /\ load[h] \notin {"validate", "threw"}
    BY <2>2 DEF Moves, LoadInv
  <2> QED
    BY <2>1, <2>2
<1>4. TimeoutInRange(config'.connect) \/ \E g \in Hooks : load'[g] \in {"clamp", "threw"}
  <2>1. CASE s \in {"clamp", "threw"}
    BY <2>1 DEF Moves
  <2>2. CASE config'.connect = config.connect /\ load[h] \notin {"clamp", "threw"}
    BY <2>2 DEF Moves, LoadInv
  <2> QED
    BY <2>1, <2>2
<1> QED
  BY <1>1, <1>2, <1>3, <1>4 DEF LoadInv

(* What a step of Load leaves is judged, or goes on to be judged.          *)
LEMMA LoadStepInv == ASSUME LoadInv, NEW h \in Hooks, LoadStep(h) PROVE LoadInv'
<1>0. /\ DOMAIN config = Fields /\ config.connect \in Int /\ ReadInv(h)
      /\ DOMAIN load = Hooks /\ DOMAIN read = Hooks
  BY DEF LoadInv
<1>1. ASSUME NEW f \in Files, Open(h, f) PROVE LoadInv'
  <2>1. load[h] = "idle" /\ config' = config
    BY <1>1 DEF Open
  <2>2. CASE f = NoFile
    <3>1. LoadAt(h, "done")
      BY <1>1, <2>2 DEF Open
    <3> QED
      BY <1>0, <2>1, <3>1, MovesOn, MovesInv
  <2>3. CASE f # NoFile
    <3>1. load' = [load EXCEPT ![h] = "proxy"] /\ read' = [read EXCEPT ![h] = f]
      BY <1>1, <2>3 DEF Open
    <3>2. Moves(h, "proxy") /\ read'[h] = f
      BY <1>0, <3>1 DEF Moves
    <3> QED
      BY <1>0, <2>1, <2>3, <3>2, MovesInv
  <2> QED
    BY <2>2, <2>3
<1>2. CASE ReadProxy(h)
  <2> DEFINE p == read[h].proxy
  <2>1. load[h] = "proxy" /\ read[h] \in Files \ {NoFile}
    BY <1>0, <1>2 DEF ReadProxy, ReadInv
  <2>2. CASE p = Absent
    <3>1. LoadAt(h, "mitm") /\ config' = config
      BY <1>2, <2>2 DEF ReadProxy
    <3> QED
      BY <1>0, <2>1, <3>1, MovesOn, MovesInv
  <2>3. CASE p # Absent
    <3> DEFINE host == IF HostThrows(p) THEN config.host ELSE Value(p.host, "address")
    <3> DEFINE port == IF PortThrows(p) THEN config.port ELSE Value(p.port, DefaultPort)
    <3> DEFINE type == IF ProxyThrows(p) THEN config.type ELSE Value(p.type, "socks5")
    <3>1. config' = [config EXCEPT !.host = host, !.port = port, !.type = type]
      BY <1>2, <2>3, Zenon DEF ReadProxy
    <3> HIDE DEF host, port, type
    <3>2. config'.connect = config.connect /\ DOMAIN config' = Fields
      BY <1>0, <3>1 DEF Fields
    <3>3. PICK s \in {"threw", "validate"} : LoadAt(h, s)
      BY <1>2, <2>3 DEF ReadProxy
    <3>4. Moves(h, s) /\ (s = "validate" => read'[h] = read[h])
      BY <3>3, MovesOn
    <3> QED
      BY <1>0, <2>1, <3>2, <3>3, <3>4, MovesInv
  <2> QED
    BY <2>2, <2>3
<1>3. CASE Validate(h)
  <2>1. load[h] = "validate" /\ LoadAt(h, "mitm") /\ read[h] \in Files \ {NoFile}
    BY <1>0, <1>3 DEF Validate, ReadInv
  <2>2. PICK c : config' = [config EXCEPT !.port = ValidPort(config.port), !.type = c]
    BY <1>3 DEF Validate
  <2>3. config'.connect = config.connect /\ DOMAIN config' = Fields /\ config'.port = ValidPort(config.port)
    BY <1>0, <2>2 DEF Fields
  <2> QED
    BY <1>0, <2>1, <2>3, Judged, MovesOn, MovesInv
<1>4. CASE ReadMitm(h)
  <2>1. PICK b : config' = [config EXCEPT !.mitm = b] \/ config' = config
    BY <1>4 DEF ReadMitm
  <2>2. config'.connect = config.connect /\ config'.port = config.port /\ DOMAIN config' = Fields
    BY <1>0, <2>1 DEF Fields
  <2>3. load[h] = "mitm" /\ read[h] \in Files \ {NoFile}
    BY <1>0, <1>4 DEF ReadMitm, ReadInv
  <2>4. LoadAt(h, "threw") \/ LoadAt(h, "done") \/ (read[h].timeout # Absent /\ LoadAt(h, "timeout"))
    BY <1>4 DEF ReadMitm
  <2> QED
    BY <1>0, <2>2, <2>3, <2>4, MovesOn, MovesInv
<1>5. CASE ReadTimeout(h)
  <2>1. load[h] = "timeout" /\ read[h] \in Files \ {NoFile} /\ read[h].timeout # Absent
    BY <1>0, <1>5 DEF ReadTimeout, ReadInv
  <2>2. read[h].timeout.connect \in Int \cup {Absent, IllTyped}
    BY <2>1, ConfigAssumption
  <2>3. PICK v : config' = [config EXCEPT !.connect = v]
                 /\ v = IF read[h].timeout.connect = IllTyped THEN config.connect
                        ELSE Value(read[h].timeout.connect, DefaultTimeout)
    BY <1>5 DEF ReadTimeout
  <2>4. v \in Int
    BY <1>0, <2>2, <2>3 DEF Value, DefaultTimeout
  <2>5. config'.connect = v /\ config'.port = config.port /\ DOMAIN config' = Fields
    BY <1>0, <2>3 DEF Fields
  <2>6. LoadAt(h, "threw") \/ LoadAt(h, "clamp")
    BY <1>5 DEF ReadTimeout
  <2> QED
    BY <1>0, <2>1, <2>4, <2>5, <2>6, MovesOn, MovesInv
<1>6. CASE ClampTimeout(h)
  <2>1. load[h] = "clamp" /\ LoadAt(h, "done") /\ config' = [config EXCEPT !.connect = Clamp(config.connect)]
    BY <1>6 DEF ClampTimeout
  <2>2. config'.connect = Clamp(config.connect) /\ config'.port = config.port /\ DOMAIN config' = Fields
    BY <1>0, <2>1 DEF Fields
  <2>3. TimeoutInRange(config'.connect) /\ config'.connect \in Int
    BY <1>0, <2>2, Judged
  <2> QED
    BY <1>0, <2>1, <2>2, <2>3, MovesOn, MovesInv
<1> QED
  BY <1>1, <1>2, <1>3, <1>4, <1>5, <1>6 DEF LoadStep

LEMMA LoadRange == LoadInv => SettledConfigInRange
<1> SUFFICES ASSUME LoadInv, \A h \in Hooks : load[h] \in {"idle", "done"}
             PROVE  PortInRange(config.port) /\ TimeoutInRange(config.connect)
  BY DEF SettledConfigInRange
<1>1. \A h \in Hooks : load[h] \notin {"validate", "clamp", "threw"}
  OBVIOUS
<1> QED
  BY <1>1 DEF LoadInv

-----------------------------------------------------------------------------
LEMMA CallInit == Init => CallInv
<1> SUFFICES ASSUME Init PROVE CallInv
  OBVIOUS
<1>1. SocksInv /\ LoadInv
  BY SocksInitInv, ConfigInitInv DEF Init
<1>2. ClockInv
  <2>1. phase = "init" /\ signals = Signals /\ elapsed = 0 /\ total = 0
    BY DEF Init, SocksInit
  <2>2. signals \in 0 .. Signals
    BY <2>1, ConnectAssumption
  <2> QED
    BY <2>1, <2>2 DEF ClockInv, Returned, Early
<1>3. PhaseInv
  BY DEF Init, SocksInit, PhaseInv, OpenOnlyIfAccepted, Early
<1> QED
  BY <1>1, <1>2, <1>3 DEF CallInv

(* The configuration is written by the loads alone.                        *)
LEMMA LoadKept ==
  ASSUME CallInv, Next
  PROVE  LoadInv'
<1>1. CASE OwnLoad
  BY <1>1, LoadStepInv, ConnectAssumption DEF OwnLoad, CallInv
<1>2. CASE OtherLoad
  BY <1>2, LoadStepInv DEF OtherLoad, CallInv
<1>3. CASE UNCHANGED cfgVars
  <2>1. config' = config /\ load' = load /\ read' = read
    BY <1>3 DEF cfgVars
  <2>2. LoadInv
    BY DEF CallInv
  <2> QED
    BY <2>1, <2>2 DEF LoadInv, ReadInv
<1>4. OwnLoad \/ OtherLoad \/ UNCHANGED cfgVars
  BY DEF Next, Initialized, Route, Dial, InProgress, Polled, Interrupted, PollTick, PollExpired,
     Handshake, HandshakeEnds, MitmAsk, MitmRecv
<1> QED
  BY <1>1, <1>2, <1>3, <1>4

(* The handshake goes on in its phase; elsewhere only the clocks move, and *)
(* the answer of the MITM proxy grants the tunnel.                         *)
LEMMA SocksKept ==
  ASSUME CallInv, Next
  PROVE  SocksInv'
<1>1. elapsed \in Nat /\ total \in Nat /\ closed \in BOOLEAN /\ granted \in BOOLEAN
  BY DEF CallInv, SocksInv, SocksTypeOK
<1>2. CASE Handshake
  BY <1>2, SocksNextInv DEF Handshake, CallInv
<1>3. CASE \/ Polled \/ Interrupted \/ PollTick
  <2>1. /\ UNCHANGED <<pc, buf, len, inbox, server, closed, granted, replied>>
        /\ elapsed' \in Nat /\ total' \in Nat
    BY <1>1, <1>3 DEF Polled, Interrupted, PollTick
  <2> QED
    BY <1>1, <2>1, SocksQuiet DEF CallInv
<1>5. CASE UNCHANGED socksVars
  <2>1. UNCHANGED <<pc, buf, len, elapsed, total, inbox, server, closed, granted, replied>>
    BY <1>5 DEF socksVars
  <2> QED
    BY <1>1, <2>1, SocksQuiet DEF CallInv
<1>6. Handshake \/ Polled \/ Interrupted \/ PollTick \/ UNCHANGED socksVars
  BY DEF Next, OwnLoad, OtherLoad, Initialized, Route, Dial, InProgress, PollExpired, HandshakeEnds, MitmAsk, MitmRecv
<1> QED
  BY <1>2, <1>3, <1>5, <1>6

-----------------------------------------------------------------------------
LEMMA Products ==
  /\ \A k, d \in Int : (k + 1) * d = k * d + d
  /\ \A k, d \in Nat : k * d \in Nat
  /\ \A j, k, d \in Nat : j <= k => j * d <= k * d
<1>1. \A k, d \in Int : (k + 1) * d = k * d + d
  OBVIOUS
<1>2. \A k, d \in Nat : k * d \in Nat
  OBVIOUS
<1>3. ASSUME NEW j \in Nat, NEW k \in Nat, NEW d \in Nat, j <= k PROVE j * d <= k * d
  <2>1. k - j \in Nat /\ k = j + (k - j)
    BY <1>3
  <2>2. (j + (k - j)) * d = j * d + (k - j) * d
    BY <2>1
  <2>3. (k - j) * d \in Nat /\ j * d \in Nat
    BY <1>2, <2>1
  <2> QED
    BY <2>1, <2>2, <2>3
<1> QED
  BY <1>1, <1>2, <1>3

LEMMA Budgets ==
  /\ Timeout \in Nat /\ DialTicks \in Nat /\ Signals \in Nat /\ DialBudget \in Nat
  /\ 7 * Timeout \in Nat
  /\ \A s \in 0 .. Signals : (Signals - s) * DialTicks + DialTicks <= DialBudget
<1>1. Timeout \in Nat /\ DialTicks \in Nat /\ Signals \in Nat
  BY ConnectAssumption, Socks5Assumption
<1>2. ASSUME NEW s \in 0 .. Signals PROVE (Signals - s) * DialTicks + DialTicks <= DialBudget
  <2>1. Signals - s \in Nat /\ Signals - s + 1 \in Nat /\ Signals + 1 \in Nat /\ Signals - s + 1 <= Signals + 1
    BY <1>1
  <2>2. (Signals - s + 1) * DialTicks = (Signals - s) * DialTicks + DialTicks
    BY <1>1, <2>1, Products
  <2>3. (Signals - s + 1) * DialTicks <= (Signals + 1) * DialTicks
    BY <1>1, <2>1, Products
  <2> QED
    BY <2>2, <2>3 DEF DialBudget
<1>3. DialBudget \in Nat /\ 7 * Timeout \in Nat
  BY <1>1, Products DEF DialBudget
<1> QED
  BY <1>1, <1>2, <1>3

(* Every call of the handshake that ends leads to a later one.             *)
LEMMA CallsAdvance ==
  ASSUME pc \in Sends \cup Reads
  PROVE  /\ Over(pc) \in Nat /\ pc \notin Ended
         /\ Over("failed") = 7 /\ Over(pc) < Over("failed")
         /\ pc \in Sends => Over(pc) < Over(IF pc = "sendAuth" THEN "readAuth" ELSE "readHeader")
         /\ \A b : pc \in Reads => Over(After(b)) \in Nat /\ Over(pc) < Over(After(b))
<1>1. Over(pc) \in Nat /\ pc \notin Ended /\ Over("failed") = 7 /\ Over(pc) < Over("failed")
  BY DEF Over, Sends, Reads, Ended
<1>2. pc \in Sends => Over(pc) < Over(IF pc = "sendAuth" THEN "readAuth" ELSE "readHeader")
  BY DEF Over, Sends
<1>3. ASSUME NEW b, pc \in Reads PROVE Over(After(b)) \in Nat /\ Over(pc) < Over(After(b))
  <2>1. CASE pc = "readAuth"
    <3>1. After(b) \in {"sendRequest", "failed"}
      BY <2>1 DEF After
    <3> QED
      BY <2>1, <3>1 DEF Over
  <2>2. CASE pc = "readHeader"
    <3>1. After(b) \in {"readAddress", "readLength", "readPort", "failed"}
      BY <2>2 DEF After, AfterHeader
    <3> QED
      BY <2>2, <3>1 DEF Over
  <2>3. CASE pc = "readLength"
    <3>1. After(b) \in {"readAddress", "readPort"}
      BY <2>3 DEF After
    <3> QED
      BY <2>3, <3>1 DEF Over
  <2>4. CASE pc \in {"readAddress", "readPort"}
    <3>1. After(b) = IF pc = "readAddress" THEN "readPort" ELSE "open"
      BY <2>4 DEF After
    <3> QED
      BY <2>4, <3>1 DEF Over
  <2> QED
    BY <1>3, <2>1, <2>2, <2>3, <2>4 DEF Reads
<1> QED
  BY <1>1, <1>2, <1>3

(* A step of the handshake stays within the time of its calls.             *)
LEMMA HandshakeInTime ==
  ASSUME SocksInv, HandshakeClock, SocksNext
  PROVE  HandshakeClock'
<1>1. elapsed \in Nat /\ total \in Nat
  BY DEF SocksInv, SocksTypeOK
<1>2. CASE UNCHANGED <<pc, elapsed, total>>
  BY <1>2 DEF HandshakeClock, DialBudget
<1>3. CASE Tick
  <2>1. /\ pc' = pc /\ elapsed' = elapsed + 1 /\ total' = total + 1 /\ elapsed < Timeout
        /\ pc \in Sends \cup Reads
    BY <1>3 DEF Tick
  <2>2. pc' \notin Ended /\ Over(pc) \in Nat
    BY <2>1, CallsAdvance
  <2>3. Over(pc) * Timeout \in Nat
    BY <2>2, Budgets, Products
  <2>4. elapsed' <= Timeout /\ total' <= DialBudget + Over(pc) * Timeout + elapsed'
    BY <1>1, <2>1, <2>3, Budgets DEF HandshakeClock
  <2> QED
    BY <2>1, <2>2, <2>4 DEF HandshakeClock, DialBudget
<1>4. ASSUME NEW p, Goto(p), total' = total, pc \in Sends \cup Reads, Over(p) \in Nat, Over(pc) < Over(p)
      PROVE  HandshakeClock'
  <2>1. pc' = p /\ elapsed' = 0
    BY <1>4 DEF Goto
  <2>2. Over(pc) \in Nat /\ Over(pc) + 1 \in Nat /\ Over(pc) + 1 <= Over(p)
    BY <1>4, CallsAdvance
  <2>3. /\ (Over(pc) + 1) * Timeout = Over(pc) * Timeout + Timeout
        /\ (Over(pc) + 1) * Timeout <= Over(p) * Timeout
        /\ Over(pc) * Timeout \in Nat /\ Over(p) * Timeout \in Nat
    BY <1>4, <2>2, Budgets, Products
  <2>4. total <= DialBudget + Over(pc) * Timeout + Timeout
    BY <1>1, <2>3, Budgets DEF HandshakeClock
  <2>5. total' <= DialBudget + Over(p) * Timeout
    BY <1>1, <1>4, <2>3, <2>4, Budgets
  <2>6. total' <= DialBudget + Over(p) * Timeout + 0 /\ 0 <= Timeout
    BY <1>1, <1>4, <2>3, <2>5, Budgets
  <2> QED
    BY <2>1, <2>6 DEF HandshakeClock, DialBudget
<1>5. CASE Send
  <2>1. Goto(IF pc = "sendAuth" THEN "readAuth" ELSE "readHeader") /\ total' = total /\ pc \in Sends
    BY <1>5 DEF Send
  <2>2. Over("readAuth") \in Nat /\ Over("readHeader") \in Nat
    BY DEF Over
  <2> QED
    BY <1>4, <2>1, <2>2, CallsAdvance
<1>6. CASE CallFails \/ PeerClosed \/ TimesOut
  <2>1. Goto("failed") /\ total' = total /\ pc \in Sends \cup Reads
    BY <1>6 DEF CallFails, PeerClosed, TimesOut
  <2> QED
    BY <1>4, <2>1, CallsAdvance
<1>7. ASSUME NEW n \in 1 .. 16, Receive(n) PROVE HandshakeClock'
  <2> DEFINE b == buf \o SubSeq(inbox, 1, n)
  <2>1. pc \in Reads /\ total' = total
    BY <1>7 DEF Receive
  <2>2. (pc' = pc /\ elapsed' = elapsed) \/ Goto(After(b))
    BY <1>7 DEF Receive, ClockAfterFragment
  <2> QED
    BY <1>2, <1>4, <2>1, <2>2, CallsAdvance
<1>8. CASE Server
  BY <1>2, <1>8 DEF Server, ServerGreets, ServerReplies, ServerCloses
<1> QED
  BY <1>3, <1>5, <1>6, <1>7, <1>8 DEF SocksNext, Client

-----------------------------------------------------------------------------
(* What my_connect does between the handshake's steps: one case per phase. *)
LEMMA ClockKept ==
  ASSUME CallInv, Next
  PROVE  ClockInv'
<1>1. /\ elapsed \in Nat /\ total \in Nat /\ pc \in Sends \cup Reads \cup Ended
      /\ signals \in 0 .. Signals /\ phase \in Early \cup {"poll", "ask", "mitm", "socks"} \cup Returned
  BY DEF CallInv, SocksInv, SocksTypeOK, ClockInv
<1>2. CASE UNCHANGED <<phase, signals, elapsed, total, pc>>
  BY <1>2 DEF CallInv, ClockInv, HandshakeClock, DialBudget, CallBounded
<1>3. total <= DialBudget => CallBounded
  BY <1>1, Budgets DEF CallBounded, DialBudget
<1>4. ASSUME NEW p, At(p), total' = total, elapsed' = elapsed \/ elapsed' = 0, pc' = pc, total <= DialBudget,
             p \in {"ask", "mitm", "failed", "plain", "open"} \/ (p = "socks" /\ pc = "sendAuth" /\ elapsed' = 0)
      PROVE  ClockInv'
  <2>1. phase' = p /\ signals' = signals
    BY <1>4 DEF At
  <2>2. CASE p \in {"ask", "mitm"}
    BY <1>1, <1>4, <2>1, <2>2 DEF ClockInv, Early, Returned, DialBudget
  <2>3. CASE p \in {"failed", "plain", "open"}
    <3>1. CallBounded'
      BY <1>3, <1>4 DEF CallBounded
    <3> QED
      BY <1>1, <2>1, <2>3, <3>1 DEF ClockInv, Early, Returned
  <2>4. CASE p = "socks"
    <3>1. Over(pc') = 0 /\ pc' \notin Ended
      BY <1>4, <2>4 DEF Over, Ended
    <3>2. 0 * Timeout = 0
      BY Budgets
    <3>3. HandshakeClock'
      BY <1>1, <1>4, <2>4, <3>1, <3>2, Budgets DEF HandshakeClock, DialBudget
    <3> QED
      BY <1>1, <2>1, <2>4, <3>3 DEF ClockInv, Early, Returned
  <2> QED
    BY <1>4, <2>2, <2>3, <2>4
<1>5. phase \in Early => elapsed = 0 /\ total = 0 /\ total <= DialBudget /\ pc = "sendAuth"
  BY Budgets DEF CallInv, ClockInv, PhaseInv
<1>6. phase = "poll" => /\ elapsed <= DialTicks /\ total <= (Signals - signals) * DialTicks + elapsed
                        /\ total <= DialBudget /\ pc = "sendAuth"
  <2> SUFFICES ASSUME phase = "poll" PROVE /\ elapsed <= DialTicks /\ pc = "sendAuth"
                                           /\ total <= (Signals - signals) * DialTicks + elapsed
                                           /\ total <= DialBudget
    OBVIOUS
  <2>1. elapsed <= DialTicks /\ total <= (Signals - signals) * DialTicks + elapsed /\ pc = "sendAuth"
    BY DEF CallInv, ClockInv, PhaseInv
  <2>2. (Signals - signals) * DialTicks + DialTicks <= DialBudget
    BY <1>1, Budgets
  <2>3. Signals - signals \in Nat /\ (Signals - signals) * DialTicks \in Nat
    BY <1>1, Budgets, Products
  <2> QED
    BY <1>1, <2>1, <2>2, <2>3, Budgets
<1>7. CASE OwnLoad \/ OtherLoad
  BY <1>2, <1>7 DEF OwnLoad, OtherLoad, callVars, socksVars
<1>8. CASE Initialized \/ (\E r \in BOOLEAN : Route(r))
  <2>1. /\ phase \in Early /\ phase' \in {"plain", "route", "dial", "failed"} /\ signals' = signals
        /\ UNCHANGED <<elapsed, total>>
    BY <1>8 DEF Initialized, Route, At, socksVars, Early
  <2>2. CallBounded'
    BY <1>3, <1>5, <2>1 DEF CallBounded
  <2> QED
    BY <1>1, <1>5, <2>1, <2>2 DEF ClockInv, Early, Returned
<1>9. CASE Dial
  <2>1. phase \in Early /\ UNCHANGED <<elapsed, total, pc>>
    BY <1>9 DEF Dial, socksVars, Early
  <2>2. At("ask") \/ At("socks") \/ At("failed")
    BY <1>9 DEF Dial, Tunnel
  <2> QED
    BY <1>4, <1>5, <2>1, <2>2
<1>10. CASE InProgress
  <2>1. phase \in Early /\ phase' = "poll" /\ signals' = signals /\ UNCHANGED <<elapsed, total>>
    BY <1>10 DEF InProgress, socksVars, Early
  <2>2. Signals - signals \in Nat /\ (Signals - signals) * DialTicks \in Nat
    BY <1>1, Budgets, Products
  <2>3. elapsed' <= DialTicks /\ total' <= (Signals - signals) * DialTicks + elapsed'
    BY <1>5, <2>1, <2>2, Budgets
  <2> QED
    BY <1>1, <2>1, <2>3 DEF ClockInv, Early, Returned
<1>11. CASE Polled
  <2>1. phase = "poll" /\ total' = total /\ pc' = pc /\ elapsed' = 0
    BY <1>11 DEF Polled
  <2>2. At("ask") \/ At("socks") \/ At("failed")
    BY <1>11 DEF Polled, Tunnel
  <2> QED
    BY <1>4, <1>6, <2>1, <2>2
<1>12. CASE Interrupted
  <2>1. /\ phase = "poll" /\ phase' = "poll" /\ total' = total /\ elapsed' = 0
        /\ signals > 0 /\ signals' = signals - 1
    BY <1>12 DEF Interrupted
  <2>2. signals' \in 0 .. Signals /\ Signals - signals \in Nat /\ Signals - signals' = (Signals - signals) + 1
    BY <1>1, <2>1, Budgets
  <2>3. /\ ((Signals - signals) + 1) * DialTicks = (Signals - signals) * DialTicks + DialTicks
        /\ (Signals - signals) * DialTicks \in Nat
    BY <2>2, Budgets, Products
  <2>4. total' <= (Signals - signals') * DialTicks + 0
    BY <1>1, <1>6, <2>1, <2>2, <2>3, Budgets
  <2>5. elapsed' <= DialTicks
    BY <2>1, Budgets
  <2> QED
    BY <2>1, <2>2, <2>4, <2>5 DEF ClockInv, Early, Returned
<1>13. CASE PollTick
  <2>1. /\ phase = "poll" /\ phase' = "poll" /\ total' = total + 1 /\ elapsed' = elapsed + 1
        /\ elapsed < DialTicks /\ signals' = signals
    BY <1>13 DEF PollTick, callVars
  <2>2. Signals - signals \in Nat /\ (Signals - signals) * DialTicks \in Nat
    BY <1>1, Budgets, Products
  <2>3. elapsed' <= DialTicks /\ total' <= (Signals - signals) * DialTicks + elapsed'
    BY <1>1, <1>6, <2>1, <2>2, Budgets
  <2> QED
    BY <1>1, <2>1, <2>3 DEF ClockInv, Early, Returned
<1>14. CASE PollExpired
  <2>1. phase = "poll" /\ At("failed") /\ UNCHANGED <<elapsed, total, pc>>
    BY <1>14 DEF PollExpired, socksVars
  <2> QED
    BY <1>4, <1>6, <2>1
<1>15. CASE Handshake
  <2>1. phase = "socks" /\ SocksNext /\ UNCHANGED callVars
    BY <1>15 DEF Handshake
  <2>2. HandshakeClock'
    BY <2>1, HandshakeInTime DEF CallInv, ClockInv
  <2>3. phase' = "socks" /\ signals' = signals
    BY <2>1 DEF callVars
  <2> QED
    BY <1>1, <2>2, <2>3 DEF ClockInv, Early, Returned
<1>16. CASE HandshakeEnds
  <2>1. phase = "socks" /\ pc \in Ended /\ phase' = pc /\ signals' = signals /\ total' = total
    BY <1>16 DEF HandshakeEnds, At, socksVars
  <2>2. HandshakeClock
    BY <2>1 DEF CallInv, ClockInv
  <2>3. Over(pc) = 7
    BY <2>1 DEF Over, Ended
  <2>4. total <= DialBudget + 7 * Timeout
    BY <1>1, <2>1, <2>2, <2>3, Budgets DEF HandshakeClock
  <2>5. CallBounded'
    BY <2>1, <2>4 DEF CallBounded, DialBudget
  <2> QED
    BY <1>1, <2>1, <2>5 DEF ClockInv, Early, Returned, Ended
<1>17. CASE MitmAsk
  <2>1. phase = "ask" /\ At("mitm") /\ UNCHANGED <<elapsed, total, pc>>
    BY <1>17 DEF MitmAsk, socksVars
  <2>2. total <= DialBudget
    BY <2>1 DEF CallInv, ClockInv
  <2> QED
    BY <1>4, <2>1, <2>2
<1>18. CASE \E r \in MitmReplies : MitmRecv(r)
  <2>1. phase = "mitm" /\ (At("open") \/ At("failed")) /\ UNCHANGED <<elapsed, total, pc>>
    BY <1>18 DEF MitmRecv, socksVars
  <2>2. total <= DialBudget
    BY <2>1 DEF CallInv, ClockInv
  <2> QED
    BY <1>4, <2>1, <2>2
<1> QED
  BY <1>7, <1>8, <1>9, <1>10, <1>11, <1>12, <1>13, <1>14, <1>15, <1>16, <1>17, <1>18 DEF Next

(* The handshake begins where its phase does, and a call that opens its    *)
(* tunnel through SOCKS5 saw the reply accepted.                           *)
LEMMA PhaseKept ==
  ASSUME CallInv, Next
  PROVE  PhaseInv'
<1>1. PhaseInv
  BY DEF CallInv
<1>2. CASE OwnLoad \/ OtherLoad
  BY <1>1, <1>2 DEF OwnLoad, OtherLoad, callVars, socksVars, PhaseInv, OpenOnlyIfAccepted
<1>3. CASE Initialized \/ (\E r \in BOOLEAN : Route(r)) \/ InProgress
  <2>1. phase \in Early /\ phase' \notin {"open", "ask", "mitm"} /\ pc' = pc
    BY <1>3 DEF Initialized, Route, InProgress, At, socksVars, Early
  <2> QED
    BY <1>1, <2>1 DEF PhaseInv, OpenOnlyIfAccepted, Early
<1>4. CASE Dial \/ Polled \/ Interrupted \/ PollTick \/ PollExpired
  <2>1. phase \in {"dial", "poll"} /\ pc' = pc
    BY <1>4 DEF Dial, Polled, Interrupted, PollTick, PollExpired, socksVars
  <2>2. phase' \in {"socks", "failed", "poll"} \/ (phase' = "ask" /\ via = "mitm" /\ via' = via)
    BY <1>4 DEF Dial, Polled, Interrupted, PollTick, PollExpired, Tunnel, At, callVars
  <2> QED
    BY <1>1, <2>1, <2>2 DEF PhaseInv, OpenOnlyIfAccepted, Early
<1>5. CASE Handshake
  BY <1>5 DEF Handshake, callVars, PhaseInv, OpenOnlyIfAccepted, Early
<1>6. CASE HandshakeEnds
  <2>1. phase' = pc /\ pc \in Ended /\ granted' = granted
    BY <1>6 DEF HandshakeEnds, At, socksVars
  <2>2. pc = "open" => granted
    BY OpenFacts DEF CallInv
  <2> QED
    BY <2>1, <2>2 DEF PhaseInv, OpenOnlyIfAccepted, Early, Ended
<1>7. CASE MitmAsk \/ \E r \in MitmReplies : MitmRecv(r)
  <2>1. /\ phase \in {"ask", "mitm"} /\ via' = via /\ pc' = pc
        /\ phase' \in {"mitm", "open", "failed"}
    BY <1>7 DEF MitmAsk, MitmRecv, At, socksVars
  <2> QED
    BY <1>1, <2>1 DEF PhaseInv, OpenOnlyIfAccepted, Early
<1> QED
  BY <1>2, <1>3, <1>4, <1>5, <1>6, <1>7 DEF Next

LEMMA CallNext == CallInv /\ [Next]_vars => CallInv'
<1> SUFFICES ASSUME CallInv, [Next]_vars PROVE CallInv'
  OBVIOUS
<1>1. CASE Next
  BY <1>1, LoadKept, SocksKept, ClockKept, PhaseKept DEF CallInv
<1>2. CASE UNCHANGED vars
  <2>1. UNCHANGED socksVars /\ UNCHANGED cfgVars /\ UNCHANGED callVars
    BY <1>2 DEF vars
  <2>2. /\ UNCHANGED <<pc, buf, len, elapsed, total, inbox, server, closed, granted, replied>>
        /\ UNCHANGED <<config, load, read>> /\ UNCHANGED <<phase, via, signals>>
    BY <2>1 DEF socksVars, cfgVars, callVars
  <2>3. SocksInv'
    <3>1. elapsed' \in Nat /\ total' \in Nat /\ closed' \in BOOLEAN /\ granted' \in BOOLEAN
      BY <2>2 DEF CallInv, SocksInv, SocksTypeOK
    <3> QED
      BY <2>2, <3>1, SocksQuiet DEF CallInv
  <2>4. LoadInv'
    BY <2>2 DEF CallInv, LoadInv, ReadInv
  <2>5. ClockInv'
    BY <2>2 DEF CallInv, ClockInv, HandshakeClock, DialBudget, CallBounded
  <2>6. PhaseInv'
    BY <2>2 DEF CallInv, PhaseInv, OpenOnlyIfAccepted
  <2> QED
    BY <2>3, <2>4, <2>5, <2>6 DEF CallInv
<1> QED
  BY <1>1, <1>2

LEMMA CallFacts ==
  CallInv => SocksTypeOK /\ OpenOnlyIfAccepted /\ StreamAligned /\ CallBounded /\ SettledConfigInRange
<1> SUFFICES ASSUME CallInv
             PROVE  SocksTypeOK /\ OpenOnlyIfAccepted /\ StreamAligned /\ CallBounded /\ SettledConfigInRange
  OBVIOUS
<1>1. SocksTypeOK /\ OpenOnlyIfAccepted /\ StreamAligned /\ SettledConfigInRange
  BY OpenFacts, LoadRange DEF CallInv, SocksInv, PhaseInv
<1>2. /\ elapsed \in Nat /\ total \in Nat /\ pc \in Sends \cup Reads \cup Ended /\ signals \in 0 .. Signals
      /\ phase \in Early \cup {"poll", "ask", "mitm", "socks"} \cup Returned
  BY DEF CallInv, SocksInv, SocksTypeOK, ClockInv
<1>3. CASE phase \in Early \cup {"poll", "ask", "mitm"}
  <2>1. total <= DialBudget
    <3>1. CASE phase \in Early
      BY <3>1, Budgets DEF CallInv, ClockInv
    <3>2. CASE phase = "poll"
      <4>1. elapsed <= DialTicks /\ total <= (Signals - signals) * DialTicks + elapsed
        BY <3>2 DEF CallInv, ClockInv
      <4>2. (Signals - signals) * DialTicks + DialTicks <= DialBudget /\ (Signals - signals) * DialTicks \in Nat
        BY <1>2, Budgets, Products
      <4> QED
        BY <1>2, <4>1, <4>2, Budgets
    <3>3. CASE phase \in {"ask", "mitm"}
      BY <3>3 DEF CallInv, ClockInv
    <3> QED
      BY <1>3, <3>1, <3>2, <3>3
  <2> QED
    BY <1>1, <1>2, <2>1, Budgets DEF CallBounded, DialBudget
<1>4. CASE phase = "socks"
  <2>1. HandshakeClock
    BY <1>4 DEF CallInv, ClockInv
  <2>2. CASE pc \in Ended
    <3>1. Over(pc) = 7
      BY <2>2 DEF Over, Ended
    <3> QED
      BY <1>1, <1>2, <2>1, <2>2, <3>1, Budgets DEF HandshakeClock, CallBounded, DialBudget
  <2>3. CASE pc \in Sends \cup Reads
    <3>1. Over(pc) \in Nat /\ Over(pc) + 1 \in Nat /\ Over(pc) + 1 <= 7
      BY <2>3, CallsAdvance
    <3>2. /\ (Over(pc) + 1) * Timeout = Over(pc) * Timeout + Timeout
          /\ (Over(pc) + 1) * Timeout <= 7 * Timeout /\ Over(pc) * Timeout \in Nat
      BY <3>1, Budgets, Products
    <3>3. total <= DialBudget + 7 * Timeout
      BY <1>2, <2>1, <3>2, Budgets DEF HandshakeClock
    <3> QED
      BY <1>1, <3>3 DEF CallBounded, DialBudget
  <2> QED
    BY <1>2, <2>2, <2>3
<1>5. CASE phase \in Returned
  BY <1>1, <1>5 DEF CallInv, ClockInv
<1> QED
  BY <1>1, <1>2, <1>3, <1>4, <1>5

LEMMA SpecInv == Spec => []CallInv
<1>1. Init => CallInv
  BY CallInit
<1> QED
  BY <1>1, CallNext, PTL DEF Spec

-----------------------------------------------------------------------------
(* Whatever a server sends, the lengths of Socks5.hpp stay bytes and what  *)
(* it has read a sequence of bytes.                                        *)
THEOREM SocksTypeCorrect == Spec => []SocksTypeOK
BY SpecInv, CallFacts, PTL

(* Through a SOCKS5 proxy my_connect returns 0 only behind a reply whose   *)
(* second byte is 0, read after a method that was accepted, for every      *)
(* server, replies of other protocols among them, and every way its bytes  *)
(* are cut into pieces.                                                    *)
THEOREM AcceptedCorrect == Spec => []OpenOnlyIfAccepted
BY SpecInv, CallFacts, PTL

(* Socks5Client::Handshake leaves the descriptor on the first byte of the  *)
(* application's stream, for replies with an address of any type and       *)
(* length.                                                                 *)
THEOREM AlignedCorrect == Spec => []StreamAligned
BY SpecInv, CallFacts, PTL

(* The waits of my_connect that have a timeout add up to one dial for each *)
(* signal and one more, and seven calls of the handshake, for any lengths  *)
(* of these.                                                               *)
THEOREM BoundedCorrect == Spec => []CallBounded
BY SpecInv, CallFacts, PTL

(* When no load of Config.hpp runs and none threw, the port and the        *)
(* timeout are in range, for any number of loads of any files.             *)
THEOREM ConfigCorrect == Spec => []SettledConfigInRange
BY SpecInv, CallFacts, PTL
=============================================================================
