--------------------------- MODULE MCConnectCall ---------------------------
(* Model-checking instance of ConnectCall: a server that accepts or        *)
(* refuses the method, one that answers it in HTTP, replies with each kind *)
(* of address, and replies that are not of SOCKS5, the second byte 0 and   *)
(* another.  Application data is the byte 9.                               *)
EXTENDS ConnectCall

Http == <<72, 84, 84, 80>>
MCGreetings == {<<5, 0>>, <<5, 255>>, Http}
Reply(ver, code, atyp, addr) == [ver |-> ver, code |-> code, atyp |-> atyp, addr |-> addr]

MCReplies ==
  {Reply(5, c, 1, <<0, 5, 0, 3>>) : c \in {0, 1}}
  \cup {Reply(5, 0, 3, x) : x \in {<<>>, <<1>>, <<0, 5, 0, 3>>}}
  \cup {Reply(5, 0, 4, <<0, 0, 0, 0, 0, 0, 0, 0, 0, 0, 0, 0, 0, 0, 0, 1>>)}
  \cup {Reply(72, c, 80, <<>>) : c \in {0, 84}}
  \cup {Reply(0, 0, 3, <<1>>)}
MCPayloads == {<<>>, <<9, 9, 9>>}

Sections(p, m, t) == [proxy |-> p, mitm |-> m, timeout |-> t]
Proxy(port, type) == [host |-> "address", port |-> port, type |-> type]

(* Every section missing, as it should be, out of range and ill-typed.     *)
MCFiles ==
  {NoFile,
   Sections(Proxy(1080, "http"), [enabled |-> Absent], Absent),
   Sections(Proxy(70000, "socks5"), Absent, [connect |-> 90000, others |-> Absent]),
   Sections([Proxy(0, Absent) EXCEPT !.host = "name"], Absent, Absent),
   Sections(Proxy(70000, IllTyped), Absent, Absent),
   Sections([Proxy(1080, "socks5") EXCEPT !.host = IllTyped], Absent, Absent),
   Sections(Absent, [enabled |-> IllTyped], [connect |-> 5, others |-> Absent]),
   Sections(Absent, [enabled |-> Absent], [connect |-> -1, others |-> IllTyped])}
=============================================================================
