------------------------------ MODULE MCDnsReader ------------------------------
(* Instance of DnsReader for TLC: packets with a question and two records     *)
(* whose names, lengths and pointers are right, off by one, circular or cut.  *)
EXTENDS DnsReader, Sequences

\* A label, the end, and pointers to the first name, to the second, to themselves.
MCName == {<<0>>, <<1, 97, 0>>, <<192, 12>>, <<1, 98, 192, 12>>, <<192, 16>>, <<1, 97, 192, 18>>, <<64>>, <<3, 97>>}

MCRecord(n, type, rdlen, data) ==
  n \o <<0, type, 0, 1, 0, 0, 0, 120, 0, rdlen>> \o data

MCData == {<<>>, <<0>>, <<192, 12>>, <<0, 0, 0, 0, 1, 2, 0>>, <<0, 0, 0, 0, 1, 2, 192, 12>>}

MCPacket ==
  LET Counts == {<<0, 0, 0, 0, 0, q, 0, a, 0, 0, 0, 1>> : q, a \in 0 .. 1}
      Body   == {n \o <<0, 12, 0, 1>> \o MCRecord(m, t, Len(d) + e, d) :
                   n \in MCName, m \in MCName, t \in {kPtr, kSrv, 16},
                   e \in {0, 1}, d \in MCData}
      Bytes  == {<<0>>} \union {h \o b : h \in Counts, b \in Body}
  IN  {[size |-> Len(b), byte |-> [i \in 0 .. Len(b) - 1 |-> b[i + 1]]] : b \in Bytes}
=============================================================================
