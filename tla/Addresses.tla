----------------------------- MODULE Addresses -----------------------------
(***************************************************************************)
(* Node addresses (src/src/network.c): the text of an address and its      *)
(* parts, the address a text names, and when two addresses are the same    *)
(* node.                                                                   *)
(*                                                                         *)
(* A text is the sequence of its characters.  An IP address is a value of  *)
(* V4 or V6; Mapped gives the IPv6 address ::ffff:a.b.c.d of an IPv4 one.  *)
(***************************************************************************)
EXTENDS Integers, Sequences

CONSTANTS V4, V6, Mapped(_),
          HostLen, ServiceLen,  \* sizes of the buffers, with the final NUL
          Configured            \* the transport of the build: DPS_DTLS, DPS_TCP, DPS_UDP

Inet == {"DPS_DTLS", "DPS_TCP", "DPS_UDP"}

(* The position of the first c in t at or behind i, or one behind the end. *)
Find(t, i, c) == CHOOSE j \in i .. Len(t) + 1 :
                     (j > Len(t) \/ t[j] = c) /\ \A k \in i .. j - 1 : t[k] # c

SplitAddressBug(t) ==     \* the first colon ends the host, brackets or not
    LET bracket == Len(t) > 0 /\ t[1] = "["
        first == IF bracket THEN 2 ELSE 1
        close == Find(t, first, ":")
        host == SubSeq(t, first, close - (IF bracket /\ close > 2 THEN 2 ELSE 1))
        service == SubSeq(t, close + 1, Len(t))
    IN  IF Len(host) >= HostLen \/ Len(service) >= ServiceLen
        THEN [st |-> "OVERFLOW", host |-> <<>>, service |-> <<>>]
        ELSE [st |-> "OK", host |-> host, service |-> service]

(* DPS_SplitAddress: "host:service", or "[host]:service" for a host with   *)
(* colons; the service may be missing and so may the closing bracket.      *)
SplitAddress(t) ==
    LET bracket == Len(t) > 0 /\ t[1] = "["
        first == IF bracket THEN 2 ELSE 1
        last == Find(t, first, IF bracket THEN "]" ELSE ":")
        colon == IF bracket THEN last + 1 ELSE last
        host == SubSeq(t, first, last - 1)
        service == SubSeq(t, colon + 1, Len(t))
        Failed(st) == [st |-> st, host |-> <<>>, service |-> <<>>]
    IN  CASE Len(host) >= HostLen -> Failed("OVERFLOW")
          [] Len(host) < HostLen /\ colon <= Len(t) /\ t[colon] # ":" -> Failed("INVALID")
          [] Len(host) < HostLen /\ (colon > Len(t) \/ t[colon] = ":") ->
                 IF Len(service) >= ServiceLen THEN Failed("OVERFLOW")
                 ELSE [st |-> "OK", host |-> host, service |-> service]

(* DPS_NetAddrText. *)
NetAddrText(family, name, port) ==
    IF family = "AF_INET6" THEN <<"[">> \o name \o <<"]", ":">> \o port
    ELSE name \o <<":">> \o port

-----------------------------------------------------------------------------

Family(ip) == IF ip \in V4 THEN "AF_INET" ELSE "AF_INET6"

(* getaddrinfo (external) for a numeric host on a machine with addresses   *)
(* of these families; no host stands for the loopback address.             *)
getaddrinfo(host, families) ==
    CASE host = "none" -> IF "AF_INET6" \in families THEN "::1" ELSE "127.0.0.1"
      [] host \in V4 \cup V6 /\ Family(host) \in families -> host
      [] host \in V4 \cup V6 /\ Family(host) \notin families -> "EAI_ADDRFAMILY"
      [] OTHER -> "EAI_NONAME"

(* The local host and the any address of the other family. *)
OtherFamily(host) ==
    CASE host = "::1" -> "127.0.0.1" [] host = "127.0.0.1" -> "::1"
      [] host = "::" -> "0.0.0.0" [] host = "0.0.0.0" -> "::" [] OTHER -> host

GetScope(host, families) ==
    LET ip == getaddrinfo(host, families)
    IN  IF ip = "EAI_ADDRFAMILY" THEN getaddrinfo(OtherFamily(host), families) ELSE ip

Address(type, ip, port) == [type |-> type, ip |-> ip, port |-> port]

(* DPS_SetAddress, from the parts of the text. *)
SetAddress(host, port, families) == Address(Configured, GetScope(host, families), port)

(* DPS_GetLoopbackAddress of a node that listens at addr. *)
GetLoopbackAddress(addr, families) == [addr EXCEPT !.ip = GetScope("none", families)]

(* DPS_CmpAddr, which is only asked whether two addresses are equal: an    *)
(* IPv4 address is compared with an IPv6 one as the latter maps it.        *)
SameAddr(a, b) ==
    LET As6(ip) == IF ip \in V4 THEN Mapped(ip) ELSE ip
        mixed == Family(a.ip) # Family(b.ip)
    IN  /\ a.type = b.type /\ a.port = b.port
        /\ IF mixed THEN As6(a.ip) = As6(b.ip) ELSE a.ip = b.ip

(* DPS_EndpointSetPort: the port a message names is where its sender       *)
(* listens. A connection keeps the port it is connected to, and what came  *)
(* by multicast is to be answered by the configured transport.             *)
EndpointSetPort(ep, port) ==
    [ep EXCEPT !.addr.type = IF @ = "DPS_UDP" THEN Configured ELSE @,
               !.addr.port = IF ep.cn THEN @ ELSE port]
=============================================================================
