---------------------------- MODULE SquashPacket ----------------------------
(***************************************************************************)
(* nfqueue_example: packets of netfilter queue 3 are received one at a     *)
(* time in a buffer that is never cleared, and given a verdict.            *)
(* A payload is a sequence of cells: the keyword strstr looks for, a NUL,  *)
(* other text, and the text corrupt_packet writes.  Lengths count payload  *)
(* cells, in front of Hdr cells of IP and TCP headers.                     *)
(***************************************************************************)
EXTENDS Integers, Sequences

CONSTANTS
    Packets,      \* what the kernel queues: [tcp, payload]
    Hdr,          \* length of the headers
    NewLen,       \* strlen(http_payload)
    BufLen,       \* room for payload in the buffer of appz_main_loop
    MaxPackets    \* bound: packets received

ASSUME PacketsAssumption ==
    \A p \in Packets : p.payload \in Seq({"PRIVMS", "nul", "text"}) /\ Len(p.payload) <= BufLen
ASSUME LengthsAssumption == Hdr \in Nat \ {0} /\ NewLen \in 1 .. BufLen /\ BufLen \in Nat

VARIABLES
    sq_pc,     \* "init", "running", "exited"
    sq_buff,   \* the payload area of the buffer
    sq_seen,   \* the packets received so far
    sq_sent    \* what the last verdict let through: [ip_len, payload], <<>> if none was given

sq_vars == <<sq_pc, sq_buff, sq_seen, sq_sent>>

Cells == {"PRIVMS", "nul", "text", "new"}

SqInit ==
    /\ sq_pc = "init"
    /\ sq_buff = [i \in 1 .. BufLen |-> "nul"]
    /\ sq_seen = <<>>
    /\ sq_sent = <<>>

(* Six calls may fail; none is undone, the process exits.                  *)
init_appz ==
    /\ sq_pc = "init"
    /\ sq_pc' \in {"running", "exited"}
    /\ UNCHANGED <<sq_buff, sq_seen, sq_sent>>

recv(p) == [i \in 1 .. BufLen |-> IF i <= Len(p.payload) THEN p.payload[i] ELSE sq_buff[i]]

(* strstr(payload, "PRIVMS") stops at a NUL, not at the packet's end.      *)
strstr(buff) ==
    \E k \in 1 .. BufLen : buff[k] = "PRIVMS" /\ \A j \in 1 .. k - 1 : buff[j] # "nul"

(* memset over the old text.  Fault: it is left out.                       *)
erased_not(buff, len) == buff
erased(buff, len) == [i \in 1 .. BufLen |-> IF i <= len THEN "nul" ELSE buff[i]]

(* Fault: the length of the new text is forgotten.                         *)
new_ip_len_same(len) == Hdr + len
new_ip_len(len) == Hdr + len - (len - NewLen)

(* The buffer, the length returned, and the header's: nothing but the      *)
(* memset is done when the new text is longer than the old.                *)
corrupt_packet(buff, len) ==
    IF NewLen > len
    THEN [buff |-> erased(buff, len), tlen |-> 0, ip_len |-> Hdr + len]
    ELSE [buff |-> [i \in 1 .. BufLen |-> IF i <= NewLen THEN "new" ELSE erased(buff, len)[i]],
          tlen |-> new_ip_len(len), ip_len |-> new_ip_len(len)]

(* External: nfq_set_verdict without data accepts the packet as the kernel *)
(* has it.                                                                 *)
set_verdict(p, r) ==
    IF r.tlen = 0
    THEN [ip_len |-> Hdr + Len(p.payload), payload |-> p.payload]
    ELSE [ip_len |-> r.ip_len, payload |-> SubSeq(r.buff, 1, r.tlen - Hdr)]

process_packet(p) ==
    LET buff == recv(p)
        len  == Len(p.payload)
        r    == IF p.tcp /\ strstr(buff) THEN corrupt_packet(buff, len)
                ELSE [buff |-> buff, tlen |-> Hdr + len, ip_len |-> Hdr + len]
    IN  /\ sq_pc = "running" /\ Len(sq_seen) < MaxPackets
        /\ sq_buff' = r.buff
        /\ sq_sent' = set_verdict(p, r)
        /\ sq_seen' = Append(sq_seen, p)
        /\ UNCHANGED sq_pc

(* A checksum of the new packet may fail: the program exits, without a     *)
(* verdict on the packet.                                                  *)
checksum_fails(p) ==
    /\ sq_pc = "running" /\ Len(sq_seen) < MaxPackets
    /\ p.tcp /\ strstr(recv(p)) /\ NewLen <= Len(p.payload)
    /\ sq_pc' = "exited"
    /\ sq_sent' = <<>>
    /\ UNCHANGED <<sq_buff, sq_seen>>

(* nfq_get_payload fails: its -1 is passed on as a length without data,    *)
(* which cannot be sent, and the packet stays in the kernel.               *)
process_packet_nopayload ==
    /\ sq_pc = "running"
    /\ sq_sent' = <<>>
    /\ UNCHANGED <<sq_pc, sq_buff, sq_seen>>

SqNext ==
    \/ init_appz
    \/ \E p \in Packets : process_packet(p) \/ checksum_fails(p)
    \/ process_packet_nopayload

SqSpec == SqInit /\ [][SqNext]_sq_vars

----------------------------------------------------------------------------
(* Properties                                                              *)

(* The keyword, where strstr would see it within the packet.               *)
Visible(p) ==
    \E k \in DOMAIN p.payload :
        p.payload[k] = "PRIVMS" /\ \A j \in 1 .. k - 1 : p.payload[j] # "nul"

Arrived == sq_seen[Len(sq_seen)]

Squashed == Arrived.tcp /\ Visible(Arrived) /\ Len(Arrived.payload) >= NewLen

(* A TCP packet that shows the keyword and is long enough leaves with the  *)
(* new text and nothing else, and every packet that leaves says its own    *)
(* length: text, return value and header are changed together.             *)
SqWellFormed ==
    sq_sent # <<>> =>
        /\ sq_sent.ip_len = Hdr + Len(sq_sent.payload)
        /\ Squashed => sq_sent.payload = [i \in 1 .. NewLen |-> "new"]

(* Any other packet leaves as it came, unless strstr runs on into what is  *)
(* left of an earlier, longer packet, whose keyword corrupt_packet had no  *)
(* reason to erase: it was not TCP, or a NUL stood before the keyword.     *)
SqOthersUntouched ==
    sq_sent # <<>> /\ sq_sent.payload # Arrived.payload /\ ~ Squashed =>
        /\ Arrived.tcp /\ "nul" \notin {Arrived.payload[i] : i \in DOMAIN Arrived.payload}
        /\ \E n \in 1 .. Len(sq_seen) - 1 :
              LET old == sq_seen[n] IN
              /\ ~ (old.tcp /\ Visible(old))
              /\ \E k \in Len(Arrived.payload) + 1 .. Len(old.payload) : old.payload[k] = "PRIVMS"
=============================================================================
