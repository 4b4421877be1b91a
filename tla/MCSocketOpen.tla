----------------------------- MODULE MCSocketOpen -----------------------------
(* Three interfaces; the options that change the order of the steps, with the  *)
(* default ring and with rings the kernel refuses or does not set up.          *)
EXTENDS DefaultInterface

Opts(ifname, filtered, promiscuous, buffered, block_kib, nr, snaplen) ==
  [ifname |-> ifname, filtered |-> filtered, promiscuous |-> promiscuous, buffered |-> buffered,
   block_size |-> block_kib * 1024, block_nr |-> nr, frame_size |-> 2048, snaplen |-> snaplen]

(* Blocks of 64 KiB more than a c_uint of 22 bits can say: with 256 blocks and *)
(* frames of 256 bytes the kernel takes what is left of the request.           *)
CutOptions ==
  {[Opts("eth0", FALSE, FALSE, FALSE, 4096 + 64, nr, 0) EXCEPT !.frame_size = 256] : nr \in {2, 256}}

Options ==
  {Opts(i, f, p, FALSE, 1024, 64, 65535) : i \in {"any", "eth0"}, f \in BOOLEAN, p \in BOOLEAN}
    \cup {Opts("eth0", TRUE, FALSE, TRUE, 64, 1, 65535), Opts("eth0", TRUE, FALSE, FALSE, 1024, 0, 1500)}
    \cup {Opts("", FALSE, FALSE, FALSE, 1024, 64, 65535)} \cup CutOptions

(* Indexes by name; an interface that is down.                                 *)
Host(lo, eth0, eth1, down) ==
  [n \in Interfaces |->
    [index |-> CASE n = "lo" -> lo [] n = "eth0" -> eth0 [] n = "eth1" -> eth1, up |-> n # down]]

HostsOf == {Host(1, 2, 3, ""), Host(1, 3, 2, "lo"), Host(1, 2, 3, "eth0"), Host(1, 0, 0, "")}
OneHost == {Host(1, 2, 3, "")}

(* What --block-size and -s may ask for.                                       *)
CommandLine ==
  {Opts("eth0", FALSE, FALSE, FALSE, kib, 4, s) : kib \in {64, 128, 200, 1024}, s \in {96, 65535}}
================================================================================
