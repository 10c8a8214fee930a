-------------------------- MODULE MCPacketLoading --------------------------
(***************************************************************************)
(* A set of two recoverable files, "a" of two blocks and "b" of one, and a *)
(* file "c" that is not; its PAR2 files, damaged in a few places; and PAR2 *)
(* files of other sets beside them.                                        *)
(***************************************************************************)
EXTENDS PacketLoading

MCPar2Words == {"par2", "PAR2"}
MCVolumeWords == {"vol0+1", "vol1+1"}
Index == <<"set", "par2">>
Volume == <<"set", "vol0+1", "par2">>
Volume2 == <<"set", "vol1+1", "par2">>
Upper == <<"set", "more", "PAR2">>
Extra == <<"extra", "par2">>
MCParFilenames == {Index, Volume}
MCExtraFiles == {Extra, Upper, <<"set", "txt">>}

Packet(type, length, about) ==
  [type |-> type, length |-> length, set |-> "mine", intact |-> TRUE, about |-> about]
Foreign(p) == [p EXCEPT !.set = "other"]

MainOf(recoverable, blocksize) ==
  Packet("main", 20, [files |-> <<"a", "b", "c">>, recoverablefilecount |-> recoverable,
                      blocksize |-> blocksize])
Main == MainOf(2, 4)
Description(f, filesize) ==
  Packet("description", 12, [file |-> f, filesize |-> filesize, hashesagree |-> TRUE])
Verification(f, n) == Packet("verification", 8 + 4 * n, f)
Recovery(exponent, blocksize) == Packet("recovery", 8 + blocksize, exponent)
Creator == Packet("creator", 12, None)
Unknown == Packet("other", 8, None)

Critical == <<Main, Description("a", 7), Verification("a", 2),
              Description("b", 3), Verification("b", 1), Description("c", 0)>>

(* What may happen to a packet in a file, and the bytes before it.         *)
Damages == {"none", "magic", "body", "long", "odd", "beyond", "tiny"}
Damage(p, damage) ==
  CASE damage = "body" -> [p EXCEPT !.intact = FALSE]
    [] damage = "long" -> [p EXCEPT !.intact = FALSE, !.length = @ + 12]
    [] damage = "odd" -> [p EXCEPT !.intact = FALSE, !.length = @ + 1]
    [] damage = "beyond" -> [p EXCEPT !.intact = FALSE, !.length = 1000]
    [] damage = "tiny" -> [p EXCEPT !.intact = FALSE, !.length = 0]
    [] OTHER -> p

(* The file that holds the packets one after another behind gap bytes, the *)
(* n-th of them damaged, cut short by some bytes.                          *)
Written(packets_, gap, n, damage, cut) ==
  LET start[i \in 1 .. Len(packets_) + 1] ==
        IF i = 1 THEN gap ELSE start[i - 1] + packets_[i - 1].length
      kept == {i \in DOMAIN packets_ : ~(i = n /\ damage = "magic")}
  IN [size |-> start[Len(packets_) + 1] - cut,
      packets |-> [o \in {start[i] : i \in kept} |->
        LET i == CHOOSE i \in kept : start[i] = o
        IN IF i = n THEN Damage(packets_[i], damage) ELSE packets_[i]]]

Whole(packets_) == Written(packets_, 0, 0, "none", 0)

(* One packet of the index is damaged; the volume has copies of some.      *)
OneDamaged ==
  {(Index :> Written(Critical, gap, n, damage, 0)) @@
   (Volume :> Whole(<<Recovery(0, 4), Main, Creator>>)) @@
   (Volume2 :> Whole(<<Recovery(1, 4)>> \o Critical)) :
     gap \in {0, 3}, n \in 1 .. Len(Critical), damage \in Damages}

(* The volume is damaged, cut short or after junk of any length.           *)
VolumeDamaged ==
  {(Index :> Whole(Critical)) @@
   (Volume :> Written(<<Recovery(0, 4), Recovery(0, 4), Main, Recovery(1, 4)>>, gap, n, damage, cut)) :
     gap \in 0 .. 7, n \in {1, 3}, damage \in {"none", "long", "magic"}, cut \in {0, 5}}

(* Files of other sets, foreign, unknown, unsound and inconsistent packets.*)
Mixed ==
  {(Index :> Whole(first)) @@ (Volume :> Whole(<<Foreign(Main), Recovery(3, 4)>> \o second)) @@
   (Extra :> Whole(third)) @@ (Upper :> Whole(<<Creator>> \o second)) :
     first \in {<<Unknown>>, <<Foreign(Creator), Main>>, <<MainOf(4, 4), Recovery(2, 8)>>,
                <<MainOf(2, 6), Creator>>, <<Creator, Main, Recovery(2, 8)>>},
     second \in {Critical, <<Verification("a", 3), Description("b", 3), Verification("b", 2)>>,
                 <<Description("a", 8), Description("b", 16)>>,
                 <<Description("a", 8), Description("b", 8)>>,
                 <<Description("b", 3), Description("c", 5), Verification("c", 2)>>},
     third \in {<<Main, Recovery(4, 4)>>, <<Foreign(Main)>>,
                <<[Description("a", 8) EXCEPT !.about.hashesagree = FALSE]>>}}

(* The PAR2 files here are named and written as the program does it.       *)
ASSUME PlainNames /\ PacketsApart /\ FilesListedOnce
ASSUME \A d \in OneDamaged \union VolumeDamaged : CopiesAgree(d)

MCDisks == OneDamaged \union VolumeDamaged \union Mixed \union {<<>>}
=============================================================================
