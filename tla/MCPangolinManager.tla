------------------------- MODULE MCPangolinManager ---------------------------
(* A hostname that is published for two sites, one that is not published, and
   one that two resources claim. *)
EXTENDS PangolinManager

CONSTANTS p1, p2, p3, p4, o1, o2, o3, t1, t2, h1, h2, h3, s1, s2, s3

MCHost == [c \in Resources |->
             CASE c \in {p1, o1} -> h1
               [] c \in {p2, p3} -> h2
               [] c \in {p4, o2, o3} -> h3]
MCSite == [t \in Targets |->
             CASE t \in {p1, p2, p4, t1} -> s1
               [] t = p3 -> s2
               [] t = t2 -> s3]
MCOldOn == [t \in {t1, t2} |-> o1]
=============================================================================
