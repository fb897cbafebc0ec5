----------------------------- MODULE MCChatScreen -----------------------------
(* TLC instance of ChatScreen: a group, a channel in which this user is a     *)
(* plain member; two messages of the group, one of them foreign.             *)
EXTENDS ChatScreen, TLC

CONSTANTS group, channel, g1, g2, x1

MCHome == g1 :> group @@ g2 :> group @@ x1 :> channel
MCKind == group :> "group" @@ channel :> "channel"
MCRole == group :> "admin" @@ channel :> "member"
===============================================================================
