--------------------------------- MODULE Chats ---------------------------------
(***************************************************************************)
(* The chats of one user's messenger.                                      *)
(***************************************************************************)
CONSTANTS Chat, NoChat

ASSUME ChatsAssumption == NoChat \notin Chat
===============================================================================
