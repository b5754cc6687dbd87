----------------------------- MODULE MCTelegramBot -----------------------------
(* Two updates of the chat in hand at a time; they are interchangeable.     *)
EXTENDS TelegramBot, TLC
Slots == Permutations(Slot)
UpdatesOf == [p \in Parts \X BOOLEAN |->
                CASE p[1] = "copytrade" -> 4
                  [] p[1] = "monitor"   -> 4
                  [] p[1] = "trade"     -> IF p[2] THEN 3 ELSE 2
                  [] p[1] = "access"    -> 4
                  [] OTHER              -> 0]
Symmetry == Slots \cup Permutations(Code) \cup Permutations(Reader)
=============================================================================
