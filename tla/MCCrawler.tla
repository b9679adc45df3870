------------------------------ MODULE MCCrawler ------------------------------
(* An instance of Crawler for TLC: a wanted file, one next to it of an     *)
(* unsupported kind, one in a directory of an ignored one (dist/lib).      *)
EXTENDS Crawler, TLC

DirectoryOf == ("a.py" :> "src") @@ ("b.png" :> "src") @@ ("c.py" :> "lib")
AllFiles == DOMAIN DirectoryOf
Parts == ("a.py" :> {"src", "a.py"}) @@ ("b.png" :> {"src", "b.png"})
         @@ ("c.py" :> {"dist", "lib", "c.py"})
Suffixes == ("a.py" :> ".py") @@ ("b.png" :> ".png") @@ ("c.py" :> ".py")
RootPaths == {{"home", "repo"}}

Small == [size |-> 1, text |-> "text"]
Large == [size |-> 3, text |-> "large"]
Binary == [size |-> 1, text |-> "not text"]
States == {Small, Large, Binary}
=============================================================================
