------------------------------ MODULE MCSfsDir ------------------------------
\* A home directory with a file that has two names, a directory with a
\* directory in it, a link and a pipe.
EXTENDS SfsDir, TLC

MCKind == "home" :> "dir" @@ "bin" :> "dir" @@ "sub" :> "dir" @@ "f" :> "file" @@ "g" :> "file"
          @@ "l" :> "link" @@ "p" :> "other"

MCTrees == {
    "home" :> ("a" :> "f" @@ "b" :> "bin" @@ "c" :> "f")
      @@ "bin" :> ("a" :> "g" @@ "d" :> "sub") @@ "sub" :> ("c" :> "g"),
    "home" :> ("a" :> "l" @@ "b" :> "p" @@ "c" :> "f" @@ ".h" :> "g" @@ "d" :> "bin")
      @@ "bin" :> [n \in {} |-> "f"] @@ "sub" :> [n \in {} |-> "f"]}

MCNameLen == "" :> 0 @@ "." :> 1 @@ ".." :> 2 @@ ".h" :> 2 @@ "a" :> 1 @@ "b" :> 5 @@ "c" :> 2
             @@ "d" :> 3
=============================================================================
