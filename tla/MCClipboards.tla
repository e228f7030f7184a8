---------------------------- MODULE MCClipboards ----------------------------
(* A Windows device, where a page, a secret and something huge are copied,  *)
(* beside a device on another platform, where text with an image and a      *)
(* concealed password are: it may come while the watch thread is reading.   *)
EXTENDS Clipboards

CONSTANTS w, o, text, cut, image, password, key, huge

MCSetups == {[d \in Device |-> IF d = w THEN "windows" ELSE pf] :
                pf \in {"macos", "x11", "wayland", "manual"}}
MCTrim == [b \in Bytes |-> IF b = cut THEN text ELSE b]

Plain(content) == [content |-> content, marked |-> FALSE, app |-> "other"]
P(format, bytes) == [format |-> format, bytes |-> bytes]

MCCopies ==
    [d \in Device |->
        IF d = w
        THEN {Plain({P("Text", text)}), Plain({P("Text", key)}), Plain({P("Html", huge)})}
        ELSE {Plain({P("Text", cut), P("Tiff", image)}),
              [Plain({P("Text", password)}) EXCEPT !.marked = TRUE]}]

=============================================================================
