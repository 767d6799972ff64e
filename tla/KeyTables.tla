------------------------------ MODULE KeyTables ------------------------------
(***************************************************************************)
(* The keys the program knows (common/include/key_code.h), their names in  *)
(* a profile (common/src/key_code.cpp) and each platform's table between   *)
(* its raw codes and them (key_map.cpp of linux, mac and win).             *)
(*                                                                         *)
(* A raw code is written as the KeyCode it is listed with first: VK_RETURN *)
(* is "Enter", KEY_ESC is "Escape".                                        *)
(***************************************************************************)
EXTENDS Integers

Letters == {"A", "B", "C", "D", "E", "F", "G", "H", "I", "J", "K", "L", "M",
            "N", "O", "P", "Q", "R", "S", "T", "U", "V", "W", "X", "Y", "Z"}

Digits == {"K0", "K1", "K2", "K3", "K4", "K5", "K6", "K7", "K8", "K9"}

HighFunctionKeys == {"F13", "F14", "F15", "F16", "F17", "F18", "F19", "F20",
                     "F21", "F22", "F23", "F24"}

FunctionKeys == {"F1", "F2", "F3", "F4", "F5", "F6", "F7", "F8", "F9", "F10",
                 "F11", "F12"} \cup HighFunctionKeys

Modifiers == {"LeftShift", "RightShift", "LeftControl", "RightControl", "LeftAlt",
              "RightAlt", "LeftSuper", "RightSuper", "CapsLock", "NumLock", "ScrollLock"}

Navigation == {"Escape", "Tab", "Enter", "Backspace", "Space", "Insert", "Delete", "Home",
               "End", "PageUp", "PageDown", "PrintScreen", "Pause", "Menu",
               "ArrowUp", "ArrowDown", "ArrowLeft", "ArrowRight"}

Symbols == {"Minus", "Equals", "LeftBracket", "RightBracket", "BackSlash", "Semicolon",
            "Apostrophe", "Grave", "Comma", "Period", "ForwardSlash"}

Numpad == {"Numpad0", "Numpad1", "Numpad2", "Numpad3", "Numpad4", "Numpad5", "Numpad6",
           "Numpad7", "Numpad8", "Numpad9", "NumpadAdd", "NumpadSubtract",
           "NumpadMultiply", "NumpadDivide", "NumpadEnter", "NumpadDecimal"}

Volume == {"VolumeUp", "VolumeDown", "Mute"}

\* Media keys but the volume, browser and application keys.
Consumer == {"MediaPlayPause", "MediaNext", "MediaPrev", "MediaStop", "BrowserBack",
             "BrowserForward", "BrowserRefresh", "BrowserSearch", "BrowserFavorites",
             "BrowserHome", "Mail", "Calculator", "Computer"}

Language == {"Katakana", "Hiragana", "Muhenkan", "Henkan"}

KeyCode == Letters \cup Digits \cup FunctionKeys \cup Modifiers \cup Navigation \cup Symbols
             \cup Numpad \cup Volume \cup Consumer \cup {"Sleep", "Power"} \cup Language

\* KeyEvent (common/include/event.h).
KeyEvent(code, press) == [code |-> code, type |-> IF press THEN "Press" ELSE "Release"]

-----------------------------------------------------------------------------
(* BiMap (common/include/bi_map.h): two hash maps.  insert() overwrites in   *)
(* each of them what it finds.                                               *)

Overwrite(f, key, value) ==
  [k \in DOMAIN f \cup {key} |-> IF k = key THEN value ELSE f[k]]

InsertForward(map, key, value) ==         \* mutant
  [map EXCEPT !.forward = Overwrite(@, key, value)]

Insert(map, key, value) == [forward  |-> Overwrite(map.forward, key, value),
                            backward |-> Overwrite(map.backward, value, key)]

\* A list in which no key and no value comes twice.
OneToOne(codes) == [forward |-> [c \in codes |-> c], backward |-> [c \in codes |-> c]]

ContainsForward(map, key) == key \in DOMAIN map.forward

\* find_forward and find_backward throw std::out_of_range for what is missing.
ContainsBackward(map, value) == value \in DOMAIN map.backward

-----------------------------------------------------------------------------
(* The tables. *)

\* str_to_keycode: every KeyCode has a name.
NameOf(code) == CASE code = "BackSlash" -> "Backslash"
                  [] code = "ForwardSlash" -> "Slash"
                  [] code = "K0" -> "0" [] code = "K1" -> "1" [] code = "K2" -> "2"
                  [] code = "K3" -> "3" [] code = "K4" -> "4" [] code = "K5" -> "5"
                  [] code = "K6" -> "6" [] code = "K7" -> "7" [] code = "K8" -> "8"
                  [] code = "K9" -> "9"
                  [] OTHER -> code

str_to_keycode ==
  [forward  |-> [name \in {NameOf(code) : code \in KeyCode} |->
                   CHOOSE code \in KeyCode : NameOf(code) = name],
   backward |-> [code \in KeyCode |-> NameOf(code)]]

LinuxKeys == OneToOne(KeyCode \ HighFunctionKeys)

MacKeys == OneToOne(KeyCode \ (Consumer \cup {"Sleep", "Power"} \cup Language))

\* VK_RETURN is listed a second time for the numeric keypad.
WinKeys ==
  Insert(OneToOne(KeyCode \ (HighFunctionKeys \cup {"Power", "NumpadEnter"} \cup Language)),
         "Enter", "NumpadEnter")

int_to_keycode == [linux |-> LinuxKeys, mac |-> MacKeys, win |-> WinKeys]
=============================================================================
