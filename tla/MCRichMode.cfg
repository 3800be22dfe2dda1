\* Starts on serial and tty consoles in any order, toggles on serial, from
\* any state files an earlier release left; a set_rich write may be cut short.
CONSTANT MaxStarts <- MCMaxStarts
SPECIFICATION Spec
PROPERTY ModePersistsPerConsole
