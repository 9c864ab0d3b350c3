SPECIFICATION Spec
CONSTANTS
    PONG <- MCPong
    YAKANOID <- MCYakanoid
    VADERS <- MCVaders
    HUNTER <- MCHunter
    LAUNCHER <- MCLauncher
    SKATE <- MCSkate
INVARIANT RulesKept
PROPERTY RoundsEnd
