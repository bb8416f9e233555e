SPECIFICATION Spec
CONSTANTS
  Files <- MCFiles
  ToInject <- MCToInject
INVARIANT InjectedBeforeCommand
