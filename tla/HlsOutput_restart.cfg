SPECIFICATION HlsFairSpec
PROPERTY RestartsFfmpeg
